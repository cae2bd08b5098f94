----------------------------- MODULE FileRefinement -----------------------------
(***************************************************************************)
(* FileHandle implements AtomicFile: a read that takes several chunks, or  *)
(* an upload that takes several documents, is one step of an open file, as *)
(* long as no two first reads of a handle load its document at once.       *)
(***************************************************************************)
EXTENDS FileHandleProofs

\* The reader that loads the document of a handle is the only one that does, and
\* nobody has loaded it yet.
LoadsAlone ==
  \A r \in Reader : reader[r].pc = "reset" =>
    /\ file[reader[r].h].theGridFile = None
    /\ \A s \in Reader \ {r} : reader[s].pc = "reset" => reader[s].h # reader[r].h

-----------------------------------------------------------------------------
(* The invariant: also the bounds of requests, and no document loaded twice *)

RequestInv ==
  \A r \in Reader : reader[r].pc # "idle" =>
    reader[r].off \in 0 .. MaxLength /\ reader[r].size \in 1 .. MaxLength

LoadedOnce == \A h \in Handle : file[h] # None => ~file[h].reloaded

LEMMA RequestStep ==
  ASSUME TypeOK, RequestInv, [Next]_vars
  PROVE  RequestInv'
<1>1. CASE UNCHANGED reader
  BY <1>1 DEF RequestInv
<1>2. CASE Die
  BY <1>2 DEF RequestInv, Die, NoRead
<1>3. ASSUME NEW r \in Reader, Served(r) PROVE RequestInv'
  <2>1. \A s \in Reader \ {r} : reader'[s] = reader[s]
    BY <1>3 DEF Served, TypeOK
  <2> QED BY <1>3, <2>1 DEF Served, RequestInv
<1>4. ASSUME NEW r \in Reader, NEW h \in Handle, NEW off \in 0 .. MaxLength,
             NEW size \in 1 .. MaxLength, Read(r, h, off, size)
      PROVE  RequestInv'
  <2>1. /\ reader'[r].off = off /\ reader'[r].size = size
        /\ \A s \in Reader \ {r} : reader'[s] = reader[s]
    BY <1>4 DEF Read, NoRead, TypeOK
  <2> QED BY <2>1 DEF RequestInv
<1>5. ASSUME NEW r \in Reader, Reply(r) PROVE RequestInv'
  BY <1>5 DEF Reply, TypeOK, RequestInv, NoRead
<1>6. ASSUME NEW r \in Reader, ReaderStep(r) PROVE RequestInv'
  <2>1. Served(r) \/ DivideByZero(r) \/ ResetCrashes(r) \/ Reply(r)
    BY <1>6, GridfileEffect, ResetEffect, ChunkSizeEffect, FileLengthEffect, LockEffect,
       FetchEffect, FetchThrowsEffect, CopyEffect DEF ReaderStep
  <2> QED BY <1>2, <1>3, <1>5, <2>1 DEF DivideByZero, ResetCrashes
<1>7. ASSUME NEW h \in Handle, HandlerStep(h) PROVE RequestInv'
  BY <1>1, <1>2, <1>7
     DEF HandlerStep, Open, OpenAborts, Create, WriteElsewhere, Write, WriteFails, WriteLost,
         Release, ReleaseChanged, StoreChunk, StoreFile, StoreThrows, StoreLost
<1>8. CASE Others \/ Crash \/ UNCHANGED vars
  BY <1>1, <1>2, <1>8 DEF Others, Upload, UnlinkFile, UnlinkChunks, Truncate, Crash, vars
<1> QED BY <1>4, <1>6, <1>7, <1>8 DEF Next

\* Only Reset replaces a loaded document.
LEMMA LoadedOnceStep ==
  ASSUME TypeOK, LoadedOnce, LoadsAlone, [Next]_vars
  PROVE  LoadedOnce'
<1>1. CASE UNCHANGED file
  BY <1>1 DEF LoadedOnce
<1>2. CASE Die
  BY <1>2 DEF LoadedOnce, Die
<1>3. ASSUME NEW h \in Handle, file' = [file EXCEPT ![h] = None] PROVE LoadedOnce'
  BY <1>3 DEF LoadedOnce, TypeOK
<1>4. ASSUME NEW h \in Handle, NEW d, file' = [file EXCEPT ![h] = NewFile(d)]
      PROVE  LoadedOnce'
  BY <1>4 DEF LoadedOnce, TypeOK, NewFile
<1>5. ASSUME NEW r \in Reader, ReaderStep(r) PROVE LoadedOnce'
  <2>1. CASE DivideByZero(r) \/ ResetCrashes(r) \/ Reply(r)
    BY <1>1, <1>2, <2>1 DEF DivideByZero, ResetCrashes, Reply
  <2>2. CASE ~(DivideByZero(r) \/ ResetCrashes(r) \/ Reply(r))
    <3> DEFINE h == reader[r].h
    <3>1. Served(r) /\ (file'[h].reloaded => file[h].reloaded \/ file' = file)
      <4>1. CASE Gridfile(r)
        BY <4>1, GridfileEffect DEF SameDocument
      <4>2. CASE Reset(r)
        BY <4>2, ResetEffect DEF SameDocument, LoadsAlone
      <4>3. CASE ChunkSize(r) \/ FileLength(r)
        BY <4>3, ChunkSizeEffect, FileLengthEffect DEF SameDocument
      <4>4. CASE Lock(r) \/ Fetch(r)
        BY <4>4, LockEffect, FetchEffect DEF SameDocument
      <4>5. CASE FetchThrows(r) \/ Copy(r)
        BY <4>5, FetchThrowsEffect, CopyEffect DEF SameDocument
      <4> QED BY <1>5, <2>2, <4>1, <4>2, <4>3, <4>4, <4>5 DEF ReaderStep
    <3>2. \A g \in Handle \ {h} : file'[g] = file[g]
      BY <3>1 DEF Served, TypeOK
    <3> QED BY <1>1, <3>1, <3>2 DEF LoadedOnce, Served
  <2> QED BY <2>1, <2>2
<1>6. ASSUME NEW h \in Handle, HandlerStep(h) PROVE LoadedOnce'
  <2>1. CASE Open(h)
    BY <1>4, <2>1 DEF Open
  <2>2. CASE Release(h) \/ StoreFile(h) \/ StoreThrows(h)
    BY <1>3, <1>4, <2>2 DEF Release, StoreFile, StoreThrows
  <2>3. CASE \/ OpenAborts(h) \/ StoreLost(h)
             \/ \E size \in 1 .. MaxLength : WriteLost(h, size)
    BY <1>2, <2>3 DEF OpenAborts, StoreLost, WriteLost
  <2>4. CASE Written(h)
    BY <2>4 DEF Written, LoadedOnce, TypeOK
  <2>5. CASE ReleaseChanged(h) \/ StoreChunk(h)
    <3>1. file[h] \in File /\ file[h] # None
      BY <2>5 DEF ReleaseChanged, StoreChunk, Storing, TypeOK
    <3>2. \A g \in Handle \ {h} : file'[g] = file[g]
      BY <2>5 DEF ReleaseChanged, StoreChunk, TypeOK
    <3>3. ASSUME ReleaseChanged(h) PROVE file'[h].reloaded = file[h].reloaded
      BY <3>1, <3>3 DEF ReleaseChanged, TypeOK, File
    <3>4. ASSUME StoreChunk(h) PROVE file'[h].reloaded = file[h].reloaded
      BY <3>1, <3>4 DEF StoreChunk, TypeOK, File
    <3>5. file'[h].reloaded = file[h].reloaded
      BY <2>5, <3>3, <3>4
    <3> QED BY <3>1, <3>2, <3>5 DEF LoadedOnce
  <2>6. CASE Create(h)
    <3>1. file'[h] = Creating /\ \A g \in Handle \ {h} : file'[g] = file[g]
      BY <2>6 DEF Create, Creating, TypeOK
    <3> QED BY <3>1, CreatingType DEF LoadedOnce, TypeOK
  <2> QED BY <1>6, <2>1, <2>2, <2>3, <2>4, <2>5, <2>6, WriteEffect DEF HandlerStep
<1>7. CASE \/ \E r \in Reader, h \in Handle, off \in 0 .. MaxLength,
                 size \in 1 .. MaxLength : Read(r, h, off, size)
           \/ Others \/ Crash \/ UNCHANGED vars
  BY <1>1, <1>2, <1>7
     DEF Read, Others, Upload, UnlinkFile, UnlinkChunks, Truncate, Crash, vars
<1> QED BY <1>5, <1>6, <1>7 DEF Next

-----------------------------------------------------------------------------
(* The refinement mapping *)

\* What a read returns is what the abstract file answers with.
LEMMA SameBytes ==
  ASSUME NEW d, NEW off, NEW size
  PROVE  Slice(d, off, size) = Atomic!Bytes(VersionOf(d), off, size)
BY DEF Slice, Smaller, Atomic!Bytes, VersionOf

LEMMA VisibleType ==
  ASSUME TypeOK
  PROVE  /\ Visible \in Seq([v: Nat, len: Nat]) /\ Len(Visible) = Len(docs)
         /\ \A i \in 1 .. Len(docs) : Visible[i] = VersionOf(docs[i])
<1>1. Len(docs) \in Nat /\ \A i \in 1 .. Len(docs) : docs[i] \in Doc
  BY LenProperties, ElementOfSeq DEF TypeOK
<1>2. \A i \in 1 .. Len(docs) : VersionOf(docs[i]) \in [v: Nat, len: Nat]
  BY <1>1 DEF Doc, VersionOf
<1>3. Visible \in Seq([v: Nat, len: Nat])
  BY <1>1, <1>2, SlotSeq DEF Visible
<1> QED BY <1>1, <1>3, LenProperties DEF Visible

\* What a handle binds when it loads the newest document.
LEMMA Newest ==
  ASSUME TypeOK
  PROVE  VersionOf(FindFile) = IF Visible = <<>> THEN Atomic!Nothing
                               ELSE Visible[Len(Visible)]
<1>1. CASE docs = <<>>
  <2>1. Visible = <<>>
    BY <1>1, VisibleType, EmptySeq
  <2> QED BY <1>1, <2>1 DEF FindFile, Absent, VersionOf, Atomic!Nothing
<1>2. CASE docs # <<>>
  <2>1. Len(docs) \in 1 .. Len(docs)
    BY <1>2, EmptySeq, LenProperties DEF TypeOK
  <2>2. Visible # <<>>
    BY <2>1, VisibleType, EmptySeq
  <2> QED BY <1>2, <2>1, <2>2, VisibleType DEF FindFile
<1> QED BY <1>1, <1>2

\* The document of a handle that is closed, loaded, loading, or none of them.
Loading(h) == {r \in Reader : reader[r].pc = "reset" /\ reader[r].h = h}

LEMMA DocumentOf ==
  ASSUME TypeOK, LoadsAlone, NEW h \in Handle
  PROVE  /\ file[h] = None => Document(h) = None
         /\ file[h] # None /\ file[h].theGridFile # None =>
              Document(h) = file[h].theGridFile
         /\ file[h] # None /\ Loading(h) = {} => Document(h) = file[h].theGridFile
         /\ \A r \in Loading(h) : /\ file[h] # None /\ file[h].theGridFile = None
                                  /\ Document(h) = reader[r].found
<1>1. ASSUME NEW r \in Loading(h)
      PROVE  /\ file[h] # None /\ file[h].theGridFile = None
             /\ Document(h) = reader[r].found
  <2>1. file[h] # None /\ file[h].theGridFile = None /\ Loading(h) = {r}
    BY DEF Loading, LoadsAlone, TypeOK, ReaderOK
  <2>2. (CHOOSE s \in Loading(h) : TRUE) = r
    BY <2>1
  <2> QED BY <2>1, <2>2 DEF Document, Loading
<1> QED BY <1>1 DEF Document, Loading

\* A document is None or it is one.
LEMMA DocumentType ==
  ASSUME TypeOK, LoadsAlone, NEW h \in Handle
  PROVE  /\ Document(h) \in Doc \cup {None}
         /\ Document(h) # None => VersionOf(Document(h)) # None
<1>1. Document(h) \in Doc \cup {None}
  <2>1. file[h] # None => file[h].theGridFile \in Doc \cup {None}
    BY DEF TypeOK, File
  <2>2. \A r \in Loading(h) : reader[r].found \in Doc \cup {None}
    BY DEF TypeOK, Request, Loading
  <2>3. Loading(h) = {} \/ \E r \in Loading(h) : TRUE
    OBVIOUS
  <2> QED BY <2>1, <2>2, <2>3, DocumentOf
<1>2. \A d \in Doc : VersionOf(d) # None
  BY ConstantsAssumption DEF Doc, VersionOf
<1> QED BY <1>1, <1>2

\* How the abstract state follows from the documents of the handles.
Unmoved(h) == Document(h)' = Document(h)
Binding(d) == IF d = None THEN None ELSE VersionOf(d)

LEMMA BoundMoves ==
  ASSUME NEW h \in Handle, NEW d, Document(h)' = d,
         \A g \in Handle \ {h} : Unmoved(g)
  PROVE  Bound' = [Bound EXCEPT ![h] = Binding(d)]
BY DEF Bound, Binding, Unmoved

LEMMA BoundStays ==
  ASSUME \A g \in Handle : Unmoved(g)
  PROVE  Bound' = Bound
BY DEF Bound, Unmoved

LEMMA AnswersMove ==
  ASSUME NEW r \in Reader, \A s \in Reader \ {r} : reader'[s] = reader[s]
  PROVE  Answers' = [Answers EXCEPT ![r] = AnswerOf(reader'[r])]
BY DEF Answers

LEMMA AnswersStay ==
  ASSUME \A s \in Reader : AnswerOf(reader'[s]) = AnswerOf(reader[s])
  PROVE  Answers' = Answers
BY DEF Answers

\* A handle keeps its document in a step of another handle, and in a step of a read
\* that neither loads it nor stops loading it.
LEMMA HandlerUnmoved ==
  ASSUME NEW g \in Handle, reader' = reader, file'[g] = file[g]
  PROVE  Unmoved(g)
BY DEF Unmoved, Document

LEMMA LoadingUnmoved ==
  ASSUME NEW g \in Handle, (file'[g] = None) = (file[g] = None),
         file[g] # None => file'[g].theGridFile = file[g].theGridFile,
         \A s \in Reader : \/ reader'[s] = reader[s]
                          \/ s \notin Loading(g) \cup Loading(g)'
  PROVE  Unmoved(g)
<1> DEFINE L == {s \in Reader : reader'[s].pc = "reset" /\ reader'[s].h = g}
<1>1. L = Loading(g)
  BY DEF Loading
<1>2. Loading(g) # {} => (CHOOSE s \in Loading(g) : TRUE) \in Loading(g)
  OBVIOUS
<1>3. Loading(g) # {} =>
        reader'[CHOOSE s \in Loading(g) : TRUE] = reader[CHOOSE s \in Loading(g) : TRUE]
  BY <1>2 DEF Loading
<1>4. Document(g) = IF file[g] = None THEN None
                    ELSE IF file[g].theGridFile # None \/ Loading(g) = {}
                    THEN file[g].theGridFile
                    ELSE reader[CHOOSE s \in Loading(g) : TRUE].found
  BY DEF Document, Loading
<1>5. Document(g)' = IF file'[g] = None THEN None
                     ELSE IF file'[g].theGridFile # None \/ L = {}
                     THEN file'[g].theGridFile
                     ELSE reader'[CHOOSE s \in L : TRUE].found
  BY DEF Document
<1> HIDE DEF L
<1> QED BY <1>1, <1>3, <1>4, <1>5 DEF Unmoved

LEMMA ServedUnmoved ==
  ASSUME TypeOK, NEW r \in Reader, Served(r), NEW g \in Handle,
         \/ g # reader[r].h
         \/ /\ reader[r].pc # "reset" /\ reader'[r].pc # "reset"
            /\ file'[g].theGridFile = file[g].theGridFile
  PROVE  Unmoved(g)
<1>1. /\ \A s \in Reader \ {r} : reader'[s] = reader[s]
      /\ g # reader[r].h => file'[g] = file[g]
      /\ g = reader[r].h => file[g] # None /\ file'[g] # None
      /\ reader'[r].h = reader[r].h
  BY DEF Served, TypeOK
<1>2. r \notin Loading(g) /\ r \notin Loading(g)'
  BY <1>1 DEF Loading
<1> QED BY <1>1, <1>2, LoadingUnmoved

-----------------------------------------------------------------------------
(* The steps of the abstract file *)

Refines == [Atomic!Next]_(Atomic!vars)

SameStore == UNCHANGED <<docs, removed>>

LEMMA StoreStays ==
  ASSUME SameStore
  PROVE  Visible' = Visible /\ Used' = Used
BY DEF SameStore, Visible, Used

LEMMA Stutters ==
  ASSUME SameStore, \A g \in Handle : Unmoved(g),
         \A s \in Reader : AnswerOf(reader'[s]) = AnswerOf(reader[s])
  PROVE  Refines
BY StoreStays, BoundStays, AnswersStay DEF Refines, Atomic!vars

LEMMA Binds ==
  ASSUME TypeOK, SameStore, NEW h \in Handle,
         Document(h) = None, Document(h)' = FindFile,
         \A g \in Handle \ {h} : Unmoved(g),
         \A s \in Reader : AnswerOf(reader'[s]) = AnswerOf(reader[s])
  PROVE  Refines
<1>1. FindFile # None
  BY FindFileType, ConstantsAssumption DEF TypeOK
<1>2. Bound' = [Bound EXCEPT ![h] = Binding(FindFile)]
  BY BoundMoves
<1>3. Bound[h] = None
  BY DEF Bound
<1>4. Binding(FindFile) = IF Visible = <<>> THEN Atomic!Nothing ELSE Visible[Len(Visible)]
  BY <1>1, Newest DEF Binding
<1>5. Atomic!Bind(h)
  BY <1>2, <1>3, <1>4, StoreStays, AnswersStay DEF Atomic!Bind
<1> QED BY <1>5 DEF Refines, Atomic!Next

LEMMA Unbinds ==
  ASSUME SameStore, NEW h \in Handle, Document(h)' = None,
         \A g \in Handle \ {h} : Unmoved(g),
         \A s \in Reader : AnswerOf(reader'[s]) = AnswerOf(reader[s])
  PROVE  Refines
<1>1. Bound' = [Bound EXCEPT ![h] = None]
  BY BoundMoves DEF Binding
<1>2. Atomic!Unbind(h)
  BY <1>1, StoreStays, AnswersStay DEF Atomic!Unbind
<1> QED BY <1>2 DEF Refines, Atomic!Next

LEMMA Restarts ==
  ASSUME SameStore, Die
  PROVE  Refines
<1>1. Bound' = [h \in Handle |-> None]
  BY DEF Die, Bound, Document
<1>2. Answers' = [r \in Reader |-> None]
  BY DEF Die, Answers, AnswerOf, NoRead
<1>3. Atomic!Restart
  BY <1>1, <1>2, StoreStays DEF Atomic!Restart
<1> QED BY <1>3 DEF Refines, Atomic!Next

LEMMA Publishes ==
  ASSUME TypeOK, NEW d \in Doc, d.v \in 1 .. MaxVersions, d.len <= MaxLength,
         d.v \notin removed, \A i \in 1 .. Len(docs) : docs[i].v # d.v,
         docs' = Append(docs, d), removed' = removed, Answers' = Answers,
         Bound' = Bound \/ \E h \in Handle : Bound' = [Bound EXCEPT ![h] = None]
  PROVE  Refines
<1> DEFINE ver == VersionOf(d)
           n == Len(docs)
<1>1. /\ ver \in [v: 1 .. MaxVersions, len: 0 .. MaxLength] /\ ver.v = d.v
      /\ ver \in [v: Nat, len: Nat]
  BY ConstantsAssumption DEF VersionOf, Doc
<1>2. /\ n \in Nat /\ Len(docs') = n + 1 /\ docs'[n + 1] = d
      /\ \A i \in 1 .. n : docs'[i] = docs[i]
      /\ docs' \in Seq(Doc)
  BY AppendProperties, LenProperties DEF TypeOK
<1>3. Visible' = [i \in 1 .. n + 1 |-> VersionOf(docs'[i])]
  BY <1>2 DEF Visible
<1>4. Visible' = Append(Visible, ver)
  <2> DEFINE a == Visible'
             b == Append(Visible, ver)
  <2>1. Visible \in Seq([v: Nat, len: Nat]) /\ Len(Visible) = n
        /\ \A i \in 1 .. n : Visible[i] = VersionOf(docs[i])
    BY VisibleType
  <2>2. /\ b \in Seq([v: Nat, len: Nat]) /\ Len(b) = n + 1 /\ b[n + 1] = ver
        /\ \A i \in 1 .. n : b[i] = Visible[i]
    BY <1>1, <2>1, AppendProperties
  <2>3. \A i \in 1 .. n + 1 : VersionOf(docs'[i]) \in [v: Nat, len: Nat]
    <3>1. \A i \in 1 .. n + 1 : docs'[i] \in Doc
      BY <1>2, ElementOfSeq
    <3> QED BY <3>1 DEF Doc, VersionOf
  <2>4. a \in Seq([v: Nat, len: Nat])
    BY <1>2, <1>3, <2>3, SlotSeq
  <2>5. Len(a) = n + 1
    BY <1>2, <1>3, <2>4, LenProperties
  <2>6. ASSUME NEW i \in 1 .. n + 1 PROVE a[i] = b[i]
    <3>1. a[i] = VersionOf(docs'[i])
      BY <1>3
    <3>2. CASE i = n + 1
      BY <1>2, <2>2, <3>1, <3>2
    <3>3. CASE i # n + 1
      <4>1. i \in 1 .. n
        BY <1>2, <3>3
      <4> QED BY <1>2, <2>1, <2>2, <3>1, <4>1
    <3> QED BY <3>2, <3>3
  <2> HIDE DEF a, b
  <2>7. a = b
    <3>1. Len(a) = Len(b) /\ \A i \in 1 .. Len(a) : a[i] = b[i]
      BY <2>2, <2>5, <2>6
    <3> QED BY <2>2, <2>4, <3>1, SeqEqual
  <2> QED BY <2>7 DEF a, b
<1>5. Used' = Used \cup {ver.v} /\ ver.v \notin Used
  BY <1>1, <1>2 DEF Used
<1>6. Atomic!Publish(ver)
  BY <1>4, <1>5 DEF Atomic!Publish
<1> QED BY <1>1, <1>6 DEF Refines, Atomic!Next

-----------------------------------------------------------------------------
(* Steps of the handlers *)

RInv == IInv /\ RequestInv /\ LoadedOnce

Calm == RInv /\ LoadsAlone /\ RInv' /\ LoadsAlone' /\ ReadIsExact'

\* A handle that no reader uses has the document of its File.
LEMMA UnusedHandle ==
  ASSUME TypeOK, LoadsAlone, NEW h \in Handle, file[h] = None \/ Unused(h)
  PROVE  Loading(h) = {}
BY DEF TypeOK, ReaderOK, Unused, Loading

LEMMA OpenRefines ==
  ASSUME Calm, NEW h \in Handle, Open(h)
  PROVE  Refines
<1> DEFINE d == IF Debug THEN FindFile ELSE None
<1>1. /\ SameStore /\ reader' = reader /\ file[h] = None
      /\ file' = [file EXCEPT ![h] = NewFile(d)] /\ TypeOK
  BY DEF Open, SameStore, Calm, RInv, IInv
<1>2. d \in Doc \cup {None}
  BY <1>1, FindFileType DEF TypeOK
<1> HIDE DEF d
<1>3. /\ file'[h] = NewFile(d) /\ NewFile(d).theGridFile = d
      /\ \A g \in Handle \ {h} : file'[g] = file[g]
      /\ file'[h] # None
  BY <1>1, <1>2, NewFileType, FileIsThere DEF NewFile, TypeOK
<1>4. Loading(h) = {} /\ Loading(h)' = {}
  BY <1>1, UnusedHandle DEF Calm, Loading
<1>5. Document(h) = None /\ Document(h)' = d
  BY <1>1, <1>3, <1>4 DEF Document, Loading
<1>6. \A g \in Handle \ {h} : Unmoved(g)
  BY <1>1, <1>3, HandlerUnmoved
<1>7. CASE Debug
  BY <1>1, <1>5, <1>6, <1>7, Binds DEF d
<1>8. CASE ~Debug
  BY <1>1, <1>5, <1>6, <1>8, Stutters DEF d, Unmoved
<1> QED BY <1>7, <1>8

\* The handle of a create() is bound to nothing while the empty file is stored.
LEMMA CreateRefines ==
  ASSUME Calm, NEW h \in Handle, Create(h)
  PROVE  Refines
<1>1. /\ SameStore /\ reader' = reader /\ file[h] = None /\ TypeOK
      /\ file'[h] = Creating /\ \A g \in Handle \ {h} : file'[g] = file[g]
  BY DEF Create, Creating, SameStore, Calm, RInv, IInv, TypeOK
<1>2. Creating # None /\ Creating.theGridFile = None
  BY <1>1, CreatingType DEF TypeOK
<1>3. Loading(h) = {} /\ Loading(h)' = {}
  BY <1>1, UnusedHandle DEF Calm, Loading
<1>4. Unmoved(h)
  BY <1>1, <1>2, <1>3 DEF Unmoved, Document, Loading
<1> QED BY <1>1, <1>4, HandlerUnmoved, Stutters

LEMMA WriteRefines ==
  ASSUME Calm, NEW h \in Handle, Written(h)
  PROVE  Refines
<1>1. /\ SameStore /\ reader' = reader /\ file[h] # None /\ file'[h] # None
      /\ file'[h].theGridFile = file[h].theGridFile
      /\ \A g \in Handle \ {h} : file'[g] = file[g]
  BY DEF Written, SameStore, Calm, RInv, IInv, TypeOK
<1>2. Unmoved(h)
  BY <1>1 DEF Unmoved, Document
<1> QED BY <1>1, <1>2, HandlerUnmoved, Stutters

\* The object is deleted: its readers are gone.
LEMMA Deleted ==
  ASSUME Calm, NEW h \in Handle, file' = [file EXCEPT ![h] = None], reader' = reader
  PROVE  /\ Document(h)' = None
         /\ \A g \in Handle \ {h} : Unmoved(g)
<1>1. file'[h] = None /\ \A g \in Handle \ {h} : file'[g] = file[g]
  BY DEF Calm, RInv, IInv, TypeOK
<1> QED BY <1>1, HandlerUnmoved DEF Document

LEMMA ReleaseRefines ==
  ASSUME Calm, NEW h \in Handle, Release(h) \/ StoreThrows(h)
  PROVE  Refines
BY Deleted, Unbinds DEF Release, StoreThrows, SameStore

LEMMA StoreFileRefines ==
  ASSUME Calm, NEW h \in Handle, StoreFile(h)
  PROVE  Refines
<1> DEFINE f == file[h]
           d == [v |-> f.stored.v, len |-> f.theWritten, cs |-> DriverChunk]
<1>1. /\ f # None /\ f.stored # None /\ f \in File /\ TypeOK /\ StoreInv(h) /\ DocsInv
      /\ docs' = Append(docs, d) /\ removed' = removed /\ reader' = reader
      /\ file' \in {[file EXCEPT ![h] = None], [file EXCEPT ![h] = NewFile(None)]}
  BY DEF StoreFile, Storing, Calm, RInv, IInv, VersionInv, TypeOK
<1>2. /\ f.stored.v \in 1 .. MaxVersions /\ f.stored.v \notin removed
      /\ f.theWritten \in Nat /\ f.theWritten <= MaxLength
      /\ \A i \in 1 .. Len(docs) : docs[i].v # f.stored.v
  BY <1>1, ConstantsAssumption DEF StoreInv, DocsInv, TypeOK, File
<1>3. /\ d \in Doc /\ d.v = f.stored.v /\ d.len = f.theWritten
  BY <1>2, ConstantsAssumption DEF Doc
<1> HIDE DEF d, f
<1>4. Bound' = [Bound EXCEPT ![h] = None] /\ Answers' = Answers
  <2>1. /\ file'[h] \in {None, NewFile(None)} /\ NewFile(None).theGridFile = None
        /\ \A g \in Handle \ {h} : file'[g] = file[g]
    BY <1>1 DEF TypeOK, NewFile
  <2>2. Loading(h)' = {}
    BY <1>1 DEF TypeOK, ReaderOK, Loading, f
  <2>3. Document(h)' = None
    BY <2>1, <2>2 DEF Document, Loading
  <2>4. \A g \in Handle \ {h} : Unmoved(g)
    BY <1>1, <2>1, HandlerUnmoved
  <2> QED BY <1>1, <2>3, <2>4, BoundMoves, AnswersStay DEF Binding
<1> QED BY <1>1, <1>2, <1>3, <1>4, Publishes

\* The content type is asked of the document: it is loaded if it was not.
LEMMA ReleaseChangedRefines ==
  ASSUME Calm, NEW h \in Handle, ReleaseChanged(h)
  PROVE  Refines
<1> DEFINE f == file[h]
           d == IF f.theGridFile = None THEN FindFile ELSE f.theGridFile
<1>1. /\ f # None /\ f \in File /\ TypeOK /\ SameStore /\ reader' = reader
      /\ Loading(h) = {} /\ Loading(h)' = {}
      /\ d = IF f.theGridFile = None THEN FindFile ELSE f.theGridFile
  BY UnusedHandle DEF ReleaseChanged, SameStore, Calm, RInv, IInv, TypeOK, Loading
<1>2. /\ file'[h].theGridFile = d
      /\ \A g \in Handle \ {h} : file'[g] = file[g]
  BY <1>1 DEF ReleaseChanged, TypeOK, File
<1> HIDE DEF d
<1>3. file'[h] # None
  <2> DEFINE t == [v |-> uploads + 1, n |-> 0]
             x == [f EXCEPT !.stored = t, !.theGridFile = d]
  <2>1. t \in [v: Nat, n: Nat] /\ d \in Doc \cup {None}
    BY <1>1, FindFileType DEF TypeOK, File
  <2>2. file' = [file EXCEPT ![h] = x]
    BY <1>1 DEF ReleaseChanged, TypeOK
  <2> HIDE DEF t, f
  <2>3. x \in File
    BY <1>1, <2>1, FileStoring
  <2> HIDE DEF x
  <2> QED BY <1>1, <2>2, <2>3, FileIsThere DEF TypeOK
<1>4. Document(h) = f.theGridFile /\ Document(h)' = d
  BY <1>1, <1>2, <1>3 DEF Document, Loading
<1>5. \A g \in Handle \ {h} : Unmoved(g)
  BY <1>1, <1>2, HandlerUnmoved
<1>6. CASE f.theGridFile = None
  BY <1>1, <1>4, <1>5, <1>6, Binds
<1>7. CASE f.theGridFile # None
  BY <1>1, <1>4, <1>5, <1>7, Stutters DEF Unmoved
<1> QED BY <1>6, <1>7

LEMMA StoreChunkRefines ==
  ASSUME Calm, NEW h \in Handle, StoreChunk(h)
  PROVE  Refines
<1> DEFINE f == file[h]
           x == [f EXCEPT !.stored.n = f.stored.n + 1]
<1>1. /\ f # None /\ f.stored # None /\ f \in File /\ TypeOK
      /\ SameStore /\ reader' = reader /\ file' = [file EXCEPT ![h] = x]
  BY DEF StoreChunk, Storing, SameStore, Calm, RInv, IInv, TypeOK
<1> HIDE DEF f
<1>2. x \in File /\ x.theGridFile = f.theGridFile
  BY <1>1 DEF File
<1> HIDE DEF x
<1>3. file'[h] = x /\ x # None /\ \A g \in Handle \ {h} : file'[g] = file[g]
  BY <1>1, <1>2, FileIsThere DEF TypeOK
<1>4. Unmoved(h)
  BY <1>1, <1>2, <1>3 DEF Unmoved, Document, f
<1> QED BY <1>1, <1>3, <1>4, HandlerUnmoved, Stutters

LEMMA HandlerRefines ==
  ASSUME Calm, NEW h \in Handle, HandlerStep(h)
  PROVE  Refines
<1>1. CASE \/ OpenAborts(h) \/ StoreLost(h)
           \/ \E size \in 1 .. MaxLength : WriteLost(h, size)
  BY <1>1, Restarts DEF OpenAborts, StoreLost, WriteLost, SameStore
<1>2. CASE \/ \E off \in 0 .. MaxLength : WriteElsewhere(h, off)
           \/ \E size \in 1 .. MaxLength : Write(h, size) \/ WriteFails(h, size)
  BY <1>2, WriteEffect, WriteRefines DEF Calm, RInv, IInv
<1> QED BY <1>1, <1>2, OpenRefines, CreateRefines, ReleaseRefines, StoreFileRefines,
           ReleaseChangedRefines, StoreChunkRefines DEF HandlerStep

-----------------------------------------------------------------------------
(* Steps of the readers *)

LEMMA ReadRefines ==
  ASSUME Calm, NEW r \in Reader, NEW h \in Handle, NEW off \in 0 .. MaxLength,
         NEW size \in 1 .. MaxLength, Read(r, h, off, size)
  PROVE  Refines
<1>1. /\ SameStore /\ file' = file /\ TypeOK
      /\ reader[r].pc = "idle" /\ reader'[r].pc = "chunksize"
      /\ \A s \in Reader \ {r} : reader'[s] = reader[s]
  BY DEF Read, SameStore, Calm, RInv, IInv, TypeOK, NoRead
<1>2. ASSUME NEW g \in Handle PROVE Unmoved(g)
  <2>1. r \notin Loading(g) /\ r \notin Loading(g)'
    BY <1>1 DEF Loading
  <2> QED BY <1>1, <2>1, LoadingUnmoved
<1>3. \A s \in Reader : AnswerOf(reader'[s]) = AnswerOf(reader[s])
  BY <1>1 DEF AnswerOf
<1> QED BY <1>1, <1>2, <1>3, Stutters

\* A step of a read that is not the last leaves the abstract state as it is.
LEMMA GoesOn ==
  ASSUME Calm, NEW r \in Reader, Served(r),
         reader[r].pc # "done", reader'[r].pc # "done",
         Unmoved(reader[r].h)
  PROVE  Refines
<1>1. /\ SameStore /\ TypeOK
      /\ \A s \in Reader \ {r} : reader'[s] = reader[s]
  BY DEF Served, SameStore, Calm, RInv, IInv, TypeOK
<1>2. \A g \in Handle : Unmoved(g)
  BY <1>1, ServedUnmoved
<1>3. \A s \in Reader : AnswerOf(reader'[s]) = AnswerOf(reader[s])
  BY <1>1 DEF AnswerOf
<1> QED BY <1>1, <1>2, <1>3, Stutters

LEMMA GridfileRefines ==
  ASSUME Calm, NEW r \in Reader, Gridfile(r)
  PROVE  Refines
<1> DEFINE q == reader[r]
           y == reader'[r]
<1>1. /\ Served(r) /\ file' = file /\ file[q.h].theGridFile = None
      /\ q.pc \in {"chunksize", "length"} /\ q.h \in Handle /\ y.h = q.h
      /\ \/ y.pc = "reset" /\ y.found = FindFile
         \/ y.pc = "done" /\ y.result = "error"
      /\ SameStore /\ TypeOK /\ file[q.h] # None
      /\ \A s \in Reader \ {r} : reader'[s] = reader[s]
  BY GridfileEffect DEF Served, SameStore, Calm, RInv, IInv, TypeOK
<1>2. PICK h \in Handle : h = q.h
  BY <1>1
<1>3. CASE y.pc = "reset" /\ y.found = FindFile
  <2> DEFINE L == {s \in Reader : reader'[s].pc = "reset" /\ reader'[s].h = h}
  <2>1. L = {r} /\ (CHOOSE s \in L : TRUE) = r
    BY <1>1, <1>2, <1>3 DEF Calm, LoadsAlone
  <2>2. Document(h)' = FindFile
    <3>1. /\ file'[h] # None
          /\ ~(file'[h].theGridFile # None \/ L = {})
          /\ reader'[CHOOSE s \in L : TRUE].found = FindFile
      BY <1>1, <1>2, <1>3, <2>1
    <3> QED BY <3>1 DEF Document
  <2>3. Loading(h) = {}
    BY <1>1, <1>2, <1>3 DEF Loading, Calm, LoadsAlone
  <2>4. Document(h) = None
    BY <1>1, <1>2, <2>3, DocumentOf DEF Calm
  <2>5. \A g \in Handle \ {h} : Unmoved(g)
    BY <1>1, <1>2, ServedUnmoved
  <2>6. \A s \in Reader : AnswerOf(reader'[s]) = AnswerOf(reader[s])
    BY <1>1, <1>3 DEF AnswerOf
  <2> QED BY <1>1, <2>2, <2>4, <2>5, <2>6, Binds
<1>4. CASE y.pc = "done" /\ y.result = "error"
  <2>1. \A g \in Handle : Unmoved(g)
    BY <1>1, <1>4, ServedUnmoved
  <2>2. Answers' = [Answers EXCEPT ![r] = [h |-> None]] /\ Answers[r] = None
    BY <1>1, <1>4, AnswersMove DEF AnswerOf, Answers
  <2>3. Atomic!Refuse(r)
    BY <1>1, <2>1, <2>2, StoreStays, BoundStays DEF Atomic!Refuse
  <2> QED BY <2>3 DEF Refines, Atomic!Next
<1> QED BY <1>1, <1>3, <1>4

LEMMA ResetRefines ==
  ASSUME Calm, NEW r \in Reader, Reset(r)
  PROVE  Refines
<1> DEFINE q == reader[r]
           y == reader'[r]
<1>1. /\ Served(r) /\ file'[q.h].theGridFile = q.found /\ file'[q.h] # None
      /\ q.pc = "reset" /\ y.pc = "chunksize" /\ TypeOK
  BY ResetEffect DEF Served, Calm, RInv, IInv
<1>2. q.h \in Handle /\ q.found # None
  BY <1>1 DEF TypeOK, ReaderOK
<1>3. PICK h \in Handle : h = q.h
  BY <1>2
<1>4. Document(h) = q.found
  BY <1>1, <1>3, DocumentOf DEF Calm, Loading
<1>5. Document(h)' = q.found
  BY <1>1, <1>2, <1>3 DEF Document
<1>6. Unmoved(q.h)
  <2>1. Unmoved(h)
    BY <1>4, <1>5 DEF Unmoved
  <2> QED BY <1>3, <2>1
<1> QED BY <1>1, <1>6, GoesOn

\* The request is answered: with the bytes of its version, if at all.
LEMMA Fails ==
  ASSUME Calm, NEW r \in Reader, FetchThrows(r)
  PROVE  Refines
<1>1. /\ Served(r) /\ SameDocument(file'[reader[r].h], file[reader[r].h])
      /\ reader[r].pc = "fetch" /\ reader'[r].pc = "done" /\ reader'[r].result # "ok"
      /\ SameStore /\ TypeOK
      /\ \A s \in Reader \ {r} : reader'[s] = reader[s]
  BY FetchThrowsEffect DEF Served, SameStore, Calm, RInv, IInv, TypeOK
<1>2. \A g \in Handle : Unmoved(g)
  BY <1>1, ServedUnmoved DEF SameDocument
<1>3. Answers' = [Answers EXCEPT ![r] = [h |-> None]] /\ Answers[r] = None
  BY <1>1, AnswersMove DEF AnswerOf, Answers
<1>4. Atomic!Refuse(r)
  BY <1>1, <1>2, <1>3, StoreStays, BoundStays DEF Atomic!Refuse
<1> QED BY <1>4 DEF Refines, Atomic!Next

LEMMA ReplyRefines ==
  ASSUME Calm, NEW r \in Reader, Reply(r)
  PROVE  Refines
<1>1. /\ SameStore /\ file' = file /\ TypeOK
      /\ reader[r].pc = "done" /\ reader'[r] = NoRead
      /\ \A s \in Reader \ {r} : reader'[s] = reader[s]
  BY DEF Reply, SameStore, Calm, RInv, IInv, TypeOK
<1>2. ASSUME NEW g \in Handle PROVE Unmoved(g)
  <2>1. r \notin Loading(g) /\ r \notin Loading(g)'
    BY <1>1 DEF Loading, NoRead
  <2> QED BY <1>1, <2>1, LoadingUnmoved
<1>3. Answers' = [Answers EXCEPT ![r] = None]
  BY <1>1, AnswersMove DEF AnswerOf, NoRead
<1>4. Atomic!Forget(r)
  BY <1>1, <1>2, <1>3, StoreStays, BoundStays DEF Atomic!Forget
<1> QED BY <1>4 DEF Refines, Atomic!Next

\* The last step of a read: the abstract file answers in this step, with the bytes
\* that the read has collected over all its steps.
LEMMA Succeeds ==
  ASSUME Calm, NEW r \in Reader, Served(r),
         SameDocument(file'[reader[r].h], file[reader[r].h]),
         reader[r].pc \in {"length", "copy"},
         reader'[r].pc = "done", reader'[r].result = "ok"
  PROVE  Refines
<1> DEFINE q == reader[r]
           y == reader'[r]
<1>1. /\ TypeOK /\ SameStore /\ q.h \in Handle /\ file[q.h] # None /\ file'[q.h] # None
      /\ y.h = q.h /\ y.off = q.off /\ y.size = q.size
      /\ file'[q.h].theGridFile = file[q.h].theGridFile
      /\ \A s \in Reader \ {r} : reader'[s] = reader[s]
  BY DEF Served, SameDocument, SameStore, Calm, RInv, IInv, TypeOK
<1>2. /\ q.off \in 0 .. MaxLength /\ q.size \in 1 .. MaxLength
      /\ ~file'[q.h].reloaded
  BY <1>1 DEF Calm, RInv, RequestInv, LoadedOnce
<1>3. y.out = Slice(file[q.h].theGridFile, q.off, q.size)
  BY <1>1, <1>2 DEF Calm, ReadIsExact
<1>4. file[q.h].theGridFile # None
  <2>1. ReaderInv(r)'
    BY DEF Calm, RInv, IInv, ReadInv
  <2> QED BY <1>1, <1>2, <2>1 DEF ReaderInv, Collected, Answered
<1>5. PICK h \in Handle : h = q.h
  BY <1>1
<1>6. /\ Document(h) = file[q.h].theGridFile /\ Document(h) # None
      /\ VersionOf(Document(h)) # None
  BY <1>1, <1>4, <1>5, DocumentOf, DocumentType DEF Calm
<1>7. Bound[h] = VersionOf(Document(h)) /\ Bound[h] # None
  BY <1>6 DEF Bound
<1>8. y.out = Atomic!Bytes(Bound[h], q.off, q.size)
  BY <1>3, <1>6, <1>7, SameBytes
<1>9. Answers' = [Answers EXCEPT ![r] = [h |-> h, off |-> q.off, size |-> q.size,
                                         data |-> y.out]]
  BY <1>1, <1>5, AnswersMove DEF AnswerOf
<1>10. Answers[r] = None
  BY DEF Answers, AnswerOf
<1>11. \A g \in Handle : Unmoved(g)
  BY <1>1, ServedUnmoved
<1>12. Atomic!Answer(r, h, q.off, q.size)
  BY <1>1, <1>7, <1>8, <1>9, <1>10, <1>11, StoreStays, BoundStays DEF Atomic!Answer
<1> QED BY <1>2, <1>12 DEF Refines, Atomic!Next

LEMMA ReaderRefines ==
  ASSUME Calm, NEW r \in Reader, ReaderStep(r)
  PROVE  Refines
<1> DEFINE q == reader[r]
           x == file'[q.h]
           y == reader'[r]
<1>1. TypeOK
  BY DEF Calm, RInv, IInv
<1>2. CASE DivideByZero(r) \/ ResetCrashes(r)
  BY <1>2, Restarts DEF DivideByZero, ResetCrashes, SameStore
<1>3. ASSUME Served(r), SameDocument(x, file[q.h]), q.pc # "reset", y.pc # "reset",
             q.pc # "done", y.pc # "done"
      PROVE  Refines
  <2>1. q.h \in Handle
    BY <1>3 DEF Served
  <2>2. Unmoved(q.h)
    BY <1>1, <1>3, <2>1, ServedUnmoved DEF SameDocument
  <2> QED BY <1>3, <2>2, GoesOn
<1>4. CASE ChunkSize(r) \/ Lock(r) \/ Fetch(r)
  BY <1>1, <1>3, <1>4, ChunkSizeEffect, LockEffect, FetchEffect
<1>5. CASE FileLength(r)
  BY <1>1, <1>3, <1>5, FileLengthEffect, Succeeds
<1>6. CASE Copy(r)
  BY <1>1, <1>3, <1>6, CopyEffect, Succeeds
<1> QED BY <1>2, <1>4, <1>5, <1>6, GridfileRefines, ResetRefines, Fails, ReplyRefines
        DEF ReaderStep

-----------------------------------------------------------------------------
(* Steps of others *)

LEMMA UploadRefines ==
  ASSUME Calm, NEW len \in 0 .. MaxLength, NEW cs \in ForeignChunks, Upload(len, cs)
  PROVE  Refines
<1> DEFINE d == [v |-> uploads + 1, len |-> len, cs |-> cs]
<1>1. /\ docs' = Append(docs, d) /\ removed' = removed /\ reader' = reader
      /\ file' = file /\ uploads < MaxVersions
  BY DEF Upload
<1>2. /\ TypeOK /\ DocsInv /\ uploads \in Nat /\ MaxVersions \in Nat /\ MaxLength \in Nat
  BY ConstantsAssumption DEF Calm, RInv, IInv, VersionInv, TypeOK
<1>3. /\ d \in Doc /\ d.v = uploads + 1 /\ d.len <= MaxLength
      /\ d.v \in 1 .. MaxVersions
  BY <1>1, <1>2, ConstantsAssumption DEF Doc
<1>4. /\ uploads + 1 \notin removed
      /\ \A i \in 1 .. Len(docs) : docs[i].v # uploads + 1
  BY <1>2 DEF DocsInv, Sound, Whole
<1> HIDE DEF d
<1>5. Bound' = Bound /\ Answers' = Answers
  BY <1>1, HandlerUnmoved, BoundStays, AnswersStay
<1> QED BY <1>1, <1>2, <1>3, <1>4, <1>5, Publishes

LEMMA UnlinkRefines ==
  ASSUME Calm, UnlinkFile
  PROVE  Refines
<1> DEFINE n == Len(docs)
           Ver == [v: Nat, len: Nat]
<1>1. PICK i \in 1 .. n :
        /\ docs' = SubSeq(docs, 1, i - 1) \o SubSeq(docs, i + 1, n)
        /\ removed' = removed \cup {docs[i].v}
  BY DEF UnlinkFile
<1>2. /\ reader' = reader /\ file' = file /\ TypeOK /\ TypeOK' /\ n \in Nat
      /\ docs \in Seq(Doc) /\ docs' \in Seq(Doc)
  BY LenProperties DEF UnlinkFile, Calm, RInv, IInv, TypeOK
<1> DEFINE At(j) == IF j < i THEN j ELSE j + 1
<1>3. Len(docs') = n - 1 /\ \A j \in 1 .. n - 1 : docs'[j] = docs[At(j)]
  <2> DEFINE t == SubSeq(docs, 1, i - 1) \o SubSeq(docs, i + 1, n)
  <2>1. /\ Len(t) = n - 1
        /\ \A j \in 1 .. Len(t) : t[j] = IF j < i THEN docs[j] ELSE docs[j + 1]
    BY <1>2, CutOut
  <2>2. docs' = t
    BY <1>1
  <2> HIDE DEF t
  <2> QED BY <2>1, <2>2
<1>4. /\ \A j \in 1 .. n - 1 : At(j) \in 1 .. n
      /\ \A k \in 1 .. n : k = i \/ \E j \in 1 .. n - 1 : At(j) = k
  <2>1. \A j \in 1 .. n - 1 : At(j) \in 1 .. n
    BY <1>2
  <2>2. ASSUME NEW k \in 1 .. n, k < i PROVE \E j \in 1 .. n - 1 : At(j) = k
    BY <1>2, <2>2
  <2>3. ASSUME NEW k \in 1 .. n, k > i PROVE \E j \in 1 .. n - 1 : At(j) = k
    <3>1. k - 1 \in 1 .. n - 1 /\ At(k - 1) = k
      BY <1>2, <2>3
    <3> QED BY <3>1
  <2> QED BY <1>2, <2>1, <2>2, <2>3
<1>5. Used' = Used
  <2>1. Used' = {docs'[j].v : j \in 1 .. n - 1} \cup removed \cup {docs[i].v}
    BY <1>1, <1>3 DEF Used
  <2> HIDE DEF At, n
  <2>2. \A j \in 1 .. n - 1 : \E k \in 1 .. n : docs'[j].v = docs[k].v
    BY <1>3, <1>4
  <2>3. \A k \in 1 .. n : k = i \/ \E j \in 1 .. n - 1 : docs'[j].v = docs[k].v
    BY <1>3, <1>4
  <2>4. Used = {docs[k].v : k \in 1 .. n} \cup removed
    BY DEF Used, n
  <2>5. Used' \subseteq Used
    BY <2>1, <2>2, <2>4
  <2>6. Used \subseteq Used'
    BY <2>1, <2>3, <2>4
  <2> QED BY <2>5, <2>6
<1>6. /\ Visible \in Seq(Ver) /\ Len(Visible) = n
      /\ \A j \in 1 .. n : Visible[j] = VersionOf(docs[j])
  BY <1>2, VisibleType
<1>7. /\ Visible' \in Seq(Ver) /\ Len(Visible') = n - 1
      /\ \A j \in 1 .. n - 1 : Visible'[j] = VersionOf(docs'[j])
  <2>1. Visible' = [j \in 1 .. n - 1 |-> VersionOf(docs'[j])]
    BY <1>3 DEF Visible
  <2>2. \A j \in 1 .. n - 1 : docs'[j] \in Doc
    BY <1>2, <1>3, ElementOfSeq
  <2>3. \A j \in 1 .. n - 1 : VersionOf(docs'[j]) \in Ver
    BY <2>2 DEF Doc, VersionOf
  <2>4. n - 1 \in Nat
    BY <1>2
  <2>5. Visible' \in Seq(Ver)
    BY <2>1, <2>3, <2>4, SlotSeq
  <2> QED BY <2>1, <2>4, <2>5, LenProperties
<1>8. Visible' = SubSeq(Visible, 1, i - 1) \o SubSeq(Visible, i + 1, Len(Visible))
  <2> DEFINE a == Visible'
             b == SubSeq(Visible, 1, i - 1) \o SubSeq(Visible, i + 1, Len(Visible))
  <2> HIDE DEF Ver
  <2>0. i \in 1 .. Len(Visible)
    BY <1>6
  <2>1. /\ b \in Seq(Ver) /\ Len(b) = Len(Visible) - 1
        /\ \A j \in 1 .. Len(b) : b[j] = IF j < i THEN Visible[j] ELSE Visible[j + 1]
    BY <1>6, <2>0, CutOut
  <2> HIDE DEF b
  <2>2. \A j \in 1 .. n - 1 : b[j] = Visible[At(j)]
    BY <1>6, <2>1
  <2>3. \A j \in 1 .. n - 1 : a[j] = b[j]
    <3> HIDE DEF At
    <3> QED BY <1>3, <1>4, <1>6, <1>7, <2>2
  <2> QED BY <1>6, <1>7, <2>1, <2>3, SeqEqual DEF b
<1>9. Bound' = Bound /\ Answers' = Answers
  BY <1>2, HandlerUnmoved, BoundStays, AnswersStay
<1>10. Atomic!Withdraw
  BY <1>5, <1>6, <1>8, <1>9 DEF Atomic!Withdraw
<1> QED BY <1>10 DEF Refines, Atomic!Next

LEMMA TruncateRefines ==
  ASSUME Calm, Truncate
  PROVE  Refines
<1>1. PICK i \in 1 .. Len(docs) : docs' = [docs EXCEPT ![i].len = 0]
  BY DEF Truncate
<1> DEFINE d == docs[i]
           e == [d EXCEPT !.len = 0]
           n == Len(docs)
<1>2. /\ reader' = reader /\ file' = file /\ removed' = removed /\ TypeOK
      /\ docs \in Seq(Doc) /\ d \in Doc /\ docs' = [docs EXCEPT ![i] = e]
  BY <1>1, ElementOfSeq DEF Truncate, Calm, RInv, IInv, TypeOK
<1> HIDE DEF d
<1>3. e \in Doc /\ VersionOf(e) = [VersionOf(d) EXCEPT !.len = 0] /\ e.v = d.v
  <2>1. e \in Doc /\ e.v = d.v /\ e.len = 0
    BY <1>2 DEF Doc
  <2>2. VersionOf(d) = [v |-> d.v, len |-> d.len] /\ VersionOf(e) = [v |-> d.v, len |-> 0]
    BY <2>1 DEF VersionOf
  <2> QED BY <2>1, <2>2
<1> HIDE DEF e
<1>4. /\ Len(docs') = n
      /\ \A j \in 1 .. n : docs'[j] = IF j = i THEN e ELSE docs[j]
  BY <1>2, <1>3, ExceptSeq
<1>5. Visible' = [Visible EXCEPT ![i].len = 0]
  <2>1. \A j \in 1 .. n : VersionOf(docs'[j]) =
          IF j = i THEN [VersionOf(docs[i]) EXCEPT !.len = 0] ELSE VersionOf(docs[j])
    BY <1>3, <1>4 DEF d
  <2>2. Visible' = [j \in 1 .. n |-> VersionOf(docs'[j])]
    BY <1>4 DEF Visible
  <2>3. Visible = [j \in 1 .. n |-> VersionOf(docs[j])]
    BY DEF Visible
  <2> QED BY <2>1, <2>2, <2>3
<1>6. Used' = Used
  <2>1. \A j \in 1 .. n : docs'[j].v = docs[j].v
    BY <1>3, <1>4 DEF d
  <2> QED BY <1>2, <1>4, <2>1 DEF Used
<1>7. Bound' = Bound /\ Answers' = Answers
  BY <1>2, HandlerUnmoved, BoundStays, AnswersStay
<1>8. Len(Visible) = n
  BY <1>2, VisibleType
<1>9. Atomic!Shorten
  BY <1>5, <1>6, <1>7, <1>8 DEF Atomic!Shorten
<1> QED BY <1>9 DEF Refines, Atomic!Next

LEMMA StepRefines ==
  ASSUME Calm, [Next]_vars
  PROVE  Refines
<1>1. CASE UNCHANGED vars \/ UnlinkChunks
  <2>1. SameStore /\ reader' = reader /\ file' = file
    BY <1>1 DEF vars, UnlinkChunks, SameStore
  <2> QED BY <2>1, HandlerUnmoved, Stutters
<1>2. CASE Others
  BY <1>1, <1>2, UploadRefines, UnlinkRefines, TruncateRefines DEF Others
<1>3. CASE Crash
  BY <1>3, Restarts DEF Crash, SameStore
<1> QED BY <1>1, <1>2, <1>3, HandlerRefines, ReaderRefines, ReadRefines DEF Next

-----------------------------------------------------------------------------
(* The theorems *)

LEMMA InitRefines ==
  ASSUME Init
  PROVE  Atomic!Init
<1>1. Visible = <<>> /\ Used = {}
  <2>1. 1 .. Len(docs) = {}
    BY EmptySeq DEF Init
  <2>2. Visible = <<>>
    BY DEF Init, Visible
  <2> QED BY <2>1, <2>2 DEF Used, Init
<1>2. Bound = [h \in Handle |-> None] /\ Answers = [r \in Reader |-> None]
  BY DEF Init, Bound, Document, Answers, AnswerOf, NoRead
<1> QED BY <1>1, <1>2 DEF Atomic!Init

\* An open file implements the abstract one: versions appear whole and once, a handle
\* is bound to one of them, and a read that takes several chunks under several
\* acquisitions of mutex_read is one atomic look at that version (File::read,
\* File::store, gridfile()); as long as handles read the chunk size they write, and
\* no two first reads of a handle load its document at once.
THEOREM Implements ==
  ASSUME OneChunkSize
  PROVE  Spec /\ []LoadsAlone => ImplementsAtomicFile
<1>1. Spec => []ReadIsExact
  BY ReadsAreExact
<1>2. Init => Atomic!Init /\ RequestInv /\ LoadedOnce
  BY InitRefines DEF Init, RequestInv, LoadedOnce, NoRead
<1>3. IInv /\ RequestInv /\ LoadedOnce /\ LoadsAlone /\ [Next]_vars
        => RequestInv' /\ LoadedOnce'
  BY RequestStep, LoadedOnceStep DEF IInv
<1>4. Calm /\ [Next]_vars => [Atomic!Next]_(Atomic!vars)
  BY StepRefines DEF Refines
<1> QED BY <1>1, <1>2, <1>3, <1>4, Invariance, PTL
        DEF Spec, ImplementsAtomicFile, Atomic!Spec, Calm, RInv

-----------------------------------------------------------------------------
(* When a document is loaded by one reader only *)

\* Requests are served one at a time (fuse -s), or open() loads the document, in
\* its assertion, and no handle comes from create().
OneLoad == (\A r, s \in Reader : r = s) \/ (Debug /\ "create" \notin Ops)

\* A File that is being stored without changes is one of create().
AllLoaded ==
  \A h \in Handle : file[h] # None =>
    /\ file[h].theGridFile # None
    /\ file[h].stored # None => file[h].theHasChanges

LoadInv == LoadsAlone /\ (Debug /\ "create" \notin Ops => AllLoaded)

LEMMA StillAlone ==
  ASSUME LoadsAlone,
         \A r \in Reader : reader'[r].pc = "reset" =>
           /\ reader[r].pc = "reset" /\ reader'[r].h = reader[r].h
           /\ file'[reader[r].h].theGridFile = None
  PROVE  LoadsAlone'
BY DEF LoadsAlone

LEMMA LoadHandler ==
  ASSUME TypeOK, LoadInv, NEW h \in Handle, HandlerStep(h)
  PROVE  LoadInv'
<1>1. CASE \/ OpenAborts(h) \/ StoreLost(h)
           \/ \E size \in 1 .. MaxLength : WriteLost(h, size)
  BY <1>1 DEF OpenAborts, StoreLost, WriteLost, Die, NoRead, LoadInv, LoadsAlone, AllLoaded
<1>2. CASE Written(h)
  <2>1. /\ reader' = reader /\ file'[h].theGridFile = file[h].theGridFile
        /\ file'[h].stored = None /\ file[h] # None /\ \A g \in Handle \ {h} : file'[g] = file[g]
    BY <1>2 DEF Written, TypeOK
  <2>2. \A r \in Reader : reader[r].pc = "reset" => reader[r].h \in Handle
    BY DEF TypeOK, ReaderOK
  <2>3. LoadsAlone'
    BY <2>1, <2>2, StillAlone DEF LoadInv, LoadsAlone
  <2> QED BY <2>1, <2>3 DEF LoadInv, AllLoaded
<1>3. CASE ~(\/ OpenAborts(h) \/ StoreLost(h) \/ Written(h)
             \/ \E size \in 1 .. MaxLength : WriteLost(h, size))
  <2>1. \/ Open(h) \/ Create(h) \/ Release(h) \/ ReleaseChanged(h)
        \/ StoreChunk(h) \/ StoreFile(h) \/ StoreThrows(h)
    BY <1>3, WriteEffect DEF HandlerStep
  <2>2. /\ reader' = reader /\ \A g \in Handle \ {h} : file'[g] = file[g]
        /\ file[h] = None \/ file[h].stored # None \/ Unused(h)
    BY <2>1 DEF Open, Create, Release, ReleaseChanged, StoreChunk, StoreFile,
                StoreThrows, Storing, TypeOK
  <2>3. \A r \in Reader : reader[r].pc = "reset" =>
          reader[r].h \in Handle /\ reader[r].h # h
    BY <2>2 DEF TypeOK, ReaderOK, Unused
  <2>4. LoadsAlone'
    BY <2>2, <2>3, StillAlone DEF LoadInv, LoadsAlone
  <2>5. ASSUME Debug, "create" \notin Ops, AllLoaded, file'[h] # None
        PROVE  /\ file'[h].theGridFile # None
               /\ file'[h].stored # None => file'[h].theHasChanges
    <3>1. CASE Open(h)
      <4>1. file'[h].theGridFile = FindFile /\ file'[h].stored = None
        BY <2>5, <3>1 DEF Open, NewFile, TypeOK
      <4> QED BY <4>1, FindFileType, ConstantsAssumption DEF TypeOK
    <3>2. CASE ReleaseChanged(h) \/ StoreChunk(h)
      <4>1. /\ file[h] \in File /\ file[h].theGridFile # None
            /\ file[h].stored # None => file[h].theHasChanges
        BY <2>5, <3>2 DEF ReleaseChanged, StoreChunk, Storing, TypeOK, AllLoaded
      <4>2. CASE ReleaseChanged(h)
        BY <4>1, <4>2 DEF ReleaseChanged, TypeOK, File
      <4>3. CASE StoreChunk(h)
        BY <4>1, <4>3 DEF StoreChunk, Storing, TypeOK, File
      <4> QED BY <3>2, <4>2, <4>3
    <3>3. CASE Release(h) \/ StoreFile(h) \/ StoreThrows(h)
      BY <2>5, <3>3 DEF Release, StoreFile, Storing, AllLoaded, StoreThrows, TypeOK
    <3> QED BY <2>1, <2>5, <3>1, <3>2, <3>3 DEF Create
  <2> QED BY <2>2, <2>4, <2>5 DEF LoadInv, AllLoaded
<1> QED BY <1>1, <1>2, <1>3

LEMMA LoadReader ==
  ASSUME OneLoad, TypeOK, LoadInv, NEW r \in Reader, ReaderStep(r)
  PROVE  LoadInv'
<1> DEFINE q == reader[r]
           f == file[q.h]
           x == file'[q.h]
           y == reader'[r]
<1>1. CASE DivideByZero(r) \/ ResetCrashes(r)
  BY <1>1 DEF DivideByZero, ResetCrashes, Die, NoRead, LoadInv, LoadsAlone, AllLoaded
<1>2. CASE Reply(r)
  <2>1. /\ file' = file /\ y = NoRead /\ \A s \in Reader \ {r} : reader'[s] = reader[s]
    BY <1>2 DEF Reply, TypeOK
  <2>2. LoadsAlone'
    BY <2>1, StillAlone DEF LoadInv, LoadsAlone, NoRead
  <2> QED BY <2>1, <2>2 DEF LoadInv, AllLoaded
<1>3. CASE Gridfile(r)
  <2>1. /\ Served(r) /\ file' = file /\ f.theGridFile = None /\ y.h = q.h
        /\ q.h \in Handle /\ f # None
        /\ \A s \in Reader \ {r} : reader'[s] = reader[s]
    BY <1>3, GridfileEffect DEF Served, TypeOK
  <2>2. \A s \in Reader : s = r
    BY <2>1 DEF OneLoad, LoadInv, AllLoaded
  <2> QED BY <2>1, <2>2 DEF LoadInv, LoadsAlone, AllLoaded
<1>4. ASSUME Served(r), y.pc # "reset",
             SameDocument(x, f) \/ (q.pc = "reset" /\ x.theGridFile # None)
      PROVE  LoadInv'
  <2>1. /\ \A s \in Reader \ {r} : reader'[s] = reader[s]
        /\ \A g \in Handle \ {q.h} : file'[g] = file[g]
        /\ f # None /\ x.stored = None
    BY <1>4 DEF Served, TypeOK
  <2>2. \A s \in Reader : reader[s].pc = "reset" => reader[s].h \in Handle
    BY DEF TypeOK, ReaderOK
  <2>3. LoadsAlone'
    BY <1>4, <2>1, <2>2, StillAlone DEF LoadInv, LoadsAlone, SameDocument
  <2> QED BY <1>4, <2>1, <2>3 DEF LoadInv, AllLoaded, SameDocument
<1>5. CASE Reset(r)
  <2>1. /\ Served(r) /\ y.pc = "chunksize" /\ q.pc = "reset" /\ x.theGridFile = q.found
    BY <1>5, ResetEffect
  <2>2. q.found # None
    BY <2>1 DEF TypeOK, ReaderOK
  <2> QED BY <1>4, <2>1, <2>2
<1>6. CASE ChunkSize(r) \/ Lock(r) \/ Fetch(r) \/ FetchThrows(r)
  BY <1>4, <1>6, ChunkSizeEffect, LockEffect, FetchEffect, FetchThrowsEffect
<1>7. CASE FileLength(r)
  BY <1>4, <1>7, FileLengthEffect
<1>8. CASE Copy(r)
  BY <1>4, <1>8, CopyEffect
<1> QED BY <1>1, <1>2, <1>3, <1>5, <1>6, <1>7, <1>8 DEF ReaderStep

LEMMA LoadStep ==
  ASSUME OneLoad, TypeOK, LoadInv, [Next]_vars
  PROVE  LoadInv'
<1>1. CASE UNCHANGED file /\ UNCHANGED reader
  BY <1>1 DEF LoadInv, LoadsAlone, AllLoaded
<1>2. CASE Others \/ UNCHANGED vars
  BY <1>1, <1>2 DEF Others, Upload, UnlinkFile, UnlinkChunks, Truncate, vars
<1>3. CASE Crash
  BY <1>3 DEF Crash, Die, NoRead, LoadInv, LoadsAlone, AllLoaded
<1>4. ASSUME NEW r \in Reader, NEW h \in Handle, NEW off \in 0 .. MaxLength,
             NEW size \in 1 .. MaxLength, Read(r, h, off, size)
      PROVE  LoadInv'
  <2>1. /\ file' = file /\ reader'[r].pc = "chunksize"
        /\ \A s \in Reader \ {r} : reader'[s] = reader[s]
    BY <1>4 DEF Read, NoRead, TypeOK
  <2>2. LoadsAlone'
    BY <2>1, StillAlone DEF LoadInv, LoadsAlone
  <2> QED BY <2>1, <2>2 DEF LoadInv, AllLoaded
<1> QED BY <1>2, <1>3, <1>4, LoadHandler, LoadReader DEF Next

\* ... and then no behaviour has to be excluded: where requests are served one at a
\* time, or open() loads the document, an open file implements the abstract one.
THEOREM ImplementsLoadedOnce ==
  ASSUME OneChunkSize, OneLoad
  PROVE  Spec => ImplementsAtomicFile
<1>1. Init => LoadInv
  BY DEF Init, LoadInv, LoadsAlone, AllLoaded, NoRead
<1>2. IInv /\ LoadInv /\ [Next]_vars => LoadInv'
  BY LoadStep DEF IInv
<1>3. LoadInv => LoadsAlone
  BY DEF LoadInv
<1> QED BY <1>1, <1>2, <1>3, Invariance, Implements, PTL DEF Spec

=============================================================================
