--------------------------- MODULE FileHandleProofs ---------------------------
(***************************************************************************)
(* For any numbers of handles, readers, versions and bytes: the types and  *)
(* the lock discipline of FileHandle, that what can be found is complete,  *)
(* and that a read returns the bytes of the version that its handle loaded. *)
(***************************************************************************)
EXTENDS FileHandle, SequenceTheorems, WellFoundedInduction, TLAPS

-----------------------------------------------------------------------------
(* Integers and sequences *)

LEMMA DivMod ==
  ASSUME NEW p \in Nat, NEW c \in Nat \ {0}
  PROVE  /\ p \div c \in Nat /\ p % c \in 0 .. c - 1
         /\ p = (p \div c) * c + (p % c)
BY SMT

\* A function on 1 .. n is a sequence, also when n is negative.
LEMMA SlotSeq ==
  ASSUME NEW n \in Int, NEW S, NEW f(_), \A i \in 1 .. n : f(i) \in S
  PROVE  [i \in 1 .. n |-> f(i)] \in Seq(S)
<1>1. CASE n >= 0
  BY <1>1, IsASeq, SMT
<1>2. CASE n < 0
  <2>1. [i \in 1 .. n |-> f(i)] = [i \in 1 .. 0 |-> f(i)]
    BY <1>2, 1 .. n = 1 .. 0
  <2> QED BY <2>1, IsASeq
<1> QED BY <1>1, <1>2

\* The chunks of len bytes are those that begin before their end.
LEMMA InChunkCount ==
  ASSUME NEW len \in Nat, NEW cs \in Nat \ {0}, NEW n \in Nat
  PROVE  /\ ChunkCount(len, cs) \in Nat
         /\ n < ChunkCount(len, cs) <=> n * cs < len
<1> DEFINE m == ChunkCount(len, cs)
<1>0. len + cs - 1 \in Nat
  OBVIOUS
<1>1. /\ m \in Nat /\ len + cs - 1 = m * cs + ((len + cs - 1) % cs)
      /\ (len + cs - 1) % cs \in 0 .. cs - 1
  BY <1>0, DivMod DEF ChunkCount
<1> HIDE DEF m
<1>2. ASSUME n < m PROVE n * cs < len
  <2>1. n * cs + cs <= m * cs
    BY <1>1, <1>2
  <2> QED BY <1>1, <2>1
<1>3. ASSUME n * cs < len PROVE n < m
  BY <1>1, <1>3
<1> QED BY <1>1, <1>2, <1>3 DEF m

LEMMA ChunksType ==
  ASSUME NEW v \in Nat, NEW len \in Nat, NEW cs \in Nat \ {0},
         NEW n \in Nat, n < ChunkCount(len, cs)
  PROVE  ChunkOf(v, n, len, cs) \in Chunk
<1>1. n * cs < len
  BY InChunkCount
<1>2. n * cs \in Nat
  OBVIOUS
<1> QED BY <1>1, <1>2 DEF ChunkOf, Chunk, Smaller

LEMMA ChunksOfType ==
  ASSUME NEW v \in Nat, NEW len \in Nat, NEW cs \in Nat \ {0}
  PROVE  ChunksOf(v, len, cs) \subseteq Chunk
<1> SUFFICES ASSUME NEW n \in 0 .. ChunkCount(len, cs) - 1
             PROVE  ChunkOf(v, n, len, cs) \in Chunk
  BY DEF ChunksOf
<1>1. n \in Nat /\ n < ChunkCount(len, cs)
  BY InChunkCount
<1> QED BY <1>1, ChunksType

\* An entry is cut out of a sequence.
LEMMA CutOut ==
  ASSUME NEW S, NEW s \in Seq(S), NEW i \in 1 .. Len(s)
  PROVE  LET t == SubSeq(s, 1, i - 1) \o SubSeq(s, i + 1, Len(s)) IN
           /\ t \in Seq(S) /\ Len(t) = Len(s) - 1
           /\ \A j \in 1 .. Len(t) : t[j] = IF j < i THEN s[j] ELSE s[j + 1]
<1> DEFINE a == SubSeq(s, 1, i - 1)
           b == SubSeq(s, i + 1, Len(s))
<1>1. /\ Len(s) \in Nat /\ i \in Int /\ i - 1 \in Int /\ i + 1 \in Int
      /\ Len(s) \in Int
  BY LenProperties
<1>2. \A j \in 1 .. Len(s) : s[j] \in S
  BY ElementOfSeq
<1>3. a \in Seq(S) /\ Len(a) = i - 1 /\ \A j \in 1 .. i - 1 : a[j] = s[j]
  <2>1. \A j \in 1 .. i - 1 : s[j] \in S
    BY <1>1, <1>2
  <2> QED BY <1>1, <2>1, SubSeqProperties
<1>4. /\ b \in Seq(S) /\ Len(b) = Len(s) - i
      /\ \A j \in 1 .. Len(s) - i : b[j] = s[j + i]
  <2>1. \A j \in i + 1 .. Len(s) : s[j] \in S
    BY <1>1, <1>2
  <2>2. b \in Seq(S) /\ Len(b) = IF i + 1 <= Len(s) THEN Len(s) - (i + 1) + 1 ELSE 0
    BY <1>1, <2>1, SubSeqProperties
  <2>3. \A j \in 1 .. Len(s) - (i + 1) + 1 : b[j] = s[i + 1 + j - 1]
    BY <1>1, <2>1, SubSeqProperties
  <2> QED BY <1>1, <2>2, <2>3
<1> HIDE DEF a, b
<1>5. /\ a \o b \in Seq(S) /\ Len(a \o b) = Len(a) + Len(b)
      /\ \A j \in 1 .. Len(a) + Len(b) :
           (a \o b)[j] = IF j <= Len(a) THEN a[j] ELSE b[j - Len(a)]
  BY <1>3, <1>4, ConcatProperties
<1>6. /\ a \o b \in Seq(S) /\ Len(a \o b) = Len(s) - 1
      /\ \A j \in 1 .. Len(a \o b) : (a \o b)[j] = IF j < i THEN s[j] ELSE s[j + 1]
  <2>1. a \o b \in Seq(S) /\ Len(a \o b) = Len(s) - 1
    BY <1>1, <1>3, <1>4, <1>5
  <2>2. ASSUME NEW j \in 1 .. Len(s) - 1, j < i PROVE (a \o b)[j] = s[j]
    BY <1>1, <1>3, <1>4, <1>5, <2>2
  <2>3. ASSUME NEW j \in 1 .. Len(s) - 1, ~ (j < i) PROVE (a \o b)[j] = s[j + 1]
    <3>1. (a \o b)[j] = b[j - (i - 1)]
      BY <1>1, <1>3, <1>4, <1>5, <2>3
    <3>2. j - (i - 1) \in 1 .. Len(s) - i /\ (j - (i - 1)) + i = j + 1
      BY <1>1, <2>3
    <3> QED BY <1>4, <3>1, <3>2
  <2> QED BY <2>1, <2>2, <2>3
<1> QED BY <1>6 DEF a, b

-----------------------------------------------------------------------------
(* Sizes of the mapping *)

LEMMA WriteChunkType ==
  ASSUME NEW f \in File
  PROVE  WriteChunk(f) \in Nat \ {0}
BY ConstantsAssumption DEF WriteChunk, File

\* The mapping never shrinks while it grows, and it becomes large enough.
LEMMA SizesGrow ==
  ASSUME NEW f \in File, NEW need \in Nat
  PROVE  /\ \A n \in Sizes(f, need) : n \in Nat /\ n >= f.theCurrentDataSize
         /\ \E n \in Sizes(f, need) : n >= need
<1> DEFINE cs == WriteChunk(f)
           first == IF f.theCurrentDataSize = 0 THEN cs ELSE f.theCurrentDataSize
           Enough == {k \in 0 .. need : first + k * cs >= need}
<1>1. cs \in Nat \ {0}
  BY WriteChunkType
<1>2. first \in Nat \ {0} /\ first >= f.theCurrentDataSize
  BY <1>1 DEF File
<1>3. Sizes(f, need) = {n \in {first + k * cs : k \in 0 .. need} :
                           n = first \/ n - cs < need}
  BY DEF Sizes
<1> HIDE DEF cs, first
<1>4. \A k \in 0 .. need : k * cs \in Nat
  BY <1>1
<1>5. \A n \in Sizes(f, need) : n \in Nat /\ n >= f.theCurrentDataSize
  <2>1. \A n \in Sizes(f, need) : n \in Nat /\ n >= first
    BY <1>2, <1>3, <1>4
  <2>2. f.theCurrentDataSize \in Nat
    BY DEF File
  <2> QED BY <1>2, <2>1, <2>2
<1>6. need \in Enough
  <2>1. need * cs >= need
    BY <1>1
  <2> QED BY <1>1, <1>2, <2>1
<1>7. PICK k \in Enough : \A m \in Enough : ~ (m < k)
  <2> DEFINE R == {ss \in Nat \X Nat : ss[1] < ss[2]}
  <2>1. IsWellFoundedOn(R, Nat)
    BY NatLessThanWellFounded DEF OpToRel
  <2>2. Enough \subseteq Nat /\ Enough # {}
    BY <1>6
  <2> HIDE DEF R, Enough
  <2>3. PICK k \in Enough : \A m \in Enough : <<m, k>> \notin R
    BY <2>1, <2>2, WFMin
  <2>4. \A m \in Enough : ~ (m < k)
    BY <2>2, <2>3 DEF R
  <2> QED BY <2>4
<1>8. first + k * cs = first \/ first + k * cs - cs < need
  <2>1. CASE k = 0
    <3>1. k * cs = 0
      BY <1>1, <2>1
    <3> QED BY <1>2, <3>1
  <2>2. CASE k # 0
    <3>1. k - 1 \in 0 .. need /\ k - 1 < k
      BY <2>2
    <3>2. ~ (first + (k - 1) * cs >= need)
      BY <1>7, <3>1
    <3>3. (k - 1) * cs = k * cs - cs
      BY <1>1
    <3> QED BY <1>1, <1>2, <1>4, <3>2, <3>3
  <2> QED BY <2>1, <2>2
<1>9. k \in 0 .. need /\ first + k * cs >= need
  OBVIOUS
<1> HIDE DEF Enough
<1> DEFINE grown == first + k * cs
<1>10. grown \in {first + i * cs : i \in 0 .. need}
  BY <1>9
<1>11. grown \in Sizes(f, need)
  <2>1. grown = first \/ grown - cs < need
    BY <1>1, <1>2, <1>8, <1>9
  <2> HIDE DEF grown
  <2> QED BY <1>3, <1>10, <2>1
<1> QED BY <1>5, <1>9, <1>11

-----------------------------------------------------------------------------
(* Types *)

LEMMA AbsentType == Absent \in Doc
BY DEF Absent, Doc

LEMMA FindFileType ==
  ASSUME docs \in Seq(Doc)
  PROVE  FindFile \in Doc
<1>1. CASE docs = <<>>
  BY <1>1, AbsentType DEF FindFile
<1>2. CASE docs # <<>>
  BY <1>2, EmptySeq, ElementOfSeq, LenProperties DEF FindFile
<1> QED BY <1>1, <1>2

LEMMA FileIsThere == \A x \in File : x # None
BY ConstantsAssumption

LEMMA NewFileType ==
  ASSUME NEW d \in Doc \cup {None}
  PROVE  NewFile(d) \in File
BY DEF NewFile, File

LEMMA NoReadType == NoRead \in Request
BY EmptySeq DEF NoRead, Request

Scalars == /\ docs \in Seq(Doc)
           /\ chunks \subseteq Chunk
           /\ removed \subseteq Nat
           /\ uploads \in Nat
           /\ reads \in Nat
           /\ faults \in Nat

\* A step of one handle, x being its File afterwards: a reader of the handle
\* does not notice.
LEMMA HandleMoves ==
  ASSUME TypeOK, NEW h \in Handle, NEW x \in File \cup {None},
         file' = [file EXCEPT ![h] = x], reader' = reader, Scalars',
         \/ \A r \in Reader : reader[r].pc # "idle" => reader[r].h # h
         \/ /\ x # None /\ file[h] # None
            /\ x.mutex_read = file[h].mutex_read
            /\ x.theCachedChunkN = file[h].theCachedChunkN
            /\ x.stored = file[h].stored
            /\ file[h].theChunkSize \in {0, x.theChunkSize},
         x # None => /\ x.theWritten <= x.theCurrentDataSize
                     /\ x.theCachedChunkN # -1 => x.theCachedChunk # None
  PROVE  TypeOK'
<1>1. /\ file' \in [Handle -> File \cup {None}] /\ reader' \in [Reader -> Request]
      /\ \A g \in Handle : file'[g] = IF g = h THEN x ELSE file[g]
  BY DEF TypeOK
<1>2. ASSUME NEW r \in Reader PROVE ReaderOK(r)'
  <2>1. ReaderOK(r)
    BY DEF TypeOK
  <2>2. CASE reader[r].pc = "idle"
    BY <2>2 DEF ReaderOK
  <2>3. CASE reader[r].pc # "idle" /\ reader[r].h # h
    <3>1. file'[reader[r].h] = file[reader[r].h]
      BY <1>1, <2>1, <2>3 DEF ReaderOK
    <3> QED BY <2>1, <2>3, <3>1 DEF ReaderOK, ChunkN
  <2>4. CASE reader[r].pc # "idle" /\ reader[r].h = h
    BY <1>1, <2>1, <2>4 DEF ReaderOK, ChunkN
  <2> QED BY <2>2, <2>3, <2>4
<1>3. ASSUME NEW g \in Handle PROVE FileOK(g)'
  BY <1>1, <1>3 DEF TypeOK, FileOK
<1> QED BY <1>1, <1>2, <1>3 DEF TypeOK, Scalars

\* A step changes the request of r and the File of h, and no other reader of the
\* handle notices.
Moved(r, h) ==
  /\ reader' \in [Reader -> Request]
  /\ \A s \in Reader \ {r} : reader'[s] = reader[s]
  /\ file' \in [Handle -> File \cup {None}]
  /\ \A g \in Handle \ {h} : file'[g] = file[g]
  /\ file[h] # None /\ file'[h] # None
  /\ \A s \in Reader \ {r} :
       reader[s].pc \in {"fetch", "copy"} /\ reader[s].h = h =>
         /\ file'[h].mutex_read = s
         /\ file'[h].theCachedChunkN = file[h].theCachedChunkN
  /\ file[h].theChunkSize \in {0, file'[h].theChunkSize}
  /\ file'[h].stored = file[h].stored
  /\ file'[h].theWritten = file[h].theWritten
  /\ file'[h].theCurrentDataSize = file[h].theCurrentDataSize
  /\ file'[h].theCachedChunkN # -1 => file'[h].theCachedChunk # None

LEMMA ReaderMoves ==
  ASSUME TypeOK, NEW r \in Reader, NEW h \in Handle, Moved(r, h), ReaderOK(r)',
         Scalars'
  PROVE  TypeOK'
<1>1. ASSUME NEW s \in Reader, s # r PROVE ReaderOK(s)'
  <2>1. ReaderOK(s) /\ reader'[s] = reader[s]
    BY <1>1 DEF TypeOK, Moved
  <2>2. CASE reader[s].pc = "idle"
    BY <2>1, <2>2 DEF ReaderOK
  <2>3. CASE reader[s].pc # "idle" /\ reader[s].h # h
    <3>1. file'[reader[s].h] = file[reader[s].h]
      BY <2>1, <2>3 DEF ReaderOK, Moved
    <3> QED BY <2>1, <2>3, <3>1 DEF ReaderOK, ChunkN
  <2>4. CASE reader[s].pc # "idle" /\ reader[s].h = h
    BY <1>1, <2>1, <2>4 DEF ReaderOK, ChunkN, Moved
  <2> QED BY <2>2, <2>3, <2>4
<1>2. ASSUME NEW g \in Handle PROVE FileOK(g)'
  BY DEF TypeOK, FileOK, Moved
<1> QED BY <1>1, <1>2 DEF TypeOK, Scalars, Moved

LEMMA Dies ==
  ASSUME TypeOK, Die, Scalars'
  PROVE  TypeOK'
<1>1. \A r \in Reader : reader'[r] = NoRead
  BY DEF Die, TypeOK
<1>2. \A h \in Handle : file'[h] = None
  BY DEF Die
<1>3. /\ file' \in [Handle -> File \cup {None}]
      /\ reader' \in [Reader -> Request]
  BY NoReadType DEF Die
<1>4. ASSUME NEW r \in Reader PROVE ReaderOK(r)'
  BY <1>1 DEF ReaderOK, NoRead
<1>5. ASSUME NEW h \in Handle PROVE FileOK(h)'
  BY <1>2 DEF FileOK
<1> QED BY <1>3, <1>4, <1>5 DEF TypeOK, Scalars

\* A step that touches neither handles nor readers.
LEMMA Elsewhere ==
  ASSUME TypeOK, UNCHANGED <<file, reader>>, Scalars'
  PROVE  TypeOK'
<1>1. \A r \in Reader : ReaderOK(r)'
  BY DEF TypeOK, ReaderOK, ChunkN
<1>2. \A h \in Handle : FileOK(h)'
  BY DEF TypeOK, FileOK
<1> QED BY <1>1, <1>2 DEF TypeOK, Scalars

\* The File of a create() that has found nothing.
Creating ==
  [NewFile(None) EXCEPT !.stored = [v |-> uploads + 1, n |-> 0]]

LEMMA CreatingType ==
  ASSUME uploads \in Nat
  PROVE  /\ Creating \in File /\ Creating # None
         /\ Creating.theGridFile = None /\ Creating.theHasChanges = FALSE
         /\ Creating.theWritten = 0 /\ Creating.theCurrentDataSize = 0
         /\ Creating.theCachedChunkN = -1 /\ Creating.mutex_read = None
         /\ Creating.theChunkSize = 0 /\ Creating.theFileLength = 0
         /\ Creating.theData = "null" /\ Creating.reloaded = FALSE
         /\ Creating.stored = [v |-> uploads + 1, n |-> 0]
         /\ Creating.stored.v = uploads + 1 /\ Creating.stored.n = 0
         /\ Creating.stored # None
<1>1. NewFile(None) \in File
  BY NewFileType
<1>2. [v |-> uploads + 1, n |-> 0] \in [v: Nat, n: Nat]
  OBVIOUS
<1>3. Creating \in File
  BY <1>2, ConstantsAssumption DEF Creating, NewFile, File
<1> QED BY <1>2, <1>3, ConstantsAssumption DEF Creating, NewFile

LEMMA OpenType ==
  ASSUME TypeOK, NEW h \in Handle, Open(h) \/ OpenAborts(h) \/ Create(h)
  PROVE  TypeOK'
<1>1. \A r \in Reader : reader[r].pc # "idle" => reader[r].h # h
  BY DEF TypeOK, ReaderOK, Open, OpenAborts, Create
<1>2. FindFile \in Doc /\ NewFile(FindFile) \in File /\ NewFile(None) \in File
  BY FindFileType, NewFileType DEF TypeOK
<1>3. \A d \in Doc \cup {None} :
        /\ NewFile(d).theWritten = 0 /\ NewFile(d).theCurrentDataSize = 0
        /\ NewFile(d).theCachedChunkN = -1
  BY DEF NewFile
<1>4. CASE Open(h)
  <2> DEFINE x == NewFile(IF Debug THEN FindFile ELSE None)
  <2>1. x \in File /\ x.theWritten <= x.theCurrentDataSize /\ x.theCachedChunkN = -1
    BY <1>2, <1>3
  <2>2. Scalars'
    BY <1>4 DEF Open, Scalars, TypeOK
  <2>3. reader' = reader /\ file' = [file EXCEPT ![h] = x]
    BY <1>4 DEF Open
  <2> HIDE DEF x
  <2> QED BY <1>1, <2>1, <2>2, <2>3, HandleMoves
<1>5. CASE Create(h)
  <2> DEFINE x == Creating
  <2>1. Scalars'
    BY <1>5 DEF Create, Scalars, TypeOK
  <2>2. x \in File /\ x.theWritten <= x.theCurrentDataSize /\ x.theCachedChunkN = -1
    BY CreatingType DEF TypeOK
  <2>3. reader' = reader /\ file' = [file EXCEPT ![h] = x]
    BY <1>5 DEF Create, Creating
  <2> HIDE DEF x
  <2> QED BY <1>1, <2>1, <2>2, <2>3, HandleMoves
<1>6. CASE OpenAborts(h)
  BY <1>6, Dies DEF OpenAborts, Scalars, TypeOK
<1> QED BY <1>4, <1>5, <1>6

\* What a write that is answered changes of the File.
Written(h) ==
  LET f == file[h]
      x == file'[h] IN
    /\ "write" \in Ops
    /\ f \in File /\ f # None /\ x # None /\ x \in File
    /\ f.stored = None /\ x.stored = None
    /\ UNCHANGED <<docs, chunks, removed, uploads, reader, reads>>
    /\ file' = [file EXCEPT ![h] = x]
    /\ x.theGridFile = f.theGridFile /\ x.reloaded = f.reloaded
    /\ x.theFileLength = f.theFileLength
    /\ x.theChunkSize = WriteChunk(f)
    /\ x.theCachedChunkN = f.theCachedChunkN
    /\ x.theCachedChunk = f.theCachedChunk
    /\ x.mutex_read = f.mutex_read
    /\ x.theWritten = f.theWritten \/ x.theWritten <= MaxLength
    /\ x.theWritten <= x.theCurrentDataSize

LEMMA WriteEffect ==
  ASSUME TypeOK, NEW h \in Handle,
         \/ \E off \in 0 .. MaxLength : WriteElsewhere(h, off)
         \/ \E size \in 1 .. MaxLength : Write(h, size) \/ WriteFails(h, size)
  PROVE  Written(h)
<1> DEFINE f == file[h]
           cs == WriteChunk(f)
           Fields(x) == /\ x.theGridFile = f.theGridFile /\ x.reloaded = f.reloaded
                        /\ x.theFileLength = f.theFileLength
                        /\ x.theChunkSize = cs
                        /\ x.theCachedChunkN = f.theCachedChunkN
                        /\ x.theCachedChunk = f.theCachedChunk
                        /\ x.mutex_read = f.mutex_read /\ x.stored = f.stored
<1>1. Writable(h)
  BY DEF WriteElsewhere, Write, WriteFails
<1>2. /\ f \in File /\ f # None /\ f.stored = None /\ "write" \in Ops /\ FileOK(h)
      /\ f.theWritten \in Nat /\ f.theCurrentDataSize \in Nat
      /\ f.theWritten <= f.theCurrentDataSize
  <2>1. f \in File /\ f # None /\ f.stored = None /\ "write" \in Ops /\ FileOK(h)
    BY <1>1 DEF Writable, TypeOK
  <2> QED BY <2>1 DEF File, FileOK
<1>3. UNCHANGED <<docs, chunks, removed, uploads, reader, reads>>
  BY DEF WriteElsewhere, Write, WriteFails
<1>4. cs \in Nat
  BY <1>2, WriteChunkType
<1> HIDE DEF cs
<1>5. SUFFICES \E x \in File :
                 /\ file' = [file EXCEPT ![h] = x] /\ Fields(x)
                 /\ x.theWritten = f.theWritten \/ x.theWritten <= MaxLength
                 /\ x.theWritten <= x.theCurrentDataSize
  BY <1>2, <1>3, FileIsThere DEF Written, TypeOK, cs
<1>6. CASE \E off \in 0 .. MaxLength : WriteElsewhere(h, off)
  <2> DEFINE x == [f EXCEPT !.theChunkSize = cs]
  <2>1. file' = [file EXCEPT ![h] = x]
    BY <1>6 DEF WriteElsewhere, cs
  <2>2. /\ x \in File /\ Fields(x) /\ x.theWritten = f.theWritten
        /\ x.theCurrentDataSize = f.theCurrentDataSize
    <3> HIDE DEF f
    <3> QED BY <1>2, <1>4 DEF File
  <2> HIDE DEF x, Fields
  <2> QED BY <1>2, <2>1, <2>2
<1>7. ASSUME NEW size \in 1 .. MaxLength, Write(h, size) \/ WriteFails(h, size)
      PROVE <1>5!1
  <2> DEFINE need == f.theWritten + size
  <2>1. need \in Nat
    BY <1>2, ConstantsAssumption
  <2>2. /\ \A n \in Sizes(f, need) : n \in Nat /\ n >= f.theCurrentDataSize
        /\ \E n \in Sizes(f, need) : n >= need
    BY <1>2, <2>1, SizesGrow
  <2>3. CASE Write(h, size)
    <3> DEFINE n == CHOOSE m \in Sizes(f, need) : m >= need
               x == [f EXCEPT !.theChunkSize = cs, !.theCurrentDataSize = n,
                              !.theData = "mapped", !.theHasChanges = TRUE,
                              !.theWritten = need]
    <3>1. n \in Nat /\ n >= need
      BY <2>2
    <3>2. file' = [file EXCEPT ![h] = x] /\ need <= MaxLength
      BY <2>3 DEF Write, cs
    <3> HIDE DEF n, need
    <3>3. /\ x \in File /\ Fields(x) /\ x.theWritten = need
          /\ x.theCurrentDataSize = n
      <4> HIDE DEF f
      <4> QED BY <1>2, <1>4, <2>1, <3>1 DEF File
    <3> HIDE DEF x, Fields
    <3> QED BY <2>1, <3>1, <3>2, <3>3
  <2>4. CASE WriteFails(h, size)
    <3>1. PICK n \in Sizes(f, need) \cup {f.theCurrentDataSize} :
            file' = [file EXCEPT ![h] = [f EXCEPT !.theChunkSize = cs,
                                                  !.theCurrentDataSize = n,
                                                  !.theData = "failed"]]
      BY <2>4 DEF WriteFails, cs
    <3> DEFINE x == [f EXCEPT !.theChunkSize = cs, !.theCurrentDataSize = n,
                              !.theData = "failed"]
    <3>2. n \in Nat /\ n >= f.theCurrentDataSize /\ f.theWritten <= n
      BY <1>2, <2>2
    <3>3. /\ x \in File /\ Fields(x) /\ x.theWritten = f.theWritten
          /\ x.theCurrentDataSize = n
      <4> HIDE DEF f, need
      <4> QED BY <1>2, <1>4, <3>2 DEF File
    <3>4. file' = [file EXCEPT ![h] = x]
      BY <3>1
    <3> HIDE DEF x, Fields
    <3> QED BY <3>2, <3>3, <3>4
  <2> QED BY <1>7, <2>3, <2>4
<1> QED BY <1>6, <1>7

LEMMA WriteType ==
  ASSUME TypeOK, NEW h \in Handle,
         \/ \E off \in 0 .. MaxLength : WriteElsewhere(h, off)
         \/ \E size \in 1 .. MaxLength :
              Write(h, size) \/ WriteFails(h, size) \/ WriteLost(h, size)
  PROVE  TypeOK'
<1>1. CASE \E size \in 1 .. MaxLength : WriteLost(h, size)
  BY <1>1, Dies DEF WriteLost, Scalars, TypeOK
<1>2. CASE \/ \E off \in 0 .. MaxLength : WriteElsewhere(h, off)
           \/ \E size \in 1 .. MaxLength : Write(h, size) \/ WriteFails(h, size)
  <2>1. Written(h)
    BY <1>2, WriteEffect
  <2>2. Scalars'
    <3>1. faults' \in Nat
      <4>1. CASE \E off \in 0 .. MaxLength : WriteElsewhere(h, off)
        BY <4>1 DEF WriteElsewhere, TypeOK
      <4>2. CASE \E size \in 1 .. MaxLength : Write(h, size)
        <5>1. UNCHANGED faults
          BY <4>2 DEF Write
        <5> QED BY <5>1 DEF TypeOK
      <4>3. CASE \E size \in 1 .. MaxLength : WriteFails(h, size)
        <5>1. Fault
          BY <4>3 DEF WriteFails
        <5> QED BY <5>1 DEF Fault, TypeOK
      <4> QED BY <1>2, <4>1, <4>2, <4>3
    <3> QED BY <2>1, <3>1 DEF Written, Scalars, TypeOK
  <2>3. file[h].theChunkSize \in {0, file'[h].theChunkSize}
    BY <2>1 DEF Written, WriteChunk
  <2>4. FileOK(h)
    BY DEF TypeOK
  <2> QED BY <2>1, <2>2, <2>3, <2>4, HandleMoves DEF Written, FileOK
<1> QED BY <1>1, <1>2

LEMMA StoreType ==
  ASSUME TypeOK, NEW h \in Handle,
         \/ Release(h) \/ ReleaseChanged(h)
         \/ StoreChunk(h) \/ StoreFile(h) \/ StoreThrows(h) \/ StoreLost(h)
  PROVE  TypeOK'
<1> DEFINE f == file[h]
<1>1. f \in File /\ f # None /\ FileOK(h)
  BY DEF TypeOK, Release, ReleaseChanged, StoreChunk, StoreFile, StoreThrows,
         StoreLost, Storing
<1>2. /\ f.theWritten \in Nat /\ f.theGridFile \in Doc \cup {None}
      /\ f.stored # None => f.stored.v \in Nat /\ f.stored.n \in Nat
  BY <1>1 DEF File
<1>3. FindFile \in Doc
  BY FindFileType DEF TypeOK
<1>4. CASE Release(h)
  <2>1. file' = [file EXCEPT ![h] = None] /\ reader' = reader /\ Scalars'
    BY <1>4 DEF Release, Scalars, TypeOK
  <2>2. \A r \in Reader : reader[r].h # h
    BY <1>4 DEF Release, Unused
  <2> QED BY <2>1, <2>2, HandleMoves
<1>5. CASE ReleaseChanged(h)
  <2> DEFINE s == [v |-> uploads + 1, n |-> 0]
             d == IF f.theGridFile = None THEN FindFile ELSE f.theGridFile
             x == [f EXCEPT !.stored = s, !.theGridFile = d]
  <2>1. file' = [file EXCEPT ![h] = x] /\ reader' = reader /\ Scalars'
    BY <1>5 DEF ReleaseChanged, Scalars, TypeOK
  <2>2. s \in [v: Nat, n: Nat] /\ d \in Doc
    BY <1>2, <1>3 DEF TypeOK
  <2> HIDE DEF s, d
  <2>3. /\ x \in File /\ x.mutex_read = f.mutex_read
        /\ x.theCachedChunkN = f.theCachedChunkN /\ x.theChunkSize = f.theChunkSize
        /\ x.theWritten = f.theWritten
        /\ x.theCurrentDataSize = f.theCurrentDataSize
        /\ x.theCachedChunk = f.theCachedChunk
    <3> HIDE DEF f
    <3> QED BY <1>1, <2>2 DEF File
  <2> HIDE DEF x
  <2>4. \A r \in Reader : reader[r].h # h
    BY <1>5 DEF ReleaseChanged, Unused
  <2> QED BY <1>1, <2>1, <2>3, <2>4, FileIsThere, HandleMoves DEF FileOK
<1>6. CASE StoreChunk(h)
  <2> DEFINE s == [f.stored EXCEPT !.n = f.stored.n + 1]
             x == [f EXCEPT !.stored = s]
  <2>1. file' = [file EXCEPT ![h] = x] /\ reader' = reader
    BY <1>6 DEF StoreChunk
  <2>2. s \in [v: Nat, n: Nat]
    <3>1. f.stored \in [v: Nat, n: Nat]
      BY <1>1, <1>6 DEF StoreChunk, Storing, File
    <3> QED BY <3>1
  <2>3. Scalars'
    <3>1. ChunkOf(f.stored.v, f.stored.n, f.theWritten, DriverChunk) \in Chunk
      BY <1>2, <1>6, ConstantsAssumption, ChunksType DEF StoreChunk, Storing
    <3> QED BY <1>6, <3>1 DEF StoreChunk, Scalars, TypeOK
  <2> HIDE DEF s
  <2>4. /\ x \in File /\ x.mutex_read = f.mutex_read
        /\ x.theCachedChunkN = f.theCachedChunkN /\ x.theChunkSize = f.theChunkSize
        /\ x.theWritten = f.theWritten
        /\ x.theCurrentDataSize = f.theCurrentDataSize
        /\ x.theCachedChunk = f.theCachedChunk
    <3> HIDE DEF f
    <3> QED BY <1>1, <2>2 DEF File
  <2> HIDE DEF x
  <2>5. \A r \in Reader : reader[r].pc # "idle" => reader[r].h # h
    BY <1>6 DEF StoreChunk, Storing, TypeOK, ReaderOK
  <2> QED BY <1>1, <2>1, <2>3, <2>4, <2>5, FileIsThere, HandleMoves DEF FileOK
<1>7. CASE StoreFile(h) \/ StoreThrows(h)
  <2>1. /\ \/ file' = [file EXCEPT ![h] = None]
           \/ file' = [file EXCEPT ![h] = NewFile(None)]
        /\ reader' = reader /\ f.stored # None
    BY <1>7 DEF StoreFile, StoreThrows, Storing
  <2>2. Scalars'
    <3>1. [v |-> f.stored.v, len |-> f.theWritten, cs |-> DriverChunk] \in Doc
      BY <1>2, <2>1, ConstantsAssumption DEF Doc
    <3>2. CASE StoreFile(h)
      BY <3>1, <3>2, AppendProperties DEF StoreFile, Fault, Scalars, TypeOK
    <3>3. CASE StoreThrows(h)
      BY <3>3 DEF StoreThrows, Fault, Scalars, TypeOK
    <3> QED BY <1>7, <3>2, <3>3
  <2>3. \A r \in Reader : reader[r].pc # "idle" => reader[r].h # h
    BY <2>1 DEF TypeOK, ReaderOK
  <2>4. /\ NewFile(None) \in File /\ NewFile(None).theCachedChunkN = -1
        /\ NewFile(None).theWritten <= NewFile(None).theCurrentDataSize
    BY NewFileType DEF NewFile
  <2> QED BY <1>1, <2>1, <2>2, <2>3, <2>4, HandleMoves
<1>8. CASE StoreLost(h)
  BY <1>8, Dies DEF StoreLost, Scalars, TypeOK
<1> QED BY <1>4, <1>5, <1>6, <1>7, <1>8

\* A reader that holds the mutex of a File is the only one between Lock and Copy.
LEMMA OneHolder ==
  ASSUME TypeOK, NEW r \in Reader, NEW s \in Reader,
         reader[s].pc \in {"fetch", "copy"}, reader[s].h = reader[r].h,
         reader[r].pc \in {"fetch", "copy"} \/ file[reader[r].h].mutex_read = None
  PROVE  s = r
BY ConstantsAssumption DEF TypeOK, ReaderOK

LEMMA ReadType ==
  ASSUME TypeOK, NEW r \in Reader, NEW h \in Handle, NEW off \in 0 .. MaxLength,
         NEW size \in 1 .. MaxLength, Read(r, h, off, size)
  PROVE  TypeOK'
<1> DEFINE q == [NoRead EXCEPT !.pc = "chunksize", !.h = h, !.off = off, !.size = size]
           x == file[h]
<1>1. /\ q \in Request /\ q.pc = "chunksize" /\ q.h = h
  <2>1. off \in Nat /\ size \in Nat
    BY ConstantsAssumption
  <2> DEFINE a == NoRead
  <2>2. a \in Request
    BY NoReadType
  <2> HIDE DEF a
  <2>3. LET b == [a EXCEPT !.pc = "chunksize", !.h = h, !.off = off, !.size = size]
        IN  b \in Request /\ b.pc = "chunksize" /\ b.h = h
    BY <2>1, <2>2 DEF Request
  <2> QED BY <2>3 DEF a
<1>2. reader' = [reader EXCEPT ![r] = q] /\ file' = file /\ Scalars'
  BY DEF Read, Scalars, TypeOK
<1>3. x # None /\ x.stored = None
  BY DEF Read
<1>4. x \in File /\ file' = [file EXCEPT ![h] = x] /\ FileOK(h)
  BY <1>2, <1>3 DEF TypeOK
<1> HIDE DEF q
<1>5. ReaderOK(r)'
  <2>1. reader'[r] = q
    BY <1>2 DEF TypeOK
  <2> QED BY <1>1, <1>2, <1>3, <2>1 DEF ReaderOK
<1>6. \A s \in Reader \ {r} :
        reader[s].pc \in {"fetch", "copy"} /\ reader[s].h = h => x.mutex_read = s
  BY DEF TypeOK, ReaderOK
<1>7. Moved(r, h)
  BY <1>1, <1>2, <1>3, <1>4, <1>6 DEF Moved, FileOK, TypeOK
<1> QED BY <1>2, <1>5, <1>7, ReaderMoves

\* The numbers by which a reader that has the mutex goes.
LEMMA ChunkPlace ==
  ASSUME TypeOK, NEW r \in Reader, reader[r].pc # "idle",
         file[reader[r].h].theChunkSize # 0
  PROVE  LET p == reader[r].off + Len(reader[r].out)
             c == file[reader[r].h].theChunkSize IN
           /\ p \in Nat /\ c \in Nat \ {0} /\ Len(reader[r].out) \in Nat
           /\ ChunkN(r) \in Nat /\ CopyOffset(r) \in 0 .. c - 1
           /\ p = ChunkN(r) * c + CopyOffset(r)
           /\ CopySize(r) \in Int
<1> DEFINE q == reader[r]
           f == file[q.h]
           p == q.off + Len(q.out)
           c == f.theChunkSize
<1>1. /\ q \in Request /\ f \in File
  BY DEF TypeOK, ReaderOK
<1>2. /\ q.off \in Nat /\ q.size \in Nat /\ Len(q.out) \in Nat
      /\ f.theFileLength \in Nat /\ c \in Nat \ {0}
  BY <1>1, LenProperties DEF Request, File
<1>3. p \in Nat
  BY <1>2
<1>4. ChunkN(r) = p \div c /\ CopyOffset(r) = p % c
  BY DEF ChunkN, CopyOffset
<1>5. /\ ChunkN(r) \in Nat /\ CopyOffset(r) \in 0 .. c - 1
      /\ p = ChunkN(r) * c + CopyOffset(r)
  BY <1>2, <1>3, <1>4, DivMod
<1>6. CopySize(r) \in Int
  <2>1. \A a, b \in Int : Smaller(a, b) \in Int
    BY DEF Smaller
  <2>2. Smaller(q.size, f.theFileLength - q.off) - Len(q.out) \in Int
    <3>1. q.size \in Int /\ f.theFileLength - q.off \in Int
      BY <1>2
    <3>2. Smaller(q.size, f.theFileLength - q.off) \in Int
      BY <2>1, <3>1
    <3> QED BY <1>2, <3>2
  <2>3. f.theChunkSize - CopyOffset(r) \in Int
    BY <1>2, <1>5
  <2> QED BY <2>1, <2>2, <2>3 DEF CopySize
<1> QED BY <1>2, <1>3, <1>5, <1>6

\* What Copy takes out of the chunk.
Piece(r) ==
  LET c == file[reader[r].h].theCachedChunk IN
    [i \in 1 .. CopySize(r) |->
       IF CopyOffset(r) + i - 1 < c.len
       THEN <<c.v, c.from + (CopyOffset(r) + i - 1)>> ELSE Garbage]

LEMMA PieceType ==
  ASSUME TypeOK, NEW r \in Reader, reader[r].pc = "copy"
  PROVE  /\ Piece(r) \in Seq((Nat \X Nat) \cup {Garbage})
         /\ reader[r].out \o Piece(r) \in Seq((Nat \X Nat) \cup {Garbage})
<1> DEFINE S == (Nat \X Nat) \cup {Garbage}
           q == reader[r]
           f == file[q.h]
           c == f.theCachedChunk
<1>1. /\ q \in Request /\ q.h \in Handle /\ f \in File /\ f # None
      /\ f.theChunkSize # 0 /\ f.theCachedChunkN = ChunkN(r)
  BY DEF TypeOK, ReaderOK
<1>2. ChunkN(r) \in Nat /\ CopyOffset(r) \in Nat /\ CopySize(r) \in Int
  BY <1>1, ChunkPlace
<1>3. c \in Chunk
  <2>1. FileOK(q.h)
    BY <1>1 DEF TypeOK
  <2>2. c # None
    BY <1>1, <1>2, <2>1 DEF FileOK
  <2> QED BY <1>1, <2>2 DEF File
<1>4. c.v \in Nat /\ c.from \in Nat /\ c.len \in Nat
  BY <1>3 DEF Chunk
<1> DEFINE n == CopySize(r)
           b == CopyOffset(r)
           g(i) == IF b + i - 1 < c.len THEN <<c.v, c.from + (b + i - 1)>> ELSE Garbage
<1>5. \A i \in 1 .. n : g(i) \in S
  <2> HIDE DEF c, b, n
  <2> QED BY <1>2, <1>4 DEF b, n
<1>6. Piece(r) = [i \in 1 .. n |-> g(i)]
  BY DEF Piece
<1>7. Piece(r) \in Seq(S)
  <2> HIDE DEF g, n, S
  <2>1. n \in Int
    BY <1>2 DEF n
  <2> QED BY <1>5, <1>6, <2>1, SlotSeq
<1>8. q.out \in Seq(S)
  BY <1>1 DEF Request
<1> HIDE DEF S
<1> QED BY <1>7, <1>8, ConcatProperties DEF S

\* Before and after any step of a read.
Served(r) ==
  LET q == reader[r]
      f == file[q.h]
      x == file'[q.h]
      y == reader'[r] IN
    /\ q \in Request /\ y \in Request /\ q.pc # "idle" /\ y.pc # "idle"
    /\ q.h \in Handle /\ y.h = q.h /\ y.off = q.off /\ y.size = q.size
    /\ f \in File /\ f # None /\ x \in File /\ x # None
    /\ f.stored = None /\ x.stored = None
    /\ x.theWritten = f.theWritten /\ x.theCurrentDataSize = f.theCurrentDataSize
    /\ UNCHANGED <<docs, chunks, removed, uploads, reads>> /\ faults' \in Nat
    /\ file' = [file EXCEPT ![q.h] = x] /\ reader' = [reader EXCEPT ![r] = y]

\* Some of the fields that requests of one handle share.
SameDocument(x, f) == x.theGridFile = f.theGridFile /\ x.reloaded = f.reloaded
SameSizes(x, f) ==
  x.theFileLength = f.theFileLength /\ x.theChunkSize = f.theChunkSize
SameCache(x, f) ==
  x.theCachedChunkN = f.theCachedChunkN /\ x.theCachedChunk = f.theCachedChunk

\* A file object with another document.
LEMMA FileReset ==
  ASSUME NEW f \in File, NEW d \in Doc \cup {None}, NEW again \in BOOLEAN
  PROVE  [f EXCEPT !.theGridFile = d, !.reloaded = again] \in File
BY DEF File

\* A file object that is being stored.
LEMMA FileStoring ==
  ASSUME NEW f \in File, NEW t \in [v: Nat, n: Nat], NEW d \in Doc \cup {None}
  PROVE  [f EXCEPT !.stored = t, !.theGridFile = d] \in File
BY DEF File

LEMMA ResetEffect ==
  ASSUME TypeOK, NEW r \in Reader, Reset(r)
  PROVE  LET q == reader[r]
             f == file[q.h]
             x == file'[q.h]
             y == reader'[r] IN
           /\ Served(r) /\ SameSizes(x, f) /\ SameCache(x, f)
           /\ x.mutex_read = f.mutex_read
           /\ x.theGridFile = q.found
           /\ x.reloaded = (f.reloaded \/ f.theGridFile # None)
           /\ q.pc = "reset" /\ y.pc = "chunksize"
           /\ y.out = q.out /\ y.found = q.found
<1> DEFINE q == reader[r]
           f == file[q.h]
           d == q.found
           again == f.reloaded \/ f.theGridFile # None
           b == [q EXCEPT !.pc = "chunksize"]
           g == [f EXCEPT !.theGridFile = d, !.reloaded = again]
<1>1. /\ q \in Request /\ q.pc # "idle" /\ ReaderOK(r) /\ FileOK(q.h)
      /\ q.h \in Handle /\ f \in File /\ f # None /\ f.stored = None
  BY DEF TypeOK, ReaderOK, Reset
<1>2. /\ reader' = [reader EXCEPT ![r] = b] /\ file' = [file EXCEPT ![q.h] = g]
      /\ UNCHANGED <<docs, chunks, removed, uploads, reads>> /\ faults' \in Nat
  BY DEF Reset, TypeOK
<1>3. d \in Doc \cup {None} /\ d = q.found /\ again \in BOOLEAN
      /\ again = (f.reloaded \/ f.theGridFile # None)
  BY <1>1 DEF Request, File
<1>4. q.pc = "reset"
  BY DEF Reset
<1> HIDE DEF q, f, d, again
<1>5. /\ b \in Request /\ b.h = q.h /\ b.off = q.off /\ b.size = q.size
      /\ b.pc = "chunksize" /\ b.out = q.out /\ b.found = q.found
  BY <1>1, <1>3 DEF Request
<1>6. /\ g \in File /\ g.stored = f.stored
      /\ g.theWritten = f.theWritten /\ g.theCurrentDataSize = f.theCurrentDataSize
      /\ SameSizes(g, f) /\ SameCache(g, f) /\ g.mutex_read = f.mutex_read
      /\ g.theGridFile = d /\ g.reloaded = again
  <2>1. g \in File
    BY <1>1, <1>3, FileReset
  <2>2. g.theGridFile = d /\ g.reloaded = again
    BY <1>1 DEF File
  <2>3. /\ g.stored = f.stored /\ g.mutex_read = f.mutex_read
        /\ g.theWritten = f.theWritten /\ g.theCurrentDataSize = f.theCurrentDataSize
    BY <1>1 DEF File
  <2>4. SameSizes(g, f) /\ SameCache(g, f)
    BY <1>1 DEF File, SameSizes, SameCache
  <2> QED BY <2>1, <2>2, <2>3, <2>4
<1> HIDE DEF b, g
<1>7. reader'[r] = b /\ file'[q.h] = g
  BY <1>1, <1>2 DEF TypeOK
<1>8. Served(r)
  BY <1>1, <1>2, <1>5, <1>6, <1>7, FileIsThere DEF Served, q, f
<1> QED BY <1>1, <1>3, <1>4, <1>5, <1>6, <1>7, <1>8 DEF SameDocument, SameSizes, SameCache, q, f

LEMMA ChunkSizeEffect ==
  ASSUME TypeOK, NEW r \in Reader, ChunkSize(r)
  PROVE  LET q == reader[r]
             f == file[q.h]
             x == file'[q.h]
             y == reader'[r] IN
           /\ Served(r) /\ SameDocument(x, f) /\ SameCache(x, f)
           /\ x.mutex_read = f.mutex_read /\ x.theFileLength = f.theFileLength
           /\ f.theChunkSize # 0 \/ f.theGridFile # None
           /\ x.theChunkSize = IF f.theChunkSize = 0 THEN f.theGridFile.cs
                               ELSE f.theChunkSize
           /\ q.pc = "chunksize" /\ y.pc = "length"
           /\ y.out = q.out /\ y.found = q.found
<1> DEFINE q == reader[r]
           f == file[q.h]
           n == IF f.theChunkSize = 0 THEN f.theGridFile.cs ELSE f.theChunkSize
           b == [q EXCEPT !.pc = "length"]
           g == [f EXCEPT !.theChunkSize = n]
<1>1. /\ q \in Request /\ q.pc # "idle" /\ ReaderOK(r) /\ FileOK(q.h)
      /\ q.h \in Handle /\ f \in File /\ f # None /\ f.stored = None
  BY DEF TypeOK, ReaderOK, ChunkSize
<1>2. /\ reader' = [reader EXCEPT ![r] = b] /\ file' = [file EXCEPT ![q.h] = g]
      /\ UNCHANGED <<docs, chunks, removed, uploads, reads>> /\ faults' \in Nat
  BY DEF ChunkSize, TypeOK
<1>3. /\ q.pc = "chunksize" /\ (f.theChunkSize # 0 \/ f.theGridFile # None)
      /\ n = IF f.theChunkSize = 0 THEN f.theGridFile.cs ELSE f.theChunkSize
  BY DEF ChunkSize
<1>4. n \in Nat
  BY <1>1, <1>3 DEF File, Doc
<1> HIDE DEF q, f, n
<1>5. /\ b \in Request /\ b.h = q.h /\ b.off = q.off /\ b.size = q.size
      /\ b.pc = "length" /\ b.out = q.out /\ b.found = q.found
  BY <1>1, <1>4 DEF Request
<1>6. /\ g \in File /\ g.stored = f.stored
      /\ g.theWritten = f.theWritten /\ g.theCurrentDataSize = f.theCurrentDataSize
      /\ SameDocument(g, f) /\ SameCache(g, f) /\ g.mutex_read = f.mutex_read
      /\ g.theChunkSize = n /\ g.theFileLength = f.theFileLength
  BY <1>1, <1>4 DEF File, SameDocument, SameSizes, SameCache
<1> HIDE DEF b, g
<1>7. reader'[r] = b /\ file'[q.h] = g
  BY <1>1, <1>2 DEF TypeOK
<1>8. Served(r)
  BY <1>1, <1>2, <1>5, <1>6, <1>7, FileIsThere DEF Served, q, f
<1> QED BY <1>1, <1>3, <1>5, <1>6, <1>7, <1>8 DEF SameDocument, SameSizes, SameCache, q, f

LEMMA FileLengthEffect ==
  ASSUME TypeOK, NEW r \in Reader, FileLength(r)
  PROVE  LET q == reader[r]
             f == file[q.h]
             x == file'[q.h]
             y == reader'[r] IN
           /\ Served(r) /\ SameDocument(x, f) /\ SameCache(x, f)
           /\ x.mutex_read = f.mutex_read /\ x.theChunkSize = f.theChunkSize
           /\ f.theFileLength # 0 \/ f.theGridFile # None
           /\ x.theFileLength = IF f.theFileLength = 0 THEN f.theGridFile.len
                                ELSE f.theFileLength
           /\ q.pc = "length"
           /\ More(q, <<>>, x.theFileLength) => y.pc = "lock"
           /\ ~ More(q, <<>>, x.theFileLength) => y.pc = "done" /\ y.result = "ok"
           /\ y.out = q.out /\ y.found = q.found
<1> DEFINE q == reader[r]
           f == file[q.h]
           n == IF f.theFileLength = 0 THEN f.theGridFile.len ELSE f.theFileLength
           b == IF More(q, <<>>, n) THEN [q EXCEPT !.pc = "lock"]
                ELSE [q EXCEPT !.pc = "done", !.result = "ok"]
           g == [f EXCEPT !.theFileLength = n]
<1>1. /\ q \in Request /\ q.pc # "idle" /\ ReaderOK(r) /\ FileOK(q.h)
      /\ q.h \in Handle /\ f \in File /\ f # None /\ f.stored = None
  BY DEF TypeOK, ReaderOK, FileLength
<1>2. /\ reader' = [reader EXCEPT ![r] = b] /\ file' = [file EXCEPT ![q.h] = g]
      /\ UNCHANGED <<docs, chunks, removed, uploads, reads>> /\ faults' \in Nat
  BY DEF FileLength, TypeOK
<1>3. /\ q.pc = "length" /\ (f.theFileLength # 0 \/ f.theGridFile # None)
      /\ n = IF f.theFileLength = 0 THEN f.theGridFile.len ELSE f.theFileLength
  BY DEF FileLength
<1>4. n \in Nat
  BY <1>1, <1>3 DEF File, Doc
<1> HIDE DEF q, f, n
<1>5. /\ b \in Request /\ b.h = q.h /\ b.off = q.off /\ b.size = q.size
      /\ IF More(q, <<>>, n) THEN b.pc = "lock" ELSE b.pc = "done" /\ b.result = "ok"
      /\ b.out = q.out /\ b.found = q.found
  BY <1>1, <1>4 DEF Request
<1>6. /\ g \in File /\ g.stored = f.stored
      /\ g.theWritten = f.theWritten /\ g.theCurrentDataSize = f.theCurrentDataSize
      /\ SameDocument(g, f) /\ SameCache(g, f) /\ g.mutex_read = f.mutex_read
      /\ g.theChunkSize = f.theChunkSize /\ g.theFileLength = n
  BY <1>1, <1>4 DEF File, SameDocument, SameSizes, SameCache
<1> HIDE DEF b, g
<1>7. reader'[r] = b /\ file'[q.h] = g
  BY <1>1, <1>2 DEF TypeOK
<1>8. Served(r)
  BY <1>1, <1>2, <1>5, <1>6, <1>7, FileIsThere DEF Served, q, f
<1> QED BY <1>1, <1>3, <1>5, <1>6, <1>7, <1>8 DEF SameDocument, SameSizes, SameCache, q, f

LEMMA LockEffect ==
  ASSUME TypeOK, NEW r \in Reader, Lock(r)
  PROVE  LET q == reader[r]
             f == file[q.h]
             x == file'[q.h]
             y == reader'[r] IN
           /\ Served(r) /\ SameDocument(x, f) /\ SameCache(x, f) /\ SameSizes(x, f)
           /\ f.mutex_read = None /\ x.mutex_read = r /\ f.theChunkSize # 0
           /\ q.pc = "lock" /\ y.pc = "fetch"
           /\ y.out = q.out /\ y.found = q.found
<1> DEFINE q == reader[r]
           f == file[q.h]
           b == [q EXCEPT !.pc = "fetch"]
           g == [f EXCEPT !.mutex_read = r]
<1>1. /\ q \in Request /\ q.pc # "idle" /\ ReaderOK(r) /\ FileOK(q.h)
      /\ q.h \in Handle /\ f \in File /\ f # None /\ f.stored = None
  BY DEF TypeOK, ReaderOK, Lock
<1>2. /\ reader' = [reader EXCEPT ![r] = b] /\ file' = [file EXCEPT ![q.h] = g]
      /\ UNCHANGED <<docs, chunks, removed, uploads, reads>> /\ faults' \in Nat
  BY DEF Lock, TypeOK
<1>3. q.pc = "lock" /\ f.mutex_read = None /\ f.theChunkSize # 0
  BY DEF Lock
<1> HIDE DEF q, f
<1>5. /\ b \in Request /\ b.h = q.h /\ b.off = q.off /\ b.size = q.size
      /\ b.pc = "fetch" /\ b.out = q.out /\ b.found = q.found
  BY <1>1 DEF Request
<1>6. /\ g \in File /\ g.stored = f.stored
      /\ g.theWritten = f.theWritten /\ g.theCurrentDataSize = f.theCurrentDataSize
      /\ SameDocument(g, f) /\ SameCache(g, f) /\ SameSizes(g, f)
      /\ g.mutex_read = r
  BY <1>1 DEF File, SameDocument, SameSizes, SameCache
<1> HIDE DEF b, g
<1>7. reader'[r] = b /\ file'[q.h] = g
  BY <1>1, <1>2 DEF TypeOK
<1>8. Served(r)
  BY <1>1, <1>2, <1>5, <1>6, <1>7, FileIsThere DEF Served, q, f
<1> QED BY <1>1, <1>3, <1>5, <1>6, <1>7, <1>8 DEF SameDocument, SameSizes, SameCache, q, f

LEMMA CopyEffect ==
  ASSUME TypeOK, NEW r \in Reader, Copy(r)
  PROVE  LET q == reader[r]
             f == file[q.h]
             x == file'[q.h]
             y == reader'[r] IN
           /\ Served(r) /\ SameDocument(x, f) /\ SameCache(x, f) /\ SameSizes(x, f)
           /\ f.mutex_read = r /\ x.mutex_read = None
           /\ f.theChunkSize # 0 /\ f.theCachedChunkN = ChunkN(r)
           /\ q.pc = "copy"
           /\ y.out = q.out \o Piece(r) /\ y.found = q.found
           /\ More(q, y.out, f.theFileLength) => y.pc = "lock"
           /\ ~ More(q, y.out, f.theFileLength) => y.pc = "done" /\ y.result = "ok"
<1> DEFINE q == reader[r]
           f == file[q.h]
           out == q.out \o Piece(r)
           b == IF More(q, out, f.theFileLength) THEN [q EXCEPT !.out = out, !.pc = "lock"]
                ELSE [q EXCEPT !.out = out, !.pc = "done", !.result = "ok"]
           g == [f EXCEPT !.mutex_read = None]
<1>1. /\ q \in Request /\ q.pc # "idle" /\ ReaderOK(r) /\ FileOK(q.h)
      /\ q.h \in Handle /\ f \in File /\ f # None /\ f.stored = None
  BY DEF TypeOK, ReaderOK, Copy
<1>2. /\ reader' = [reader EXCEPT ![r] = b] /\ file' = [file EXCEPT ![q.h] = g]
      /\ UNCHANGED <<docs, chunks, removed, uploads, reads>> /\ faults' \in Nat
  BY DEF Copy, TypeOK, Piece
<1>3. /\ q.pc = "copy" /\ f.mutex_read = r /\ f.theChunkSize # 0
      /\ f.theCachedChunkN = ChunkN(r)
      /\ out = q.out \o Piece(r)
  BY <1>1 DEF Copy, ReaderOK
<1>4. out \in Seq((Nat \X Nat) \cup {Garbage})
  BY <1>3, PieceType
<1> HIDE DEF q, f, out
<1>5. /\ b \in Request /\ b.h = q.h /\ b.off = q.off /\ b.size = q.size
      /\ IF More(q, out, f.theFileLength) THEN b.pc = "lock" ELSE b.pc = "done" /\ b.result = "ok"
      /\ b.out = out /\ b.found = q.found
  BY <1>1, <1>4 DEF Request
<1>6. /\ g \in File /\ g.stored = f.stored
      /\ g.theWritten = f.theWritten /\ g.theCurrentDataSize = f.theCurrentDataSize
      /\ SameDocument(g, f) /\ SameCache(g, f) /\ SameSizes(g, f)
      /\ g.mutex_read = None
  BY <1>1, <1>4 DEF File, SameDocument, SameSizes, SameCache
<1> HIDE DEF b, g
<1>7. reader'[r] = b /\ file'[q.h] = g
  BY <1>1, <1>2 DEF TypeOK
<1>8. Served(r)
  BY <1>1, <1>2, <1>5, <1>6, <1>7, FileIsThere DEF Served, q, f
<1> QED BY <1>1, <1>3, <1>5, <1>6, <1>7, <1>8 DEF SameDocument, SameSizes, SameCache, q, f

LEMMA GridfileEffect ==
  ASSUME TypeOK, NEW r \in Reader, Gridfile(r)
  PROVE  LET q == reader[r]
             f == file[q.h]
             y == reader'[r] IN
           /\ Served(r) /\ file' = file /\ f.theGridFile = None
           /\ q.pc \in {"chunksize", "length"} /\ y.out = q.out
           /\ \/ y.pc = "reset" /\ y.found = FindFile
              \/ y.pc = "done" /\ y.result = "error" /\ y.found = q.found
<1> DEFINE q == reader[r]
           f == file[q.h]
           d == FindFile
           a == [q EXCEPT !.found = d, !.pc = "reset"]
           b == [q EXCEPT !.pc = "done", !.result = "error"]
<1>1. /\ q \in Request /\ q.pc \in {"chunksize", "length"} /\ q.h \in Handle
      /\ f \in File /\ f # None /\ f.stored = None /\ f.theGridFile = None
  BY DEF TypeOK, ReaderOK, Gridfile
<1>2. d \in Doc /\ d = FindFile
  BY FindFileType DEF TypeOK
<1>3. /\ reader' = [reader EXCEPT ![r] = a] \/ reader' = [reader EXCEPT ![r] = b]
      /\ file' = file /\ UNCHANGED <<docs, chunks, removed, uploads, reads>>
      /\ faults' \in Nat
  <2>1. reader' = [reader EXCEPT ![r] = a] \/ reader' = [reader EXCEPT ![r] = b]
    BY DEF Gridfile, TypeOK
  <2>2. file' = file /\ UNCHANGED <<docs, chunks, removed, uploads, reads>>
    BY DEF Gridfile
  <2>3. faults' \in Nat
    BY DEF Gridfile, Fault, TypeOK
  <2> QED BY <2>1, <2>2, <2>3
<1> HIDE DEF q, d
<1>4. /\ a \in Request /\ a.pc = "reset" /\ a.found = d /\ a.out = q.out
      /\ a.h = q.h /\ a.off = q.off /\ a.size = q.size
  BY <1>1, <1>2 DEF Request
<1>5. /\ b \in Request /\ b.pc = "done" /\ b.result = "error" /\ b.found = q.found
      /\ b.out = q.out /\ b.h = q.h /\ b.off = q.off /\ b.size = q.size
  BY <1>1 DEF Request
<1> HIDE DEF a, b, f
<1>6. PICK y \in {a, b} : reader' = [reader EXCEPT ![r] = y] /\ reader'[r] = y
  BY <1>3 DEF TypeOK
<1>7. file' = [file EXCEPT ![q.h] = f] /\ file'[q.h] = f
  BY <1>3 DEF TypeOK, f
<1>8. Served(r)
  BY <1>1, <1>3, <1>4, <1>5, <1>6, <1>7 DEF Served, q, f
<1> QED BY <1>1, <1>2, <1>3, <1>4, <1>5, <1>6, <1>8 DEF q, f

LEMMA FetchEffect ==
  ASSUME TypeOK, NEW r \in Reader, Fetch(r)
  PROVE  LET q == reader[r]
             f == file[q.h]
             x == file'[q.h]
             y == reader'[r] IN
           /\ Served(r) /\ SameDocument(x, f) /\ SameSizes(x, f)
           /\ f.mutex_read = r /\ x.mutex_read = r
           /\ f.theChunkSize # 0 /\ ChunkN(r) \in Nat
           /\ x.theCachedChunkN = ChunkN(r) /\ x.theCachedChunk # None
           /\ \/ f.theCachedChunkN = ChunkN(r) /\ x.theCachedChunk = f.theCachedChunk
              \/ x.theCachedChunk \in Stored(f, ChunkN(r))
           /\ q.pc = "fetch" /\ y.pc = "copy"
           /\ y.out = q.out /\ y.found = q.found
<1> DEFINE q == reader[r]
           f == file[q.h]
           n == ChunkN(r)
           b == [q EXCEPT !.pc = "copy"]
<1>1. /\ q \in Request /\ q.pc = "fetch" /\ ReaderOK(r) /\ FileOK(q.h)
      /\ q.h \in Handle /\ f \in File /\ f # None /\ f.stored = None
      /\ f.mutex_read = r /\ f.theChunkSize # 0
  BY DEF TypeOK, ReaderOK, Fetch
<1>2. /\ reader' = [reader EXCEPT ![r] = b] /\ faults' \in Nat
      /\ UNCHANGED <<docs, chunks, removed, uploads, reads>>
  BY DEF Fetch, TypeOK
<1>3. n \in Nat
  BY <1>1, ChunkPlace
<1>4. PICK c \in Chunk :
        /\ file' = [file EXCEPT ![q.h] = [f EXCEPT !.theCachedChunk = c,
                                                   !.theCachedChunkN = n]]
        /\ c # None
        /\ (f.theCachedChunkN = n /\ c = f.theCachedChunk) \/ c \in Stored(f, n)
  <2>1. CASE n = f.theCachedChunkN /\ UNCHANGED file
    <3>1. f.theCachedChunk \in Chunk /\ f.theCachedChunk # None
      BY <1>1, <1>3, <2>1 DEF FileOK, File
    <3>2. f = [f EXCEPT !.theCachedChunk = f.theCachedChunk, !.theCachedChunkN = n]
      <4> HIDE DEF f, n
      <4> QED BY <1>1, <2>1 DEF File
    <3>3. file' = [file EXCEPT ![q.h] = f]
      BY <2>1 DEF TypeOK
    <3> QED BY <2>1, <3>1, <3>2, <3>3
  <2>2. CASE \E c \in Stored(f, n) :
               file' = [file EXCEPT ![q.h].theCachedChunk = c,
                                    ![q.h].theCachedChunkN = n]
    <3>1. PICK c \in Stored(f, n) :
            file' = [file EXCEPT ![q.h].theCachedChunk = c,
                                 ![q.h].theCachedChunkN = n]
      BY <2>2
    <3>2. c \in Chunk /\ c # None
      BY ConstantsAssumption DEF Stored, TypeOK
    <3> HIDE DEF n
    <3>3. file' = [file EXCEPT ![q.h] = [f EXCEPT !.theCachedChunk = c,
                                                  !.theCachedChunkN = n]]
      BY <1>1, <3>1 DEF TypeOK
    <3> QED BY <3>2, <3>3
  <2> QED BY <2>1, <2>2 DEF Fetch
<1> DEFINE g == [f EXCEPT !.theCachedChunk = c, !.theCachedChunkN = n]
<1> HIDE DEF q, f, n
<1>5. /\ b \in Request /\ b.h = q.h /\ b.off = q.off /\ b.size = q.size
      /\ b.pc = "copy" /\ b.out = q.out /\ b.found = q.found
  BY <1>1 DEF Request
<1>6. /\ g \in File /\ g.stored = f.stored
      /\ g.theWritten = f.theWritten /\ g.theCurrentDataSize = f.theCurrentDataSize
      /\ SameDocument(g, f) /\ SameSizes(g, f) /\ g.mutex_read = f.mutex_read
      /\ g.theCachedChunkN = n /\ g.theCachedChunk = c
  BY <1>1, <1>3 DEF File, SameDocument, SameSizes
<1> HIDE DEF b
<1>7. reader'[r] = b /\ file'[q.h] = g /\ file' = [file EXCEPT ![q.h] = g]
  BY <1>1, <1>2, <1>4 DEF TypeOK
<1> HIDE DEF g
<1>8. Served(r)
  BY <1>1, <1>2, <1>5, <1>6, <1>7, FileIsThere DEF Served, q, f
<1> QED BY <1>1, <1>3, <1>4, <1>5, <1>6, <1>7, <1>8
        DEF SameDocument, SameSizes, q, f, n

LEMMA FetchThrowsEffect ==
  ASSUME TypeOK, NEW r \in Reader, FetchThrows(r)
  PROVE  LET q == reader[r]
             f == file[q.h]
             x == file'[q.h]
             y == reader'[r] IN
           /\ Served(r) /\ SameDocument(x, f) /\ SameCache(x, f) /\ SameSizes(x, f)
           /\ f.mutex_read = r /\ x.mutex_read = None
           /\ f.theChunkSize # 0 /\ ChunkN(r) # f.theCachedChunkN
           /\ q.pc = "fetch" /\ y.pc = "done"
           /\ \/ y.result = "gone" /\ Stored(f, ChunkN(r)) = {}
              \/ y.result = "error"
           /\ y.out = q.out /\ y.found = q.found
<1> DEFINE q == reader[r]
           f == file[q.h]
           g == [f EXCEPT !.mutex_read = None]
<1>1. /\ q \in Request /\ q.pc = "fetch" /\ ReaderOK(r) /\ FileOK(q.h)
      /\ q.h \in Handle /\ f \in File /\ f # None /\ f.stored = None
      /\ f.mutex_read = r /\ f.theChunkSize # 0 /\ ChunkN(r) # f.theCachedChunkN
  BY DEF TypeOK, ReaderOK, FetchThrows
<1>2. /\ file' = [file EXCEPT ![q.h] = g] /\ faults' \in Nat
      /\ UNCHANGED <<docs, chunks, removed, uploads, reads>>
  BY DEF FetchThrows, Fault, TypeOK
<1>3. PICK e \in {"gone", "error"} :
        /\ reader' = [reader EXCEPT ![r] = [q EXCEPT !.pc = "done", !.result = e]]
        /\ e = "gone" => Stored(f, ChunkN(r)) = {}
  BY DEF FetchThrows, TypeOK
<1> DEFINE b == [q EXCEPT !.pc = "done", !.result = e]
<1> HIDE DEF q, f
<1>4. /\ b \in Request /\ b.h = q.h /\ b.off = q.off /\ b.size = q.size
      /\ b.pc = "done" /\ b.result = e /\ b.out = q.out /\ b.found = q.found
  BY <1>1 DEF Request
<1>5. /\ g \in File /\ g.stored = f.stored
      /\ g.theWritten = f.theWritten /\ g.theCurrentDataSize = f.theCurrentDataSize
      /\ SameDocument(g, f) /\ SameCache(g, f) /\ SameSizes(g, f)
      /\ g.mutex_read = None
  BY <1>1 DEF File, SameDocument, SameSizes, SameCache
<1> HIDE DEF g
<1>6. reader'[r] = b /\ file'[q.h] = g /\ reader' = [reader EXCEPT ![r] = b]
  BY <1>1, <1>2, <1>3 DEF TypeOK
<1> HIDE DEF b
<1>7. Served(r)
  BY <1>1, <1>2, <1>4, <1>5, <1>6, FileIsThere DEF Served, q, f
<1> QED BY <1>1, <1>3, <1>4, <1>5, <1>6, <1>7
        DEF SameDocument, SameSizes, SameCache, q, f

\* What holds of the reader that moved, and that no other noticed, is enough.
LEMMA ServedType ==
  ASSUME TypeOK, NEW r \in Reader, Served(r), ReaderOK(r)',
         LET h == reader[r].h IN
           /\ file[h].theChunkSize \in {0, file'[h].theChunkSize}
           /\ file'[h].theCachedChunkN # -1 => file'[h].theCachedChunk # None
           /\ \A s \in Reader \ {r} :
                reader[s].pc \in {"fetch", "copy"} /\ reader[s].h = h =>
                  /\ file'[h].mutex_read = s
                  /\ file'[h].theCachedChunkN = file[h].theCachedChunkN
  PROVE  TypeOK'
<1>1. Moved(r, reader[r].h)
  BY DEF Served, Moved, TypeOK
<1>2. Scalars'
  BY DEF Served, Scalars, TypeOK
<1> QED BY <1>1, <1>2, ReaderMoves DEF Served

LEMMA ServeType ==
  ASSUME TypeOK, NEW r \in Reader,
         \/ Gridfile(r) \/ Reset(r) \/ ChunkSize(r) \/ FileLength(r)
         \/ Lock(r) \/ Fetch(r) \/ FetchThrows(r) \/ Copy(r)
  PROVE  TypeOK'
<1> DEFINE h == reader[r].h
           f == file[h]
           x == file'[h]
<1>1. /\ ReaderOK(r)
      /\ f.theCachedChunkN # -1 /\ h \in Handle /\ f # None => f.theCachedChunk # None
  BY DEF TypeOK, FileOK
<1>2. CASE Gridfile(r) \/ Reset(r) \/ ChunkSize(r) \/ FileLength(r)
  <2>1. /\ Served(r) /\ SameCache(x, f) /\ x.mutex_read = f.mutex_read
        /\ f.theChunkSize \in {0, x.theChunkSize}
        /\ ~ (reader'[r].pc \in {"fetch", "copy"})
        /\ reader'[r].pc = "reset" => reader'[r].found # None
    <3>1. FindFile # None
      BY FindFileType, ConstantsAssumption DEF TypeOK
    <3> QED BY <1>2, <3>1, GridfileEffect, ResetEffect, ChunkSizeEffect,
               FileLengthEffect DEF SameCache, SameSizes
  <2>2. ReaderOK(r)'
    BY <2>1 DEF ReaderOK, Served
  <2>3. \A s \in Reader \ {r} :
          reader[s].pc \in {"fetch", "copy"} /\ reader[s].h = h => f.mutex_read = s
    BY DEF TypeOK, ReaderOK
  <2> QED BY <1>1, <2>1, <2>2, <2>3, ServedType DEF SameCache, Served
<1>3. CASE Lock(r) \/ Fetch(r) \/ FetchThrows(r) \/ Copy(r)
  <2>1. \A s \in Reader \ {r} : ~ (reader[s].pc \in {"fetch", "copy"} /\ reader[s].h = h)
    BY <1>3, OneHolder DEF Lock, Fetch, FetchThrows, Copy
  <2>2. /\ Served(r) /\ f.theChunkSize = x.theChunkSize
        /\ x.theCachedChunkN # -1 => x.theCachedChunk # None
    <3>1. CASE Fetch(r)
      BY <3>1, FetchEffect DEF SameSizes
    <3>2. CASE Lock(r) \/ FetchThrows(r) \/ Copy(r)
      BY <1>1, <3>2, LockEffect, FetchThrowsEffect, CopyEffect
         DEF SameSizes, SameCache, Served
    <3> QED BY <1>3, <3>1, <3>2
  <2>3. ReaderOK(r)'
    <3>1. CASE Lock(r)
      BY <3>1, LockEffect DEF ReaderOK, Served, SameSizes
    <3>2. CASE Fetch(r)
      <4>1. /\ Served(r) /\ reader'[r].out = reader[r].out /\ reader'[r].pc = "copy"
            /\ SameSizes(x, f) /\ f.theChunkSize # 0 /\ x.mutex_read = r
            /\ x.theCachedChunkN = ChunkN(r)
        BY <3>2, FetchEffect
      <4>2. ChunkN(r)' = ChunkN(r)
        BY <4>1 DEF ChunkN, Served, SameSizes
      <4> QED BY <4>1, <4>2 DEF ReaderOK, Served, SameSizes
    <3>3. CASE FetchThrows(r) \/ Copy(r)
      BY <3>3, FetchThrowsEffect, CopyEffect DEF ReaderOK, Served
    <3> QED BY <1>3, <3>1, <3>2, <3>3
  <2> QED BY <2>1, <2>2, <2>3, ServedType
<1> QED BY <1>2, <1>3

LEMMA ReplyType ==
  ASSUME TypeOK, NEW r \in Reader, Reply(r) \/ DivideByZero(r) \/ ResetCrashes(r)
  PROVE  TypeOK'
<1>1. CASE Reply(r)
  <2>1. /\ reader' = [reader EXCEPT ![r] = NoRead] /\ file' = file /\ Scalars'
        /\ reader[r].pc = "done"
    BY <1>1 DEF Reply, Scalars, TypeOK
  <2>2. reader[r].h \in Handle /\ file[reader[r].h] # None
    BY <2>1 DEF TypeOK, ReaderOK
  <2>3. ReaderOK(r)'
    <3>1. reader'[r] = NoRead
      BY <2>1 DEF TypeOK
    <3> QED BY <3>1 DEF ReaderOK, NoRead
  <2>4. Moved(r, reader[r].h)
    <3>1. reader' \in [Reader -> Request]
      BY <2>1, NoReadType DEF TypeOK
    <3> QED BY <2>1, <2>2, <3>1 DEF Moved, TypeOK, ReaderOK, FileOK
  <2> QED BY <2>1, <2>2, <2>3, <2>4, ReaderMoves
<1>2. CASE DivideByZero(r) \/ ResetCrashes(r)
  BY <1>2, Dies DEF DivideByZero, ResetCrashes, Scalars, TypeOK
<1> QED BY <1>1, <1>2

LEMMA OthersType ==
  ASSUME TypeOK, Others
  PROVE  TypeOK'
<1>1. UNCHANGED <<file, reader>>
  BY DEF Others, Upload, UnlinkFile, UnlinkChunks, Truncate
<1>2. Scalars'
  <2>1. ASSUME NEW len \in 0 .. MaxLength, NEW cs \in ForeignChunks, Upload(len, cs)
        PROVE  Scalars'
    <3>1. len \in Nat /\ cs \in Nat \ {0} /\ uploads + 1 \in Nat
      BY ConstantsAssumption DEF TypeOK
    <3>2. [v |-> uploads + 1, len |-> len, cs |-> cs] \in Doc
      BY <3>1 DEF Doc
    <3>3. ChunksOf(uploads + 1, len, cs) \subseteq Chunk
      BY <3>1, ChunksOfType
    <3>4. Append(docs, [v |-> uploads + 1, len |-> len, cs |-> cs]) \in Seq(Doc)
      BY <3>2, AppendProperties DEF TypeOK
    <3> QED BY <2>1, <3>1, <3>3, <3>4 DEF Upload, Scalars, TypeOK
  <2>2. CASE UnlinkFile
    <3>1. PICK i \in 1 .. Len(docs) :
            /\ docs' = SubSeq(docs, 1, i - 1) \o SubSeq(docs, i + 1, Len(docs))
            /\ removed' = removed \cup {docs[i].v}
      BY <2>2 DEF UnlinkFile
    <3>2. docs[i] \in Doc
      BY ElementOfSeq DEF TypeOK
    <3>3. docs' \in Seq(Doc)
      BY <3>1, CutOut DEF TypeOK
    <3>4. removed' \subseteq Nat
      BY <3>1, <3>2 DEF TypeOK, Doc
    <3> QED BY <2>2, <3>3, <3>4 DEF UnlinkFile, Scalars, TypeOK
  <2>3. CASE UnlinkChunks
    BY <2>3 DEF UnlinkChunks, Scalars, TypeOK
  <2>4. CASE Truncate
    <3>1. PICK i \in 1 .. Len(docs) : docs' = [docs EXCEPT ![i].len = 0]
      BY <2>4 DEF Truncate
    <3>2. [docs[i] EXCEPT !.len = 0] \in Doc
      <4> DEFINE d == docs[i]
      <4>1. d \in Doc
        BY ElementOfSeq DEF TypeOK
      <4> HIDE DEF d
      <4>2. [d EXCEPT !.len = 0] \in Doc
        BY <4>1 DEF Doc
      <4> QED BY <4>2 DEF d
    <3>3. docs' \in Seq(Doc)
      <4> DEFINE d == [docs[i] EXCEPT !.len = 0]
      <4>1. d \in Doc /\ docs' = [docs EXCEPT ![i] = d]
        BY <3>1, <3>2
      <4> HIDE DEF d
      <4> QED BY <4>1, ExceptSeq DEF TypeOK
    <3> QED BY <2>4, <3>3 DEF Truncate, Scalars, TypeOK
  <2> QED BY <2>1, <2>2, <2>3, <2>4 DEF Others
<1> QED BY <1>1, <1>2, Elsewhere

\* TypeOK is inductive.
LEMMA TypeStep ==
  ASSUME TypeOK, [Next]_vars
  PROVE  TypeOK'
<1>1. CASE \E h \in Handle : HandlerStep(h)
  <2>1. PICK h \in Handle : HandlerStep(h)
    BY <1>1
  <2> QED BY <2>1, OpenType, WriteType, StoreType DEF HandlerStep
<1>2. CASE \E r \in Reader, h \in Handle, off \in 0 .. MaxLength,
              size \in 1 .. MaxLength : Read(r, h, off, size)
  BY <1>2, ReadType
<1>3. CASE \E r \in Reader : ReaderStep(r)
  BY <1>3, ServeType, ReplyType DEF ReaderStep
<1>4. CASE Others
  BY <1>4, OthersType
<1>5. CASE Crash
  BY <1>5, Dies DEF Crash, Fault, Scalars, TypeOK
<1>6. CASE UNCHANGED vars
  BY <1>6, Elsewhere DEF vars, Scalars, TypeOK
<1> QED BY <1>1, <1>2, <1>3, <1>4, <1>5, <1>6 DEF Next

\* At every moment the variables have their types, every request has an open
\* handle, mutex_read is held by exactly the reader that is fetching or copying a
\* chunk, a reader copies from the chunk it looked for, and the mapping holds what
\* was written (file.cpp).
THEOREM TypeCorrect == Spec => []TypeOK
<1>1. Init => TypeOK
  <2> SUFFICES ASSUME Init PROVE TypeOK
    OBVIOUS
  <2>1. /\ reader \in [Reader -> Request] /\ \A r \in Reader : reader[r].pc = "idle"
        /\ file \in [Handle -> File \cup {None}] /\ \A h \in Handle : file[h] = None
    BY NoReadType DEF Init, NoRead
  <2>2. docs \in Seq(Doc)
    BY EmptySeq DEF Init
  <2> QED BY <2>1, <2>2 DEF Init, TypeOK, ReaderOK, FileOK
<1>2. TypeOK /\ [Next]_vars => TypeOK'
  BY TypeStep
<1> QED BY <1>1, <1>2, PTL DEF Spec

-----------------------------------------------------------------------------
(* Versions: the inductive invariant *)

\* The chunks of version v are cut from len bytes.
Fits(v, len, cs) == \A c \in chunks : c.v = v => c = ChunkOf(v, c.n, len, cs)

\* What is true of a document that was ever there: its upload is over, its chunks
\* are there unless it was removed, and, unless it was truncated, all the chunks
\* of the version are pieces of it.
Whole(d) ==
  d = Absent \/
    /\ d.v \in 1 .. uploads /\ d.len <= MaxLength
    /\ d.cs \in {DriverChunk} \cup ForeignChunks
    /\ \A h \in Handle : Storing(h) => file[h].stored.v # d.v
    /\ d.v \in removed \/ ChunksOf(d.v, d.len, d.cs) \subseteq chunks
    /\ d.len # 0 => Fits(d.v, d.len, d.cs)

Sound == {d \in Doc : Whole(d)}

DocsInv ==
  /\ uploads <= MaxVersions
  /\ removed \subseteq 1 .. uploads
  /\ \A c \in chunks : c.v \in 1 .. uploads
  /\ \A i \in 1 .. Len(docs) :
       docs[i] \in Sound /\ docs[i] # Absent /\ docs[i].v \notin removed
  /\ \A i, j \in 1 .. Len(docs) : docs[i].v = docs[j].v => i = j

\* A version on its way into the store is nobody else's, and has the chunks
\* 0 .. n - 1 of what was written.
StoreInv(h) ==
  LET f == file[h]
      s == f.stored IN
    f # None =>
      /\ f.theWritten <= MaxLength
      /\ s # None =>
           /\ s.v \in 1 .. uploads /\ s.v \notin removed
           /\ \A i \in 1 .. Len(docs) : docs[i].v # s.v
           /\ \A g \in Handle \ {h} : Storing(g) => file[g].stored.v # s.v
           /\ \A n \in 0 .. s.n - 1 : ChunkOf(s.v, n, f.theWritten, DriverChunk) \in chunks
           /\ s.n <= ChunkCount(f.theWritten, DriverChunk)
           /\ Fits(s.v, f.theWritten, DriverChunk)

\* Handles and readers hold documents that were there.
LoadedInv ==
  /\ \A h \in Handle : file[h] # None => file[h].theGridFile \in Sound \cup {None}
  /\ \A r \in Reader : reader[r].found \in Sound \cup {None}

VersionInv == DocsInv /\ (\A h \in Handle : StoreInv(h)) /\ LoadedInv

LEMMA FindFileSound ==
  ASSUME TypeOK, DocsInv
  PROVE  FindFile \in Sound
<1>1. CASE docs = <<>>
  BY <1>1, AbsentType DEF FindFile, Sound, Whole
<1>2. CASE docs # <<>>
  <2>1. Len(docs) \in 1 .. Len(docs)
    BY <1>2, EmptySeq, LenProperties DEF TypeOK
  <2> QED BY <1>2, <2>1 DEF FindFile, DocsInv
<1> QED BY <1>1, <1>2

LEMMA NoChunks ==
  ASSUME NEW v \in Nat, NEW cs \in Nat \ {0}
  PROVE  ChunksOf(v, 0, cs) = {}
<1>1. \A n \in Nat : ~ (n < ChunkCount(0, cs)) /\ ChunkCount(0, cs) \in Nat
  BY InChunkCount
<1> QED BY <1>1 DEF ChunksOf

\* What was there remains so: chunks come only to versions that are being stored,
\* or are new, and go only from versions that were removed.
LEMMA SoundStays ==
  ASSUME uploads \in Nat, uploads' \in Nat, uploads <= uploads',
         removed \subseteq removed',
         \A c \in chunks : c \in chunks' \/ c.v \in removed,
         \A c \in chunks' :
           \/ c \in chunks \/ c.v = uploads + 1
           \/ \E h \in Handle : Storing(h) /\ file[h].stored.v = c.v,
         \A h \in Handle :
           Storing(h)' => \/ file[h]'.stored.v = uploads + 1
                          \/ Storing(h) /\ file[h]'.stored.v = file[h].stored.v
  PROVE  Sound \subseteq Sound'
<1> SUFFICES ASSUME NEW d \in Doc, Whole(d), d # Absent PROVE Whole(d)'
  BY DEF Sound, Whole
<1>1. d.v \in 1 .. uploads /\ d.v # uploads + 1 /\ d.v \in 1 .. uploads'
  BY DEF Whole
<1>2. \A h \in Handle : Storing(h)' => file[h]'.stored.v # d.v
  BY <1>1 DEF Whole
<1>3. d.v \in removed' \/ ChunksOf(d.v, d.len, d.cs) \subseteq chunks'
  <2>1. ASSUME d.v \notin removed, NEW c \in ChunksOf(d.v, d.len, d.cs)
        PROVE  c \in chunks'
    <3>1. c.v = d.v
      BY DEF ChunksOf, ChunkOf
    <3>2. c \in chunks
      BY <2>1 DEF Whole
    <3> QED BY <2>1, <3>1, <3>2
  <2> QED BY <2>1
<1>4. ASSUME d.len # 0, NEW c \in chunks', c.v = d.v
      PROVE  c = ChunkOf(d.v, c.n, d.len, d.cs)
  <2>1. c \in chunks
    BY <1>1, <1>4 DEF Whole
  <2> QED BY <1>4, <2>1 DEF Whole, Fits
<1> QED BY <1>1, <1>2, <1>3, <1>4 DEF Whole, Fits

\* A step that stores nothing with h, and takes its document from where it was.
Quietly(h) ==
  file'[h] # None =>
    /\ file'[h].theGridFile \in Sound \cup {None}
    /\ file'[h].theWritten <= MaxLength
    /\ file'[h].stored # None =>
         /\ file[h] # None /\ file'[h].stored = file[h].stored
         /\ file'[h].theWritten = file[h].theWritten

LEMMA Quiet ==
  ASSUME TypeOK, VersionInv, UNCHANGED <<docs, chunks, removed, uploads>>,
         \A h \in Handle : Quietly(h),
         \A r \in Reader : reader'[r].found \in Sound \cup {None}
  PROVE  VersionInv'
<1>1. \A h \in Handle :
        Storing(h)' => Storing(h) /\ file[h]'.stored = file[h].stored
                       /\ file[h]'.theWritten = file[h].theWritten
  BY DEF Storing, Quietly
<1>2. Sound \subseteq Sound'
  <2>1. \A h \in Handle :
          Storing(h)' => \/ file[h]'.stored.v = uploads + 1
                         \/ Storing(h) /\ file[h]'.stored.v = file[h].stored.v
    BY <1>1
  <2> QED BY <2>1, SoundStays DEF TypeOK
<1>3. DocsInv'
  BY <1>2 DEF VersionInv, DocsInv
<1>4. ASSUME NEW h \in Handle PROVE StoreInv(h)'
  <2>1. CASE ~ Storing(h)'
    BY <2>1 DEF StoreInv, Storing, Quietly
  <2>2. CASE Storing(h)'
    BY <1>1, <2>2 DEF VersionInv, StoreInv, Storing, Fits
  <2> QED BY <2>1, <2>2
<1>5. LoadedInv'
  BY <1>2 DEF LoadedInv, Quietly
<1> QED BY <1>3, <1>4, <1>5 DEF VersionInv

LEMMA SameIsQuiet ==
  ASSUME VersionInv, NEW h \in Handle, file'[h] = file[h]
  PROVE  Quietly(h)
BY DEF Quietly, VersionInv, StoreInv, LoadedInv

LEMMA GoneIsQuiet ==
  ASSUME NEW h \in Handle, file'[h] = None
  PROVE  Quietly(h)
BY DEF Quietly

LEMMA VersionDies ==
  ASSUME TypeOK, VersionInv, Die, UNCHANGED <<docs, chunks, removed, uploads>>
  PROVE  VersionInv'
<1>1. \A h \in Handle : Quietly(h)
  BY DEF Die, Quietly
<1>2. \A r \in Reader : reader'[r].found \in Sound \cup {None}
  BY DEF Die, NoRead
<1> QED BY <1>1, <1>2, Quiet

\* Steps after which the documents, chunks and uploads are as before.
LEMMA VersionQuietHandle ==
  ASSUME TypeOK, VersionInv, NEW h \in Handle,
         \/ Open(h) \/ OpenAborts(h) \/ Release(h) \/ StoreThrows(h)
         \/ \E off \in 0 .. MaxLength : WriteElsewhere(h, off)
         \/ \E size \in 1 .. MaxLength : Write(h, size) \/ WriteFails(h, size)
  PROVE  VersionInv'
<1>1. \A r \in Reader : reader[r].found \in Sound \cup {None}
  BY DEF VersionInv, LoadedInv
<1>2. CASE Release(h) \/ StoreThrows(h)
  <2>1. /\ UNCHANGED <<docs, chunks, removed, uploads, reader>>
        /\ file' = [file EXCEPT ![h] = None]
    BY <1>2 DEF Release, StoreThrows
  <2>2. file'[h] = None /\ \A g \in Handle \ {h} : file'[g] = file[g]
    BY <2>1 DEF TypeOK
  <2> QED BY <1>1, <2>1, <2>2, Quiet, SameIsQuiet, GoneIsQuiet
<1>3. CASE Open(h)
  <2> DEFINE d == IF Debug THEN FindFile ELSE None
  <2>1. d \in Sound \cup {None} /\ 0 <= MaxLength
    BY FindFileSound, ConstantsAssumption DEF VersionInv
  <2>2. /\ UNCHANGED <<docs, chunks, removed, uploads, reader>>
        /\ file' = [file EXCEPT ![h] = NewFile(d)]
    BY <1>3 DEF Open
  <2> HIDE DEF d
  <2>3. file'[h] = NewFile(d) /\ \A g \in Handle \ {h} : file'[g] = file[g]
    BY <2>2 DEF TypeOK
  <2>4. Quietly(h)
    BY <2>1, <2>3 DEF Quietly, NewFile
  <2> QED BY <1>1, <2>2, <2>3, <2>4, Quiet, SameIsQuiet
<1>4. CASE Written(h)
  <2>1. \A g \in Handle \ {h} : file'[g] = file[g]
    BY <1>4 DEF Written, TypeOK
  <2>2. Quietly(h)
    BY <1>4 DEF Quietly, Written, VersionInv, LoadedInv, StoreInv
  <2> QED BY <1>1, <1>4, <2>1, <2>2, Quiet, SameIsQuiet DEF Written
<1>5. CASE OpenAborts(h)
  BY <1>5, VersionDies DEF OpenAborts
<1> QED BY <1>2, <1>3, <1>4, <1>5, WriteEffect

LEMMA VersionReader ==
  ASSUME TypeOK, VersionInv, NEW r \in Reader,
         \/ ReaderStep(r)
         \/ \E h \in Handle, off \in 0 .. MaxLength, size \in 1 .. MaxLength :
              Read(r, h, off, size)
  PROVE  VersionInv'
<1>1. /\ \A s \in Reader : reader[s].found \in Sound \cup {None}
      /\ \A h \in Handle : file[h] # None =>
           file[h].theGridFile \in Sound \cup {None} /\ file[h].theWritten <= MaxLength
      /\ FindFile \in Sound
  BY FindFileSound DEF VersionInv, LoadedInv, StoreInv
<1>2. ASSUME Served(r), reader'[r].found \in {reader[r].found, FindFile},
             file'[reader[r].h].theGridFile \in
               {file[reader[r].h].theGridFile, reader[r].found}
      PROVE  VersionInv'
  <2>1. \A g \in Handle \ {reader[r].h} : file'[g] = file[g]
    BY <1>2 DEF Served, TypeOK
  <2>2. Quietly(reader[r].h)
    BY <1>1, <1>2 DEF Quietly, Served
  <2>3. \A s \in Reader : reader'[s].found \in Sound \cup {None}
    BY <1>1, <1>2 DEF Served, TypeOK
  <2> QED BY <1>2, <2>1, <2>2, <2>3, Quiet, SameIsQuiet DEF Served
<1>3. CASE Gridfile(r) \/ Reset(r)
  BY <1>2, <1>3, GridfileEffect, ResetEffect DEF SameDocument
<1>4. CASE ChunkSize(r) \/ FileLength(r) \/ Lock(r) \/ Copy(r)
  BY <1>2, <1>4, ChunkSizeEffect, FileLengthEffect, LockEffect, CopyEffect
     DEF SameDocument
<1>5. CASE Fetch(r) \/ FetchThrows(r)
  BY <1>2, <1>5, FetchEffect, FetchThrowsEffect DEF SameDocument
<1>6. CASE Reply(r)
  <2>1. reader' = [reader EXCEPT ![r] = NoRead] /\ file' = file
    BY <1>6 DEF Reply
  <2>2. \A s \in Reader : reader'[s].found \in Sound \cup {None}
    BY <1>1, <2>1 DEF TypeOK, NoRead
  <2> QED BY <1>6, <2>1, <2>2, Quiet, SameIsQuiet DEF Reply
<1>7. CASE \E h \in Handle, off \in 0 .. MaxLength, size \in 1 .. MaxLength :
             Read(r, h, off, size)
  <2>1. PICK h \in Handle, off \in 0 .. MaxLength, size \in 1 .. MaxLength :
          Read(r, h, off, size)
    BY <1>7
  <2> DEFINE b == [NoRead EXCEPT !.pc = "chunksize", !.h = h, !.off = off,
                                 !.size = size]
  <2>2. reader' = [reader EXCEPT ![r] = b] /\ file' = file
    BY <2>1 DEF Read
  <2>3. b.found = None
    BY DEF NoRead
  <2> HIDE DEF b
  <2>4. \A s \in Reader : reader'[s].found \in Sound \cup {None}
    BY <1>1, <2>2, <2>3 DEF TypeOK
  <2> QED BY <2>1, <2>2, <2>4, Quiet, SameIsQuiet DEF Read
<1>8. CASE DivideByZero(r) \/ ResetCrashes(r)
  BY <1>8, VersionDies DEF DivideByZero, ResetCrashes
<1> QED BY <1>3, <1>4, <1>5, <1>6, <1>7, <1>8 DEF ReaderStep

\* An upload that is over at once: its number is new, so that no chunk and no
\* other document has it.
LEMMA VersionUpload ==
  ASSUME TypeOK, VersionInv, NEW len \in 0 .. MaxLength, NEW cs \in ForeignChunks,
         Upload(len, cs)
  PROVE  VersionInv'
<1>0. /\ uploads < MaxVersions /\ uploads' = uploads + 1
      /\ UNCHANGED <<removed, reader, file>>
      /\ docs' = Append(docs, [v |-> uploads + 1, len |-> len, cs |-> cs])
      /\ chunks' = chunks \cup ChunksOf(uploads + 1, len, cs)
  BY DEF Upload
<1>1. PICK d \in Doc : d = [v |-> uploads + 1, len |-> len, cs |-> cs]
  <2>1. uploads + 1 \in Nat /\ len \in Nat /\ cs \in Nat
    BY ConstantsAssumption DEF TypeOK
  <2>2. [v |-> uploads + 1, len |-> len, cs |-> cs] \in Doc
    BY <2>1 DEF Doc
  <2> QED BY <2>2
<1>2. /\ uploads \in Nat /\ len \in Nat /\ cs \in Nat \ {0}
      /\ d.v = uploads + 1 /\ d.len = len /\ d.cs = cs
  BY <1>1, ConstantsAssumption DEF TypeOK
<1>3. /\ \A c \in ChunksOf(d.v, d.len, d.cs) :
           c.v = uploads + 1 /\ c = ChunkOf(d.v, c.n, d.len, d.cs)
      /\ \A c \in chunks : c.v \in 1 .. uploads
  BY <1>0, <1>2 DEF ChunksOf, ChunkOf, VersionInv, DocsInv
<1>4. \A h \in Handle : Storing(h)' => Storing(h) /\ file'[h] = file[h]
  BY <1>0 DEF Storing
<1>5. chunks' = chunks \cup ChunksOf(d.v, d.len, d.cs) /\ docs' = Append(docs, d)
  BY <1>0, <1>1, <1>2
<1>6. Sound \subseteq Sound'
  <2>1. \A c \in chunks' : c \in chunks \/ c.v = uploads + 1
    BY <1>3, <1>5
  <2> QED BY <1>0, <1>2, <1>4, <1>5, <2>1, SoundStays DEF TypeOK
<1>7. d \in Sound'
  <2>1. \A h \in Handle : Storing(h)' => file'[h].stored.v # d.v
    BY <1>0, <1>2, <1>4 DEF VersionInv, StoreInv, Storing
  <2>2. Fits(d.v, d.len, d.cs)'
    BY <1>0, <1>2, <1>3, <1>5 DEF Fits
  <2>3. /\ d.v \in 1 .. uploads' /\ ChunksOf(d.v, d.len, d.cs) \subseteq chunks'
        /\ d.len <= MaxLength
    BY <1>0, <1>2, <1>5
  <2> QED BY <1>0, <1>2, <2>1, <2>2, <2>3 DEF Whole, Sound
<1>8. /\ Len(docs') = Len(docs) + 1 /\ Len(docs) \in Nat
      /\ \A i \in 1 .. Len(docs') : docs'[i] = IF i <= Len(docs) THEN docs[i] ELSE d
  BY <1>5, AppendProperties, LenProperties DEF TypeOK
<1>9. DocsInv'
  <2>1. \A i \in 1 .. Len(docs) : docs[i].v \in 1 .. uploads
    BY <1>0, <1>2 DEF VersionInv, DocsInv, Sound, Whole
  <2>2. d # Absent /\ d.v \notin removed /\ \A i \in 1 .. Len(docs) : docs[i].v # d.v
    BY <1>0, <1>2, <2>1 DEF Absent, VersionInv, DocsInv
  <2>3. \A i \in 1 .. Len(docs') :
          docs'[i] \in Sound' /\ docs'[i] # Absent /\ docs'[i].v \notin removed'
    BY <1>0, <1>6, <1>7, <1>8, <2>2 DEF VersionInv, DocsInv
  <2>4. \A i, j \in 1 .. Len(docs') : docs'[i].v = docs'[j].v => i = j
    BY <1>0, <1>8, <2>2 DEF VersionInv, DocsInv
  <2>5. uploads' <= MaxVersions /\ removed' \subseteq 1 .. uploads'
    BY <1>0, <1>2, ConstantsAssumption DEF VersionInv, DocsInv
  <2>6. \A c \in chunks' : c.v \in 1 .. uploads'
    BY <1>0, <1>2, <1>3, <1>5
  <2> QED BY <2>3, <2>4, <2>5, <2>6 DEF DocsInv
<1>10. ASSUME NEW h \in Handle PROVE StoreInv(h)'
  <2>1. CASE ~ Storing(h)'
    BY <1>0, <2>1 DEF VersionInv, StoreInv, Storing
  <2>2. CASE Storing(h)'
    <3> DEFINE f == file[h]
               s == f.stored
    <3>1. file'[h] = f /\ f # None /\ s # None
      BY <1>4, <2>2 DEF Storing
    <3>2. StoreInv(h)
      BY DEF VersionInv
    <3>3. s.v \in 1 .. uploads' /\ s.v # d.v /\ s.v \notin removed'
      BY <1>0, <1>2, <3>1, <3>2 DEF StoreInv
    <3>4. \A i \in 1 .. Len(docs') : docs'[i].v # s.v
      BY <1>0, <1>8, <3>1, <3>2, <3>3 DEF StoreInv
    <3>5. \A g \in Handle \ {h} : Storing(g)' => file'[g].stored.v # s.v
      BY <1>4, <3>1, <3>2 DEF StoreInv
    <3>6. \A c \in chunks' : c.v = s.v => c = ChunkOf(s.v, c.n, f.theWritten, DriverChunk)
      BY <1>0, <1>2, <1>3, <1>5, <3>1, <3>2, <3>3 DEF StoreInv, Fits
    <3> QED BY <1>5, <3>1, <3>2, <3>3, <3>4, <3>5, <3>6 DEF StoreInv, Fits
  <2> QED BY <2>1, <2>2
<1>11. LoadedInv'
  BY <1>0, <1>6 DEF VersionInv, LoadedInv
<1> QED BY <1>9, <1>10, <1>11 DEF VersionInv

\* A store begins, with a new number.
LEMMA VersionBegins ==
  ASSUME TypeOK, VersionInv, NEW h \in Handle, NEW x,
         x.stored = [v |-> uploads + 1, n |-> 0],
         x.theGridFile \in Sound \cup {None}, x.theWritten \in 0 .. MaxLength,
         file' = [file EXCEPT ![h] = x], uploads < MaxVersions, uploads' = uploads + 1,
         UNCHANGED <<docs, chunks, removed, reader>>
  PROVE  VersionInv'
<1> DEFINE s == [v |-> uploads + 1, n |-> 0]
<1>3. s.v = uploads + 1 /\ s.n = 0 /\ s # None /\ uploads \in Nat /\ x.stored = s
  BY ConstantsAssumption DEF TypeOK
<1> HIDE DEF s
<1>5. file'[h] = x /\ \A g \in Handle \ {h} : file'[g] = file[g]
  BY DEF TypeOK
<1>6. Sound \subseteq Sound'
  <2>1. \A g \in Handle :
          Storing(g)' => \/ file[g]'.stored.v = uploads + 1
                         \/ Storing(g) /\ file[g]'.stored.v = file[g].stored.v
    BY <1>3, <1>5 DEF Storing
  <2> QED BY <1>3, <2>1, SoundStays
<1>7. /\ \A i \in 1 .. Len(docs) : docs[i].v \in 1 .. uploads
      /\ \A c \in chunks : c.v \in 1 .. uploads
      /\ removed \subseteq 1 .. uploads
      /\ \A g \in Handle : Storing(g) => file[g].stored.v \in 1 .. uploads
  BY DEF VersionInv, DocsInv, Sound, Whole, StoreInv, Storing
<1>8. DocsInv'
  <2>1. uploads' <= MaxVersions /\ removed' \subseteq 1 .. uploads'
    BY <1>3, <1>7, ConstantsAssumption
  <2>2. \A c \in chunks' : c.v \in 1 .. uploads'
    BY <1>3, <1>7
  <2> QED BY <1>6, <2>1, <2>2 DEF VersionInv, DocsInv
<1>9. StoreInv(h)'
  <2>1. /\ s.v \in 1 .. uploads' /\ s.v \notin removed'
        /\ \A i \in 1 .. Len(docs) : docs[i].v # s.v
        /\ \A g \in Handle \ {h} : Storing(g)' => file'[g].stored.v # s.v
    BY <1>3, <1>5, <1>7 DEF Storing
  <2>2. /\ 0 .. s.n - 1 = {} /\ s.n <= ChunkCount(x.theWritten, DriverChunk)
        /\ \A c \in chunks' : c.v # s.v
    <3>1. ChunkCount(x.theWritten, DriverChunk) \in Nat
      <4>1. x.theWritten \in Nat /\ DriverChunk \in Nat \ {0}
        BY ConstantsAssumption
      <4> QED BY <4>1, InChunkCount
    <3>2. s.n = 0 /\ s.v = uploads + 1 /\ uploads \in Nat
      BY <1>3
    <3>3. \A c \in chunks' : c.v # s.v
      BY <1>3, <1>7, <3>2
    <3> QED BY <3>1, <3>2, <3>3
  <2>3. x.theWritten <= MaxLength
    BY ConstantsAssumption
  <2> QED BY <1>3, <1>5, <2>1, <2>2, <2>3 DEF StoreInv, Fits
<1>10. ASSUME NEW g \in Handle \ {h} PROVE StoreInv(g)'
  <2>1. StoreInv(g) /\ file'[g] = file[g]
    BY <1>5 DEF VersionInv
  <2>2. CASE ~ Storing(g)
    BY <2>1, <2>2 DEF StoreInv, Storing
  <2>3. CASE Storing(g)
    <3>1. \A k \in Handle \ {g} : Storing(k)' => file'[k].stored.v # file[g].stored.v
      BY <1>3, <1>5, <1>7, <2>1, <2>3 DEF StoreInv, Storing
    <3>2. file[g].stored.v \in 1 .. uploads'
      BY <1>3, <1>7, <2>3
    <3> QED BY <2>1, <2>3, <3>1, <3>2 DEF StoreInv, Storing, Fits
  <2> QED BY <2>2, <2>3
<1>11. LoadedInv'
  BY <1>5, <1>6 DEF VersionInv, LoadedInv
<1> QED BY <1>8, <1>9, <1>10, <1>11 DEF VersionInv

LEMMA VersionReleaseChanged ==
  ASSUME TypeOK, VersionInv, NEW h \in Handle, ReleaseChanged(h) \/ Create(h)
  PROVE  VersionInv'
<1>1. CASE Create(h)
  <2> DEFINE x == Creating
  <2>1. /\ x.stored = [v |-> uploads + 1, n |-> 0]
        /\ x.theGridFile = None /\ x.theWritten \in 0 .. MaxLength
    BY CreatingType, ConstantsAssumption DEF TypeOK
  <2>2. /\ file' = [file EXCEPT ![h] = x] /\ uploads < MaxVersions
        /\ uploads' = uploads + 1 /\ UNCHANGED <<docs, chunks, removed, reader>>
    BY <1>1 DEF Create, Creating
  <2> HIDE DEF x
  <2> QED BY <2>1, <2>2, VersionBegins
<1>2. CASE ReleaseChanged(h)
  <2> DEFINE f == file[h]
             s == [v |-> uploads + 1, n |-> 0]
             d == IF f.theGridFile = None THEN FindFile ELSE f.theGridFile
             x == [f EXCEPT !.stored = s, !.theGridFile = d]
  <2>1. /\ f \in File /\ f # None /\ f.stored = None /\ uploads < MaxVersions
        /\ uploads' = uploads + 1 /\ file' = [file EXCEPT ![h] = x]
        /\ UNCHANGED <<docs, chunks, removed, reader>>
    BY <1>2 DEF ReleaseChanged, TypeOK
  <2>2. d \in Sound /\ f.theWritten \in 0 .. MaxLength
    BY <2>1, FindFileSound DEF VersionInv, LoadedInv, StoreInv, File
  <2> HIDE DEF s, d
  <2>3. x.stored = s /\ x.theGridFile = d /\ x.theWritten = f.theWritten
    <3> HIDE DEF f
    <3> QED BY <2>1 DEF File
  <2> HIDE DEF x
  <2> QED BY <2>1, <2>2, <2>3, VersionBegins DEF s
<1> QED BY <1>1, <1>2

LEMMA VersionStoreChunk ==
  ASSUME TypeOK, VersionInv, NEW h \in Handle, StoreChunk(h)
  PROVE  VersionInv'
<1> DEFINE f == file[h]
           s == f.stored
           t == [s EXCEPT !.n = s.n + 1]
           x == [f EXCEPT !.stored = t]
<1>1. /\ f \in File /\ f # None /\ s # None
      /\ s.n < ChunkCount(f.theWritten, DriverChunk)
      /\ file' = [file EXCEPT ![h] = x]
      /\ UNCHANGED <<docs, removed, uploads, reader>>
      /\ chunks' = chunks \cup {ChunkOf(s.v, s.n, f.theWritten, DriverChunk)}
  BY DEF StoreChunk, Storing, TypeOK
<1>2. s \in [v: Nat, n: Nat] /\ StoreInv(h)
  BY <1>1 DEF File, VersionInv
<1>3. t.v = s.v /\ t.n = s.n + 1 /\ t # None
  <2> HIDE DEF s
  <2>1. t \in [v: Nat, n: Nat] /\ t.v = s.v /\ t.n = s.n + 1
    BY <1>2
  <2> QED BY <2>1, ConstantsAssumption
<1> HIDE DEF t
<1>4. x.stored = t /\ x.theGridFile = f.theGridFile /\ x.theWritten = f.theWritten
  <2> HIDE DEF f
  <2> QED BY <1>1 DEF File
<1> HIDE DEF x
<1>5. file'[h] = x /\ \A g \in Handle \ {h} : file'[g] = file[g]
  BY <1>1 DEF TypeOK
<1>6. PICK new : new = ChunkOf(s.v, s.n, f.theWritten, DriverChunk)
  OBVIOUS
<1>7. new.v = s.v /\ new.n = s.n /\ chunks' = chunks \cup {new}
  BY <1>1, <1>6 DEF ChunkOf
<1>8. \A g \in Handle :
        Storing(g)' => Storing(g) /\ file[g]'.stored.v = file[g].stored.v
  BY <1>1, <1>3, <1>4, <1>5 DEF Storing
<1>9. Sound \subseteq Sound'
  <2>1. \A c \in chunks' :
          c \in chunks \/ \E g \in Handle : Storing(g) /\ file[g].stored.v = c.v
    BY <1>1, <1>7 DEF Storing
  <2> QED BY <1>1, <1>8, <2>1, SoundStays DEF TypeOK
<1>10. DocsInv'
  <2>1. \A c \in chunks' : c.v \in 1 .. uploads
    BY <1>1, <1>2, <1>7 DEF VersionInv, DocsInv, StoreInv
  <2> QED BY <1>1, <1>9, <2>1 DEF VersionInv, DocsInv
<1>11. StoreInv(h)'
  <2>1. \A n \in 0 .. t.n - 1 : ChunkOf(s.v, n, f.theWritten, DriverChunk) \in chunks'
    BY <1>1, <1>2, <1>3, <1>6, <1>7 DEF StoreInv
  <2>2. \A c \in chunks' :
          c.v = s.v => c = ChunkOf(s.v, c.n, f.theWritten, DriverChunk)
    BY <1>1, <1>2, <1>6, <1>7 DEF StoreInv, Fits
  <2>3. t.n <= ChunkCount(f.theWritten, DriverChunk)
    <3>1. f.theWritten \in Nat /\ ChunkCount(f.theWritten, DriverChunk) \in Nat
      BY <1>1, InChunkCount, ConstantsAssumption DEF File
    <3> QED BY <1>1, <1>2, <1>3, <3>1
  <2> HIDE DEF s
  <2>4. \A g \in Handle \ {h} : Storing(g)' => file'[g].stored.v # s.v
    BY <1>1, <1>2, <1>8 DEF StoreInv, s
  <2> QED BY <1>1, <1>2, <1>3, <1>4, <1>5, <2>1, <2>2, <2>3, <2>4 DEF StoreInv, Fits, s
<1>12. ASSUME NEW g \in Handle \ {h} PROVE StoreInv(g)'
  <2>1. StoreInv(g) /\ file'[g] = file[g]
    BY <1>5 DEF VersionInv
  <2>2. CASE ~ Storing(g)
    BY <2>1, <2>2 DEF StoreInv, Storing
  <2>3. CASE Storing(g)
    <3>1. s.v # file[g].stored.v
      BY <1>1, <1>2, <2>3 DEF StoreInv
    <3>2. \A k \in Handle \ {g} : Storing(k)' => file'[k].stored.v # file[g].stored.v
      BY <1>8, <2>1, <2>3 DEF StoreInv, Storing
    <3> QED BY <1>1, <1>7, <2>1, <2>3, <3>1, <3>2 DEF StoreInv, Storing, Fits
  <2> QED BY <2>2, <2>3
<1>13. LoadedInv'
  BY <1>1, <1>4, <1>5, <1>9 DEF VersionInv, LoadedInv
<1> QED BY <1>10, <1>11, <1>12, <1>13 DEF VersionInv

\* The files document of a version comes after all of its chunks.
LEMMA VersionStoreFile ==
  ASSUME TypeOK, VersionInv, NEW h \in Handle, StoreFile(h)
  PROVE  VersionInv'
<1> DEFINE f == file[h]
           s == f.stored
           len == f.theWritten
<1>1. /\ f \in File /\ f # None /\ s # None /\ s.n = ChunkCount(len, DriverChunk)
      /\ docs' = Append(docs, [v |-> s.v, len |-> len, cs |-> DriverChunk])
      /\ file' \in {[file EXCEPT ![h] = None], [file EXCEPT ![h] = NewFile(None)]}
      /\ UNCHANGED <<chunks, removed, uploads, reader>>
  BY DEF StoreFile, Storing, TypeOK
<1>2. /\ s \in [v: Nat, n: Nat] /\ StoreInv(h) /\ len \in Nat /\ len <= MaxLength
      /\ DriverChunk \in Nat \ {0}
  BY <1>1, ConstantsAssumption DEF File, VersionInv, StoreInv
<1>3. /\ file'[h] \in {None, NewFile(None)}
      /\ \A g \in Handle \ {h} : file'[g] = file[g]
  BY <1>1 DEF TypeOK
<1>4. PICK d \in Doc : d = [v |-> s.v, len |-> len, cs |-> DriverChunk]
  <2>1. [v |-> s.v, len |-> len, cs |-> DriverChunk] \in Doc
    BY <1>2 DEF Doc
  <2> QED BY <2>1
<1>5. /\ d.v = s.v /\ d.len = len /\ d.cs = DriverChunk /\ docs' = Append(docs, d)
      /\ s.v \in 1 .. uploads /\ d # Absent /\ uploads \in Nat
  BY <1>1, <1>2, <1>4 DEF StoreInv, Absent, TypeOK
<1>6. \A g \in Handle : Storing(g)' => g # h /\ Storing(g) /\ file'[g] = file[g]
  BY <1>3 DEF Storing, NewFile
<1>7. Sound \subseteq Sound'
  BY <1>1, <1>5, <1>6, SoundStays
<1>8. d \in Sound'
  <2>1. \A g \in Handle : Storing(g)' => file'[g].stored.v # d.v
    BY <1>1, <1>2, <1>5, <1>6 DEF StoreInv
  <2>2. ChunksOf(s.v, len, DriverChunk) \subseteq chunks
    <3>1. \A n \in 0 .. ChunkCount(len, DriverChunk) - 1 :
            ChunkOf(s.v, n, len, DriverChunk) \in chunks
      BY <1>1, <1>2 DEF StoreInv
    <3> QED BY <3>1 DEF ChunksOf
  <2>3. Fits(s.v, len, DriverChunk)
    BY <1>1, <1>2 DEF StoreInv
  <2> QED BY <1>1, <1>2, <1>5, <2>1, <2>2, <2>3 DEF Whole, Sound, Fits
<1>9. /\ Len(docs') = Len(docs) + 1 /\ Len(docs) \in Nat
      /\ \A i \in 1 .. Len(docs') : docs'[i] = IF i <= Len(docs) THEN docs[i] ELSE d
  BY <1>5, AppendProperties, LenProperties DEF TypeOK
<1>10. DocsInv'
  <2>1. s.v \notin removed /\ \A i \in 1 .. Len(docs) : docs[i].v # s.v
    BY <1>1, <1>2 DEF StoreInv
  <2>2. \A i \in 1 .. Len(docs') :
          docs'[i] \in Sound' /\ docs'[i] # Absent /\ docs'[i].v \notin removed'
    BY <1>1, <1>5, <1>7, <1>8, <1>9, <2>1 DEF VersionInv, DocsInv
  <2>3. \A i, j \in 1 .. Len(docs') : docs'[i].v = docs'[j].v => i = j
    BY <1>5, <1>9, <2>1 DEF VersionInv, DocsInv
  <2> QED BY <1>1, <2>2, <2>3 DEF VersionInv, DocsInv
<1>11. ASSUME NEW g \in Handle PROVE StoreInv(g)'
  <2>1. CASE ~ Storing(g)'
    BY <1>3, <2>1, ConstantsAssumption DEF VersionInv, StoreInv, Storing, NewFile
  <2>2. CASE Storing(g)'
    <3> DEFINE t == file[g].stored
    <3>1. /\ g # h /\ file'[g] = file[g] /\ file[g] # None /\ t # None
          /\ StoreInv(g)
      BY <1>6, <2>2 DEF VersionInv, Storing
    <3>2. t.v # d.v
      BY <1>1, <1>5, <3>1 DEF StoreInv, Storing
    <3>3. \A i \in 1 .. Len(docs') : docs'[i].v # t.v
      BY <1>9, <3>1, <3>2 DEF StoreInv
    <3>4. \A k \in Handle \ {g} : Storing(k)' => file'[k].stored.v # t.v
      BY <1>6, <3>1 DEF StoreInv
    <3> HIDE DEF t
    <3> QED BY <1>1, <3>1, <3>3, <3>4 DEF StoreInv, Fits, t
  <2> QED BY <2>1, <2>2
<1>12. LoadedInv'
  BY <1>1, <1>3, <1>7 DEF VersionInv, LoadedInv, NewFile
<1> QED BY <1>10, <1>11, <1>12 DEF VersionInv

\* Steps of others that change documents and chunks and no handle: a version that
\* is being stored is none that is there, or was removed.
LEMMA VersionOthers ==
  ASSUME TypeOK, VersionInv, UNCHANGED <<uploads, file, reader>>,
         DocsInv', Sound \subseteq Sound', chunks' \subseteq chunks,
         \A h \in Handle : Storing(h) =>
           LET v == file[h].stored.v IN
             /\ v \notin removed'
             /\ \A i \in 1 .. Len(docs') : docs'[i].v # v
             /\ \A c \in chunks : c.v = v => c \in chunks'
  PROVE  VersionInv'
<1>1. ASSUME NEW h \in Handle PROVE StoreInv(h)'
  <2> DEFINE f == file[h]
             s == f.stored
  <2>1. StoreInv(h)
    BY DEF VersionInv
  <2>2. CASE ~ Storing(h)
    BY <2>1, <2>2 DEF StoreInv, Storing
  <2>3. CASE Storing(h)
    <3>1. \A n \in 0 .. s.n - 1 : ChunkOf(s.v, n, f.theWritten, DriverChunk) \in chunks'
      BY <2>1, <2>3 DEF StoreInv, Storing, ChunkOf
    <3> QED BY <2>1, <2>3, <3>1 DEF StoreInv, Storing, Fits
  <2> QED BY <2>2, <2>3
<1>2. LoadedInv'
  BY DEF VersionInv, LoadedInv
<1> QED BY <1>1, <1>2 DEF VersionInv

LEMMA VersionUnlinkFile ==
  ASSUME TypeOK, VersionInv, UnlinkFile
  PROVE  VersionInv'
<1>1. PICK i \in 1 .. Len(docs) :
        /\ docs' = SubSeq(docs, 1, i - 1) \o SubSeq(docs, i + 1, Len(docs))
        /\ removed' = removed \cup {docs[i].v}
  BY DEF UnlinkFile
<1>2. UNCHANGED <<chunks, uploads, file, reader>> /\ uploads \in Nat
  BY DEF UnlinkFile, TypeOK
<1> DEFINE At(j) == IF j < i THEN j ELSE j + 1
<1>3. /\ Len(docs') = Len(docs) - 1
      /\ \A j \in 1 .. Len(docs') : docs'[j] = docs[At(j)]
  <2>1. docs \in Seq(Doc)
    BY DEF TypeOK
  <2> DEFINE t == SubSeq(docs, 1, i - 1) \o SubSeq(docs, i + 1, Len(docs))
  <2>2. /\ Len(t) = Len(docs) - 1
        /\ \A j \in 1 .. Len(t) : t[j] = IF j < i THEN docs[j] ELSE docs[j + 1]
    BY <2>1, CutOut
  <2>3. docs' = t
    BY <1>1
  <2> HIDE DEF t
  <2> QED BY <2>2, <2>3
<1>4. docs[i].v \in 1 .. uploads
  BY DEF VersionInv, DocsInv, Sound, Whole
<1>5. Sound \subseteq Sound'
  BY <1>1, <1>2, SoundStays DEF Storing
<1>6. /\ \A j \in 1 .. Len(docs') : At(j) \in 1 .. Len(docs) /\ At(j) # i
      /\ \A j, k \in 1 .. Len(docs') : At(j) = At(k) => j = k
  <2>1. Len(docs) \in Nat
    BY LenProperties DEF TypeOK
  <2> QED BY <1>3, <2>1
<1> HIDE DEF At
<1>7. DocsInv'
  <2>1. \A j \in 1 .. Len(docs') :
          docs'[j] \in Sound' /\ docs'[j] # Absent /\ docs'[j].v \notin removed'
    <3>1. \A k \in 1 .. Len(docs) \ {i} :
            docs[k] \in Sound' /\ docs[k] # Absent /\ docs[k].v \notin removed'
      BY <1>1, <1>5 DEF VersionInv, DocsInv
    <3>2. \A j \in 1 .. Len(docs') : At(j) \in 1 .. Len(docs) \ {i}
      BY <1>6
    <3> QED BY <1>3, <3>1, <3>2
  <2>2. \A j, k \in 1 .. Len(docs') : docs'[j].v = docs'[k].v => j = k
    BY <1>3, <1>6 DEF VersionInv, DocsInv
  <2> QED BY <1>1, <1>2, <1>4, <2>1, <2>2 DEF VersionInv, DocsInv
<1>8. \A h \in Handle : Storing(h) =>
        LET v == file[h].stored.v IN
          /\ v \notin removed'
          /\ \A j \in 1 .. Len(docs') : docs'[j].v # v
          /\ \A c \in chunks : c.v = v => c \in chunks'
  <2> SUFFICES ASSUME NEW h \in Handle, Storing(h)
               PROVE  /\ file[h].stored.v \notin removed'
                      /\ \A j \in 1 .. Len(docs') : docs'[j].v # file[h].stored.v
    BY <1>2
  <2>1. /\ file[h].stored.v \notin removed
        /\ \A j \in 1 .. Len(docs) : docs[j].v # file[h].stored.v
    BY DEF VersionInv, StoreInv, Storing
  <2> QED BY <1>1, <1>3, <1>6, <2>1
<1> QED BY <1>2, <1>5, <1>7, <1>8, VersionOthers

LEMMA VersionUnlinkChunks ==
  ASSUME TypeOK, VersionInv, UnlinkChunks
  PROVE  VersionInv'
<1>1. PICK v \in removed : chunks' = {c \in chunks : c.v # v}
  BY DEF UnlinkChunks
<1>2. UNCHANGED <<docs, removed, uploads, file, reader>> /\ uploads \in Nat
  BY DEF UnlinkChunks, TypeOK
<1>3. Sound \subseteq Sound'
  BY <1>1, <1>2, SoundStays DEF Storing
<1>4. DocsInv'
  BY <1>1, <1>2, <1>3 DEF VersionInv, DocsInv
<1>5. \A h \in Handle : Storing(h) =>
        LET s == file[h].stored IN
          /\ s.v \notin removed'
          /\ \A j \in 1 .. Len(docs') : docs'[j].v # s.v
          /\ \A c \in chunks : c.v = s.v => c \in chunks'
  BY <1>1, <1>2 DEF VersionInv, StoreInv, Storing
<1> QED BY <1>1, <1>2, <1>3, <1>4, <1>5, VersionOthers

LEMMA VersionTruncate ==
  ASSUME TypeOK, VersionInv, Truncate
  PROVE  VersionInv'
<1>1. PICK i \in 1 .. Len(docs) : docs' = [docs EXCEPT ![i].len = 0]
  BY DEF Truncate
<1>2. UNCHANGED <<chunks, removed, uploads, file, reader>> /\ uploads \in Nat
  BY DEF Truncate, TypeOK
<1> DEFINE d == docs[i]
           e == [d EXCEPT !.len = 0]
<1>3. d \in Doc /\ Whole(d) /\ d # Absent /\ docs' = [docs EXCEPT ![i] = e]
  BY <1>1 DEF VersionInv, DocsInv, Sound
<1> HIDE DEF d
<1>4. e \in Doc /\ e.v = d.v /\ e.len = 0 /\ e.cs = d.cs
  BY <1>3 DEF Doc
<1> HIDE DEF e
<1>5. /\ Len(docs') = Len(docs)
      /\ \A j \in 1 .. Len(docs') : docs'[j] = IF j = i THEN e ELSE docs[j]
  BY <1>3, <1>4, ExceptSeq DEF TypeOK
<1>6. \A j \in 1 .. Len(docs') : docs'[j].v = docs[j].v
  BY <1>4, <1>5 DEF d
<1>7. Sound \subseteq Sound'
  BY <1>2, SoundStays DEF Storing
<1>8. e \in Sound' /\ e # Absent
  <2>1. d.v \in 1 .. uploads /\ d.cs \in Nat \ {0} /\ d.v \in Nat
    BY <1>3, ConstantsAssumption DEF Whole, Doc
  <2>2. ChunksOf(e.v, e.len, e.cs) = {}
    BY <1>4, <2>1, NoChunks
  <2>3. e # Absent /\ 0 <= MaxLength
    BY <1>4, <2>1, ConstantsAssumption DEF Absent
  <2> QED BY <1>2, <1>3, <1>4, <2>1, <2>2, <2>3 DEF Sound, Whole, Storing
<1>9. DocsInv'
  <2>1. \A j \in 1 .. Len(docs') :
          docs'[j] \in Sound' /\ docs'[j] # Absent /\ docs'[j].v \notin removed'
    BY <1>2, <1>5, <1>6, <1>7, <1>8 DEF VersionInv, DocsInv
  <2> QED BY <1>2, <1>5, <1>6, <2>1 DEF VersionInv, DocsInv
<1>10. \A h \in Handle : Storing(h) =>
         LET v == file[h].stored.v IN
           /\ v \notin removed'
           /\ \A j \in 1 .. Len(docs') : docs'[j].v # v
           /\ \A c \in chunks : c.v = v => c \in chunks'
  BY <1>2, <1>5, <1>6 DEF VersionInv, StoreInv, Storing
<1> QED BY <1>2, <1>7, <1>9, <1>10, VersionOthers

\* VersionInv is inductive.
LEMMA VersionStep ==
  ASSUME TypeOK, VersionInv, [Next]_vars
  PROVE  VersionInv'
<1>1. CASE \E h \in Handle : HandlerStep(h)
  <2>1. PICK h \in Handle : HandlerStep(h)
    BY <1>1
  <2>2. CASE StoreLost(h) \/ \E size \in 1 .. MaxLength : WriteLost(h, size)
    BY <2>2, VersionDies DEF StoreLost, WriteLost
  <2> QED BY <2>1, <2>2, VersionQuietHandle, VersionReleaseChanged,
             VersionStoreChunk, VersionStoreFile DEF HandlerStep
<1>2. CASE \E r \in Reader, h \in Handle, off \in 0 .. MaxLength,
              size \in 1 .. MaxLength : Read(r, h, off, size)
  BY <1>2, VersionReader
<1>3. CASE \E r \in Reader : ReaderStep(r)
  BY <1>3, VersionReader
<1>4. CASE Others
  BY <1>4, VersionUpload, VersionUnlinkFile, VersionUnlinkChunks, VersionTruncate
     DEF Others
<1>5. CASE Crash
  BY <1>5, VersionDies DEF Crash
<1>6. CASE UNCHANGED vars
  BY <1>6, Quiet, SameIsQuiet DEF vars, VersionInv, LoadedInv
<1> QED BY <1>1, <1>2, <1>3, <1>4, <1>5, <1>6 DEF Next

LEMMA VersionInit ==
  ASSUME Init
  PROVE  TypeOK /\ VersionInv
<1>1. TypeOK
  <2>1. /\ reader \in [Reader -> Request] /\ \A r \in Reader : reader[r].pc = "idle"
        /\ file \in [Handle -> File \cup {None}] /\ \A h \in Handle : file[h] = None
    BY NoReadType DEF Init, NoRead
  <2>2. docs \in Seq(Doc)
    BY EmptySeq DEF Init
  <2> QED BY <2>1, <2>2 DEF Init, TypeOK, ReaderOK, FileOK
<1>2. DocsInv
  <2>1. 0 <= MaxVersions /\ 1 .. Len(docs) = {}
    BY EmptySeq, ConstantsAssumption DEF Init
  <2> QED BY <2>1 DEF Init, DocsInv
<1>3. (\A h \in Handle : StoreInv(h)) /\ LoadedInv
  BY DEF Init, StoreInv, LoadedInv, NoRead
<1> QED BY <1>1, <1>2, <1>3 DEF VersionInv

\* A version that can be found has all of its chunks, whatever the uploads,
\* removals, truncations, failures and crashes before (File::store, GridFS).
THEOREM Complete == Spec => []PublishedIsComplete
<1>1. Init => TypeOK /\ VersionInv
  BY VersionInit
<1>2. TypeOK /\ VersionInv /\ [Next]_vars => TypeOK' /\ VersionInv'
  BY TypeStep, VersionStep
<1>3. VersionInv => PublishedIsComplete
  BY DEF VersionInv, DocsInv, Sound, Whole, PublishedIsComplete
<1> QED BY <1>1, <1>2, <1>3, PTL DEF Spec

-----------------------------------------------------------------------------
(* Reads: the inductive invariant *)

\* The chunk size of a handle is that of its document, unless a write came first.
\* Length and cached chunk are those of its document, unless that was replaced.
HandleInv(h) ==
  LET f == file[h]
      d == f.theGridFile IN
    f # None =>
      /\ \/ f.theChunkSize = 0
         \/ f.reloaded
         \/ d # None /\ f.theChunkSize = d.cs
         \/ "write" \in Ops /\ f.theChunkSize = ConfigChunk
      /\ f.theFileLength # 0 /\ ~f.reloaded => d # None /\ f.theFileLength = d.len
      /\ f.theCachedChunkN # -1 /\ ~f.reloaded =>
           /\ d # None /\ d.len # 0
           /\ f.theCachedChunk = ChunkOf(d.v, f.theCachedChunkN, d.len, d.cs)

\* In the loop, answered, and answered because a chunk was not found.
Looping(q) == q.pc \in {"lock", "fetch", "copy"}
Answered(q) == q.pc = "done" /\ q.result = "ok"
Missing(q) == q.pc = "done" /\ q.result = "gone"

\* Where a read of file f has got to: it has collected the bytes of the document
\* from its offset on, if it cuts the file into the chunks it was stored in.
Collected(q, f) ==
  LET d == f.theGridFile
      bytes == Len(q.out) IN
    /\ Looping(q) =>
         /\ f.theFileLength # 0 /\ bytes < q.size /\ q.off + bytes < d.len
         /\ f.theChunkSize = d.cs => q.out = Slice(d, q.off, bytes)
    /\ Answered(q) =>
         /\ d # None
         /\ f.theChunkSize = d.cs \/ d.len = 0 => q.out = Slice(d, q.off, q.size)

ReaderInv(r) ==
  LET q == reader[r]
      f == file[q.h]
      d == f.theGridFile IN
    q.pc # "idle" =>
      /\ q.pc \in {"chunksize", "length", "reset"} => q.out = <<>>
      /\ ~f.reloaded =>
           /\ q.pc = "length" \/ Looping(q) \/ Answered(q) \/ Missing(q) =>
                f.theChunkSize # 0 \/ (d # None /\ d.cs = 0)
           /\ Collected(q, f)
           /\ Missing(q) => /\ d # None /\ d.len # 0
                            /\ f.theChunkSize = d.cs => d.v \in removed

ReadInv == (\A h \in Handle : HandleInv(h)) /\ (\A r \in Reader : ReaderInv(r))

Bytes == (Nat \X Nat) \cup {Garbage}

LEMMA SliceType ==
  ASSUME NEW d \in Doc, NEW off \in Nat, NEW m \in Nat, off + m <= d.len
  PROVE  /\ Slice(d, off, m) \in Seq(Bytes) /\ Len(Slice(d, off, m)) = m
         /\ \A i \in 1 .. m : Slice(d, off, m)[i] = <<d.v, off + i - 1>>
<1> DEFINE byte(i) == <<d.v, off + i - 1>>
<1>1. Smaller(off + m, d.len) - off = m
  BY DEF Doc, Smaller
<1>2. Slice(d, off, m) = [i \in 1 .. m |-> byte(i)]
  BY <1>1 DEF Slice
<1>3. \A i \in 1 .. m : byte(i) \in Bytes
  BY DEF Doc, Bytes
<1>4. [i \in 1 .. m |-> byte(i)] \in Seq(Bytes)
  <2> HIDE DEF byte
  <2> QED BY <1>3, IsASeq
<1>5. /\ Len([i \in 1 .. m |-> byte(i)]) = m
      /\ \A i \in 1 .. m : [j \in 1 .. m |-> byte(j)][i] = byte(i)
  <2> HIDE DEF byte
  <2> DEFINE t == [i \in 1 .. m |-> byte(i)]
  <2>1. DOMAIN t = 1 .. m /\ \A i \in 1 .. m : t[i] = byte(i)
    OBVIOUS
  <2>2. t \in Seq(Bytes)
    BY <1>4
  <2> HIDE DEF t
  <2>3. Len(t) \in Nat /\ DOMAIN t = 1 .. Len(t)
    BY <2>2, LenProperties
  <2>4. Len(t) = m
    BY <2>1, <2>3
  <2> QED BY <2>1, <2>4 DEF t
<1> QED BY <1>2, <1>4, <1>5

\* Past its end there is nothing in a document.
LEMMA SliceCut ==
  ASSUME NEW d \in Doc, NEW off \in Nat, NEW size \in Nat, NEW m \in Nat,
         \/ off + m = d.len /\ m <= size
         \/ m = size
         \/ m = 0 /\ off >= d.len
  PROVE  Slice(d, off, size) = Slice(d, off, m)
<1>1. CASE off >= d.len
  <2>1. 1 .. Smaller(off + size, d.len) - off = {}
    BY <1>1 DEF Smaller, Doc
  <2>2. 1 .. Smaller(off + m, d.len) - off = {}
    BY <1>1 DEF Smaller, Doc
  <2> QED BY <2>1, <2>2 DEF Slice
<1>2. CASE ~ (off >= d.len)
  <2>1. Smaller(off + size, d.len) = Smaller(off + m, d.len)
    BY <1>2 DEF Smaller, Doc
  <2> QED BY <2>1 DEF Slice
<1> QED BY <1>1, <1>2

\* t is the bytes of document d from some byte on.
Continues(t, d, from) ==
  t \in Seq(Bytes) /\ \A i \in 1 .. Len(t) : t[i] = <<d.v, from + i - 1>>

Extends(d, off, m, t, n) == Slice(d, off, m) \o t = Slice(d, off, n)

LEMMA SliceGrows ==
  ASSUME NEW d \in Doc, NEW off \in Nat, NEW m \in Nat, NEW t,
         NEW p \in Nat, p = off + m, Continues(t, d, p),
         NEW n \in Nat, n = m + Len(t), off + n <= d.len
  PROVE  Extends(d, off, m, t, n)
<1> DEFINE k == Len(t)
<1>0. /\ k \in Nat /\ t \in Seq(Bytes) /\ k = Len(t) /\ n = m + k /\ off + m + k <= d.len
      /\ \A i \in 1 .. k : t[i] = <<d.v, off + m + i - 1>>
  <2>1. t \in Seq(Bytes) /\ \A i \in 1 .. k : t[i] = <<d.v, p + i - 1>>
    BY DEF Continues
  <2>2. k \in Nat
    BY <2>1, LenProperties
  <2>3. d.len \in Nat
    BY DEF Doc
  <2> HIDE DEF k
  <2>4. n = m + k
    BY DEF k
  <2> QED BY <2>1, <2>2, <2>3, <2>4 DEF k
<1> HIDE DEF k
<1> DEFINE a == Slice(d, off, m)
           b == Slice(d, off, m + k)
<1>1. d.len \in Nat /\ off + m <= d.len /\ m + k \in Nat /\ off + (m + k) <= d.len
  BY <1>0 DEF Doc
<1>2. a \in Seq(Bytes) /\ Len(a) = m /\ \A i \in 1 .. m : a[i] = <<d.v, off + i - 1>>
  BY <1>1, SliceType
<1>3. /\ b \in Seq(Bytes) /\ Len(b) = m + k
      /\ \A i \in 1 .. m + k : b[i] = <<d.v, off + i - 1>>
  BY <1>1, SliceType
<1> HIDE DEF a, b
<1>4. /\ a \o t \in Seq(Bytes) /\ Len(a \o t) = m + k
      /\ \A i \in 1 .. m + k : (a \o t)[i] = IF i <= m THEN a[i] ELSE t[i - m]
  BY <1>0, <1>2, ConcatProperties
<1>5. ASSUME NEW i \in 1 .. m + k PROVE (a \o t)[i] = b[i]
  <2>1. CASE i <= m
    <3>1. i \in 1 .. m /\ (a \o t)[i] = a[i]
      BY <1>0, <1>1, <1>4, <2>1
    <3> QED BY <1>2, <1>3, <3>1
  <2>2. CASE ~ (i <= m)
    <3>1. i - m \in 1 .. k /\ off + m + (i - m) - 1 = off + i - 1
      BY <1>0, <2>2
    <3> QED BY <1>0, <1>3, <1>4, <2>2, <3>1
  <2> QED BY <2>1, <2>2
<1>6. a \o t = b
  BY <1>3, <1>4, <1>5, SeqEqual
<1> QED BY <1>0, <1>6 DEF a, b, k, Extends

\* What may become of a File f while a read of it is on its way.
Follows(x, f) ==
  /\ f.reloaded => x.reloaded
  /\ f.theChunkSize \in {0, x.theChunkSize}
  /\ f.theFileLength \in {0, x.theFileLength}
  /\ f.theGridFile \in {None, x.theGridFile} \/ x.reloaded

LEMMA Unnoticed ==
  ASSUME TypeOK, ReadInv, NEW s \in Reader, reader'[s] = reader[s],
         reader[s].pc # "idle" => Follows(file'[reader[s].h], file[reader[s].h]),
         removed \subseteq removed'
  PROVE  ReaderInv(s)'
<1> DEFINE q == reader[s]
           f == file[q.h]
           x == file'[q.h]
           d == f.theGridFile
<1>1. CASE q.pc = "idle"
  BY <1>1 DEF ReaderInv
<1>2. CASE q.pc # "idle"
  <2>1. /\ q.h \in Handle /\ f # None /\ HandleInv(q.h) /\ ReaderInv(s)
        /\ Follows(x, f)
    BY <1>2 DEF TypeOK, ReaderOK, ReadInv
  <2>2. CASE x.reloaded
    BY <1>2, <2>1, <2>2 DEF ReaderInv
  <2>3. CASE ~x.reloaded
    <3>1. /\ ~f.reloaded /\ (d # None => x.theGridFile = d)
          /\ f.theChunkSize \in {0, x.theChunkSize}
          /\ f.theFileLength \in {0, x.theFileLength}
      BY <2>1, <2>3 DEF Follows
    <3>2. /\ q.pc = "length" \/ Looping(q) \/ Answered(q) \/ Missing(q) =>
               f.theChunkSize # 0 \/ (d # None /\ d.cs = 0)
          /\ Collected(q, f)
          /\ Missing(q) => /\ d # None /\ d.len # 0
                           /\ f.theChunkSize = d.cs => d.v \in removed
          /\ q.pc \in {"chunksize", "length", "reset"} => q.out = <<>>
      BY <1>2, <2>1, <3>1 DEF ReaderInv
    <3>3. Looping(q) => d # None
      BY <2>1, <3>1, <3>2 DEF HandleInv, Collected
    <3>4. (Looping(q) \/ Answered(q) \/ Missing(q)) /\ x.theChunkSize = d.cs
             => f.theChunkSize = d.cs
      BY <3>1, <3>2
    <3>5. Collected(q, x)
      BY <3>1, <3>2, <3>3, <3>4 DEF Collected
    <3> HIDE DEF q, f, x, d
    <3>6. /\ q.pc \in {"chunksize", "length", "reset"} => q.out = <<>>
          /\ q.pc = "length" \/ Looping(q) \/ Answered(q) \/ Missing(q) =>
               x.theChunkSize # 0 \/ (x.theGridFile # None /\ x.theGridFile.cs = 0)
          /\ Missing(q) => /\ x.theGridFile # None /\ x.theGridFile.len # 0
                           /\ x.theChunkSize = x.theGridFile.cs => x.theGridFile.v \in removed'
      BY <3>1, <3>2, <3>4
    <3> QED BY <3>5, <3>6 DEF ReaderInv, q, x
  <2> QED BY <2>2, <2>3
<1> QED BY <1>1, <1>2

\* A step of one handle.
LEMMA ReadsHandle ==
  ASSUME TypeOK, ReadInv, NEW h \in Handle, reader' = reader, removed \subseteq removed',
         \A g \in Handle \ {h} : file'[g] = file[g],
         \/ \A r \in Reader : reader[r].pc # "idle" => reader[r].h # h
         \/ Follows(file'[h], file[h]),
         HandleInv(h)'
  PROVE  ReadInv'
<1>1. ASSUME NEW g \in Handle PROVE HandleInv(g)'
  <2>1. ASSUME g # h PROVE HandleInv(g)'
    <3>1. HandleInv(g) /\ file'[g] = file[g]
      BY <2>1 DEF ReadInv
    <3> QED BY <3>1 DEF HandleInv
  <2> QED BY <2>1
<1>2. ASSUME NEW s \in Reader PROVE ReaderInv(s)'
  <2>1. ASSUME reader[s].pc # "idle"
        PROVE  Follows(file'[reader[s].h], file[reader[s].h])
    <3>1. reader[s].h \in Handle
      BY <2>1 DEF TypeOK, ReaderOK
    <3> QED BY <2>1, <3>1 DEF Follows
  <2> QED BY <2>1, Unnoticed
<1> QED BY <1>1, <1>2 DEF ReadInv

\* A step of one read.
LEMMA ReadsReader ==
  ASSUME TypeOK, ReadInv, NEW r \in Reader, Served(r), NEW h \in Handle,
         h = reader[r].h, Follows(file'[h], file[h]), HandleInv(h)', ReaderInv(r)'
  PROVE  ReadInv'
<1>1. /\ \A g \in Handle \ {h} : file'[g] = file[g]
      /\ \A s \in Reader \ {r} : reader'[s] = reader[s]
      /\ removed' = removed
  BY DEF Served, TypeOK
<1>2. ASSUME NEW g \in Handle PROVE HandleInv(g)'
  <2>1. ASSUME g # h PROVE HandleInv(g)'
    <3>1. HandleInv(g) /\ file'[g] = file[g]
      BY <1>1, <2>1 DEF ReadInv
    <3> QED BY <3>1 DEF HandleInv
  <2> QED BY <2>1
<1>3. ASSUME NEW s \in Reader PROVE ReaderInv(s)'
  <2>1. ASSUME reader[s].pc # "idle"
        PROVE  Follows(file'[reader[s].h], file[reader[s].h])
    <3>1. reader[s].h \in Handle
      BY <2>1 DEF TypeOK, ReaderOK
    <3> QED BY <1>1, <3>1 DEF Follows
  <2> QED BY <1>1, <2>1, Unnoticed
<1> QED BY <1>2, <1>3 DEF ReadInv

\* A step of no handle and no read.
LEMMA ReadsElsewhere ==
  ASSUME TypeOK, ReadInv, UNCHANGED <<file, reader>>, removed \subseteq removed'
  PROVE  ReadInv'
<1>1. ASSUME NEW g \in Handle PROVE HandleInv(g)'
  BY DEF ReadInv, HandleInv
<1>2. ASSUME NEW s \in Reader PROVE ReaderInv(s)'
  BY Unnoticed DEF Follows
<1> QED BY <1>1, <1>2 DEF ReadInv

LEMMA ReadsDie ==
  ASSUME Die
  PROVE  ReadInv'
BY DEF Die, ReadInv, HandleInv, ReaderInv, NoRead

\* The handle is not read from.
Unread(h) == \A r \in Reader : reader[r].pc # "idle" => reader[r].h # h

LEMMA ReadsOpen ==
  ASSUME TypeOK, ReadInv, NEW h \in Handle,
         \/ Open(h) \/ Create(h) \/ Release(h) \/ StoreFile(h) \/ StoreThrows(h)
  PROVE  ReadInv'
<1>1. UNCHANGED <<reader, removed>> /\ Unread(h)
  BY DEF Open, Create, Release, Unused, StoreFile, StoreThrows, Storing, TypeOK,
         ReaderOK, Unread
<1>2. \/ file' = [file EXCEPT ![h] = None]
      \/ file' = [file EXCEPT ![h] = Creating]
      \/ \E d \in {FindFile, None} : file' = [file EXCEPT ![h] = NewFile(d)]
  BY DEF Open, Create, Creating, Release, StoreFile, StoreThrows
<1>3. /\ \A g \in Handle \ {h} : file'[g] = file[g]
      /\ file'[h] \in {Creating, None} \/ \E d \in {FindFile, None} : file'[h] = NewFile(d)
  BY <1>2 DEF TypeOK
<1>4. HandleInv(h)'
  <2>1. CASE file'[h] = Creating
    BY <2>1, CreatingType DEF TypeOK, HandleInv
  <2>2. CASE file'[h] = None
    BY <2>2 DEF HandleInv
  <2>3. CASE \E d \in {FindFile, None} : file'[h] = NewFile(d)
    BY <2>3 DEF HandleInv, NewFile
  <2> QED BY <1>3, <2>1, <2>2, <2>3
<1> QED BY <1>1, <1>3, <1>4, ReadsHandle DEF Unread

LEMMA ReadsWrite ==
  ASSUME TypeOK, ReadInv, NEW h \in Handle, Written(h)
  PROVE  ReadInv'
<1> DEFINE f == file[h]
           x == file'[h]
<1>1. /\ UNCHANGED <<reader, removed>> /\ \A g \in Handle \ {h} : file'[g] = file[g]
      /\ f # None /\ x.theGridFile = f.theGridFile /\ x.reloaded = f.reloaded
      /\ x.theFileLength = f.theFileLength /\ SameCache(x, f)
      /\ "write" \in Ops
      /\ x.theChunkSize = IF f.theChunkSize = 0 THEN ConfigChunk ELSE f.theChunkSize
  BY DEF Written, TypeOK, SameCache, WriteChunk
<1>2. HandleInv(h)
  BY DEF ReadInv
<1>3. HandleInv(h)'
  BY <1>1, <1>2 DEF HandleInv, SameCache
<1>4. Follows(x, f)
  BY <1>1 DEF Follows
<1> QED BY <1>1, <1>3, <1>4, ReadsHandle

LEMMA ReadsStore ==
  ASSUME TypeOK, ReadInv, NEW h \in Handle, ReleaseChanged(h) \/ StoreChunk(h)
  PROVE  ReadInv'
<1> DEFINE f == file[h]
<1>1. UNCHANGED <<reader, removed>> /\ Unread(h) /\ f \in File /\ f # None
  BY DEF ReleaseChanged, Unused, StoreChunk, Storing, TypeOK, ReaderOK, Unread
<1>2. PICK x :
        /\ file' = [file EXCEPT ![h] = x] /\ SameSizes(x, f) /\ SameCache(x, f)
        /\ x.reloaded = f.reloaded /\ (f.theGridFile # None => x.theGridFile = f.theGridFile)
  <2>1. CASE ReleaseChanged(h)
    <3> DEFINE s == [v |-> uploads + 1, n |-> 0]
               d == IF f.theGridFile = None THEN FindFile ELSE f.theGridFile
               x == [f EXCEPT !.stored = s, !.theGridFile = d]
    <3>1. file' = [file EXCEPT ![h] = x]
      BY <2>1 DEF ReleaseChanged
    <3>2. f.theGridFile # None => d = f.theGridFile
      OBVIOUS
    <3> HIDE DEF f, s, d
    <3>3. /\ x.theFileLength = f.theFileLength /\ x.theChunkSize = f.theChunkSize
          /\ x.theCachedChunkN = f.theCachedChunkN
          /\ x.theCachedChunk = f.theCachedChunk
          /\ x.reloaded = f.reloaded /\ x.theGridFile = d
      BY <1>1 DEF File
    <3> QED BY <3>1, <3>2, <3>3 DEF SameSizes, SameCache
  <2>2. CASE StoreChunk(h)
    <3> DEFINE s == [f.stored EXCEPT !.n = f.stored.n + 1]
               x == [f EXCEPT !.stored = s]
    <3>1. file' = [file EXCEPT ![h] = x]
      BY <2>2 DEF StoreChunk
    <3> HIDE DEF f, s
    <3>2. /\ x.theFileLength = f.theFileLength /\ x.theChunkSize = f.theChunkSize
          /\ x.theCachedChunkN = f.theCachedChunkN
          /\ x.theCachedChunk = f.theCachedChunk
          /\ x.reloaded = f.reloaded /\ x.theGridFile = f.theGridFile
      BY <1>1 DEF File
    <3> QED BY <3>1, <3>2 DEF SameSizes, SameCache
  <2> QED BY <2>1, <2>2
<1>3. file'[h] = x /\ \A g \in Handle \ {h} : file'[g] = file[g]
  BY <1>2 DEF TypeOK
<1>4. HandleInv(h)
  BY DEF ReadInv
<1>5. HandleInv(h)'
  BY <1>1, <1>2, <1>3, <1>4 DEF HandleInv, SameSizes, SameCache
<1> QED BY <1>1, <1>3, <1>5, ReadsHandle DEF Unread

LEMMA ReadsBegin ==
  ASSUME TypeOK, ReadInv, NEW r \in Reader, NEW h \in Handle, NEW off \in 0 .. MaxLength,
         NEW size \in 1 .. MaxLength, Read(r, h, off, size)
  PROVE  ReadInv'
<1> DEFINE b == [NoRead EXCEPT !.pc = "chunksize", !.h = h, !.off = off, !.size = size]
<1>1. reader' = [reader EXCEPT ![r] = b] /\ file' = file /\ removed' = removed
  BY DEF Read
<1>2. b.pc = "chunksize" /\ b.out = <<>>
  BY DEF NoRead
<1> HIDE DEF b
<1>3. reader'[r] = b /\ \A s \in Reader \ {r} : reader'[s] = reader[s]
  BY <1>1 DEF TypeOK
<1>4. ReaderInv(r)'
  BY <1>2, <1>3 DEF ReaderInv, Collected, Looping, Answered, Missing
<1>5. ASSUME NEW s \in Reader PROVE ReaderInv(s)'
  BY <1>1, <1>3, <1>4, Unnoticed DEF Follows
<1>6. ASSUME NEW g \in Handle PROVE HandleInv(g)'
  BY <1>1 DEF ReadInv, HandleInv
<1> QED BY <1>5, <1>6 DEF ReadInv

LEMMA ReadsReply ==
  ASSUME TypeOK, ReadInv, NEW r \in Reader, Reply(r)
  PROVE  ReadInv'
<1>1. reader' = [reader EXCEPT ![r] = NoRead] /\ file' = file /\ removed' = removed
  BY DEF Reply
<1>2. reader'[r] = NoRead /\ \A s \in Reader \ {r} : reader'[s] = reader[s]
  BY <1>1 DEF TypeOK
<1>3. ReaderInv(r)'
  BY <1>2 DEF ReaderInv, NoRead
<1>4. ASSUME NEW s \in Reader PROVE ReaderInv(s)'
  BY <1>1, <1>2, <1>3, Unnoticed DEF Follows
<1>5. ASSUME NEW g \in Handle PROVE HandleInv(g)'
  BY <1>1 DEF ReadInv, HandleInv
<1> QED BY <1>4, <1>5 DEF ReadInv

\* The document is loaded, and the numbers are taken from it.
LEMMA ReadsLoad ==
  ASSUME TypeOK, ReadInv, NEW r \in Reader,
         Gridfile(r) \/ Reset(r) \/ ChunkSize(r)
  PROVE  ReadInv'
<1> DEFINE q == reader[r]
           f == file[q.h]
           x == file'[q.h]
           y == reader'[r]
<1>1. /\ q.h \in Handle /\ f # None /\ HandleInv(q.h) /\ ReaderInv(r)
      /\ q.pc \in {"chunksize", "length", "reset"} /\ q.out = <<>>
  BY DEF TypeOK, ReaderOK, ReadInv, Gridfile, Reset, ChunkSize, ReaderInv
<1>2. PICK h \in Handle : h = q.h
  BY <1>1
<1>3. CASE Gridfile(r)
  <2>1. /\ Served(r) /\ file' = file /\ y.h = q.h /\ y.out = <<>>
        /\ y.pc = "reset" \/ (y.pc = "done" /\ y.result = "error")
    BY <1>1, <1>3, GridfileEffect DEF Served
  <2>2. HandleInv(h)' /\ Follows(x, f)
    BY <1>1, <1>2, <2>1 DEF HandleInv, Follows
  <2>3. ReaderInv(r)'
    BY <2>1 DEF ReaderInv, Collected, Looping, Answered, Missing
  <2> QED BY <1>2, <2>1, <2>2, <2>3, ReadsReader
<1>4. CASE Reset(r)
  <2>1. /\ Served(r) /\ SameSizes(x, f) /\ SameCache(x, f)
        /\ x.theGridFile = q.found
        /\ x.reloaded = (f.reloaded \/ f.theGridFile # None)
        /\ y.pc = "chunksize" /\ y.out = <<>> /\ y.h = q.h
    BY <1>1, <1>4, ResetEffect DEF Served
  <2>2. f.reloaded \in BOOLEAN
    BY <1>1 DEF TypeOK, File
  <2>3. HandleInv(h)'
    BY <1>1, <1>2, <2>1, <2>2 DEF HandleInv, SameSizes, SameCache
  <2>4. Follows(x, f)
    BY <2>1, <2>2 DEF Follows, SameSizes
  <2>5. ReaderInv(r)'
    BY <2>1 DEF ReaderInv, Collected, Looping, Answered, Missing
  <2> QED BY <1>2, <2>1, <2>3, <2>4, <2>5, ReadsReader
<1>5. CASE ChunkSize(r)
  <2>1. /\ Served(r) /\ SameDocument(x, f) /\ SameCache(x, f)
        /\ x.theFileLength = f.theFileLength
        /\ f.theChunkSize # 0 \/ f.theGridFile # None
        /\ x.theChunkSize = IF f.theChunkSize = 0 THEN f.theGridFile.cs
                            ELSE f.theChunkSize
        /\ y.pc = "length" /\ y.out = <<>> /\ y.h = q.h
    BY <1>1, <1>5, ChunkSizeEffect DEF Served
  <2>2. HandleInv(h)'
    BY <1>1, <1>2, <2>1 DEF HandleInv, SameDocument, SameCache
  <2>3. Follows(x, f)
    BY <2>1 DEF Follows, SameDocument
  <2>4. ReaderInv(r)'
    <3>1. x.theChunkSize # 0 \/ (x.theGridFile # None /\ x.theGridFile.cs = 0)
      BY <2>1 DEF SameDocument
    <3> QED BY <2>1, <3>1 DEF ReaderInv, Collected, Looping, Answered, Missing
  <2> QED BY <1>2, <2>1, <2>2, <2>3, <2>4, ReadsReader
<1> QED BY <1>3, <1>4, <1>5

LEMMA SliceEmpty ==
  ASSUME NEW d \in Doc, NEW off \in Nat
  PROVE  Slice(d, off, 0) = <<>>
<1>1. 1 .. Smaller(off + 0, d.len) - off = 1 .. 0
  BY DEF Doc, Smaller
<1>2. Slice(d, off, 0) = [i \in 1 .. 0 |-> <<d.v, off + i - 1>>]
  BY <1>1 DEF Slice
<1> DEFINE t == [i \in 1 .. 0 |-> <<d.v, off + i - 1>>]
<1>3. t \in Seq(Bytes) /\ DOMAIN t = 1 .. 0
  BY IsASeq
<1> HIDE DEF t
<1>4. Len(t) = 0
  BY <1>3, LenProperties
<1> QED BY <1>2, <1>3, <1>4, EmptySeq DEF t

\* The loaded document of a File that reads go by.
LEMMA LoadedDocument ==
  ASSUME TypeOK, VersionInv, ReadInv, NEW h \in Handle, file[h] # None,
         ~file[h].reloaded, file[h].theFileLength # 0
  PROVE  LET d == file[h].theGridFile IN
           /\ d \in Doc /\ d # None /\ Whole(d) /\ d # Absent
           /\ d.len # 0 /\ file[h].theFileLength = d.len /\ d.cs \in Nat \ {0}
<1> DEFINE f == file[h]
           d == f.theGridFile
<1>1. HandleInv(h) /\ f \in File /\ d \in Sound \cup {None}
  BY DEF ReadInv, TypeOK, VersionInv, LoadedInv
<1>2. d # None /\ f.theFileLength = d.len
  BY <1>1 DEF HandleInv
<1>3. d \in Doc /\ Whole(d) /\ d # Absent
  BY <1>1, <1>2 DEF Sound, Absent
<1>4. d.cs \in Nat \ {0}
  BY <1>3, ConstantsAssumption DEF Whole
<1> QED BY <1>2, <1>3, <1>4

\* The loop begins.
LEMMA ReadsLength ==
  ASSUME TypeOK, VersionInv, ReadInv, NEW r \in Reader, FileLength(r)
  PROVE  ReadInv'
<1> DEFINE q == reader[r]
           f == file[q.h]
           d == f.theGridFile
           x == file'[q.h]
           y == reader'[r]
<1>1. /\ q.h \in Handle /\ f # None /\ HandleInv(q.h) /\ ReaderInv(r)
      /\ q.pc = "length" /\ q.out = <<>> /\ f \in File
      /\ q.off \in Nat /\ q.size \in Nat
  BY DEF TypeOK, ReaderOK, ReadInv, FileLength, ReaderInv, Request
<1>2. PICK h \in Handle : h = q.h
  BY <1>1
<1>3. /\ Served(r) /\ SameDocument(x, f) /\ SameCache(x, f)
      /\ x.theChunkSize = f.theChunkSize
      /\ f.theFileLength # 0 \/ d # None
      /\ x.theFileLength = IF f.theFileLength = 0 THEN d.len ELSE f.theFileLength
      /\ y.out = <<>> /\ y.h = q.h /\ y.off = q.off /\ y.size = q.size
      /\ More(q, <<>>, x.theFileLength) => y.pc = "lock"
      /\ ~ More(q, <<>>, x.theFileLength) => y.pc = "done" /\ y.result = "ok"
  BY <1>1, FileLengthEffect DEF Served
<1>4. HandleInv(h)' /\ Follows(x, f)
  BY <1>1, <1>2, <1>3 DEF HandleInv, SameDocument, SameCache, Follows
<1>5. ASSUME ~x.reloaded
      PROVE  /\ d # None /\ d \in Doc /\ x.theFileLength = d.len /\ x.theGridFile = d
             /\ x.theChunkSize # 0 \/ d.cs = 0
  BY <1>1, <1>3, <1>5 DEF HandleInv, ReaderInv, SameDocument, File
<1>6. ASSUME ~x.reloaded PROVE Collected(y, x)
  <2>1. Len(<<>>) = 0 /\ d.len \in Nat
    BY <1>5, <1>6, EmptySeq DEF Doc
  <2>2. CASE More(q, <<>>, d.len)
    <3>1. 0 < q.size /\ q.off + 0 < d.len
      BY <1>1, <2>1, <2>2 DEF More
    <3>2. Slice(d, q.off, 0) = <<>>
      BY <1>1, <1>5, <1>6, SliceEmpty
    <3>3. y.pc = "lock" /\ y.out = <<>>
      BY <1>3, <1>5, <1>6, <2>2
    <3> QED BY <1>1, <1>3, <1>5, <1>6, <2>1, <3>1, <3>2, <3>3
            DEF Collected, Looping, Answered
  <2>3. CASE ~ More(q, <<>>, d.len)
    <3>1. q.size = 0 \/ q.off >= d.len
      BY <1>1, <2>1, <2>3 DEF More
    <3>2. Slice(d, q.off, q.size) = <<>>
      BY <1>1, <1>5, <1>6, <3>1, SliceCut, SliceEmpty
    <3> QED BY <1>1, <1>3, <1>5, <1>6, <2>1, <2>3, <3>1, <3>2
            DEF Collected, Looping, Answered
  <2> QED BY <2>2, <2>3
<1>7. ReaderInv(r)'
  <2>1. y.pc \in {"lock", "done"} /\ (y.pc = "done" => y.result = "ok")
    BY <1>3
  <2> HIDE DEF x, y, f, d
  <2>2. ~x.reloaded => x.theChunkSize # 0 \/ (x.theGridFile # None /\ x.theGridFile.cs = 0)
    BY <1>5
  <2> QED BY <1>3, <1>6, <2>1, <2>2 DEF ReaderInv, Missing, x, y
<1> QED BY <1>2, <1>3, <1>4, <1>7, ReadsReader

\* What a step that fetches or copies a chunk starts from.
LEMMA LoopState ==
  ASSUME TypeOK, VersionInv, ReadInv, NEW r \in Reader, Looping(reader[r])
  PROVE  LET q == reader[r]
             f == file[q.h]
             d == f.theGridFile IN
           /\ q.h \in Handle /\ f # None /\ f \in File /\ HandleInv(q.h)
           /\ q.off \in Nat /\ q.size \in Nat /\ Len(q.out) \in Nat
           /\ ~f.reloaded =>
                /\ d \in Doc /\ d # None /\ Whole(d) /\ d # Absent
                /\ d.len # 0 /\ f.theFileLength = d.len /\ d.cs \in Nat \ {0}
                /\ f.theChunkSize # 0 /\ Len(q.out) < q.size
                /\ q.off + Len(q.out) < d.len
                /\ f.theChunkSize = d.cs => q.out = Slice(d, q.off, Len(q.out))
<1> DEFINE q == reader[r]
           f == file[q.h]
           d == f.theGridFile
<1>1. /\ q.h \in Handle /\ f # None /\ f \in File /\ HandleInv(q.h)
      /\ q \in Request /\ q.pc # "idle" /\ ReaderInv(r)
  BY DEF TypeOK, ReaderOK, ReadInv, Looping
<1>2. q.off \in Nat /\ q.size \in Nat /\ Len(q.out) \in Nat
  BY <1>1, LenProperties DEF Request
<1>3. ASSUME ~f.reloaded
      PROVE  /\ f.theChunkSize # 0 \/ d.cs = 0
             /\ f.theFileLength # 0
             /\ Len(q.out) < q.size /\ q.off + Len(q.out) < d.len
             /\ f.theChunkSize = d.cs => q.out = Slice(d, q.off, Len(q.out))
  BY <1>1, <1>3 DEF ReaderInv, Collected
<1>4. ASSUME ~f.reloaded
      PROVE  /\ d \in Doc /\ d # None /\ Whole(d) /\ d # Absent
             /\ d.len # 0 /\ f.theFileLength = d.len /\ d.cs \in Nat \ {0}
  <2>1. f.theFileLength # 0
    BY <1>1, <1>4 DEF ReaderInv, Collected
  <2> QED BY <1>1, <1>4, <2>1, LoadedDocument
<1> HIDE DEF q, f, d
<1> QED BY <1>1, <1>2, <1>3, <1>4 DEF q, f, d

\* The mutex is taken.
LEMMA ReadsLock ==
  ASSUME TypeOK, VersionInv, ReadInv, NEW r \in Reader, Lock(r)
  PROVE  ReadInv'
<1> DEFINE q == reader[r]
           f == file[q.h]
           x == file'[q.h]
           y == reader'[r]
<1>1. /\ q.h \in Handle /\ f # None /\ HandleInv(q.h) /\ ReaderInv(r) /\ q.pc = "lock"
  BY DEF TypeOK, ReaderOK, ReadInv, Lock
<1>2. PICK h \in Handle : h = q.h
  BY <1>1
<1>3. /\ Served(r) /\ SameDocument(x, f) /\ SameCache(x, f) /\ SameSizes(x, f)
      /\ y.pc = "fetch" /\ y.out = q.out
      /\ y.h = q.h /\ y.off = q.off /\ y.size = q.size
  BY LockEffect DEF Served
<1>4. HandleInv(h)' /\ Follows(x, f)
  BY <1>1, <1>2, <1>3 DEF HandleInv, SameDocument, SameCache, SameSizes, Follows
<1>5. ReaderInv(r)'
  BY <1>1, <1>3 DEF ReaderInv, Collected, Looping, Answered, Missing, SameDocument,
                    SameSizes
<1> QED BY <1>2, <1>3, <1>4, <1>5, ReadsReader

\* The chunk that a reader looked for is the one of its document: all chunks of a
\* version have been cut as the document says.
LEMMA ReadsFetch ==
  ASSUME TypeOK, VersionInv, ReadInv, NEW r \in Reader, Fetch(r)
  PROVE  ReadInv'
<1> DEFINE q == reader[r]
           f == file[q.h]
           d == f.theGridFile
           x == file'[q.h]
           y == reader'[r]
<1>1. /\ q.h \in Handle /\ f # None /\ HandleInv(q.h) /\ ReaderInv(r)
      /\ q.pc = "fetch" /\ Looping(q)
  BY DEF TypeOK, ReaderOK, ReadInv, Fetch, Looping
<1>2. PICK h \in Handle : h = q.h
  BY <1>1
<1>3. /\ Served(r) /\ SameDocument(x, f) /\ SameSizes(x, f) /\ ChunkN(r) \in Nat
      /\ x.theCachedChunkN = ChunkN(r)
      /\ \/ f.theCachedChunkN = ChunkN(r) /\ x.theCachedChunk = f.theCachedChunk
         \/ x.theCachedChunk \in Stored(f, ChunkN(r))
      /\ y.pc = "copy" /\ y.out = q.out
      /\ y.h = q.h /\ y.off = q.off /\ y.size = q.size
  BY FetchEffect DEF Served
<1>4. HandleInv(h)'
  <2>1. ASSUME ~f.reloaded
        PROVE  /\ d # None /\ d.len # 0
               /\ x.theCachedChunk = ChunkOf(d.v, ChunkN(r), d.len, d.cs)
    <3>1. d # None /\ d # Absent /\ d.len # 0 /\ Whole(d)
      BY <1>1, <2>1, LoopState
    <3>2. CASE f.theCachedChunkN = ChunkN(r) /\ x.theCachedChunk = f.theCachedChunk
      BY <1>1, <1>3, <2>1, <3>1, <3>2 DEF HandleInv
    <3>3. CASE x.theCachedChunk \in Stored(f, ChunkN(r))
      BY <3>1, <3>3 DEF Stored, Whole, Fits
    <3> QED BY <1>3, <3>1, <3>2, <3>3
  <2>2. x # None /\ x.theGridFile = d /\ x.reloaded = f.reloaded
    BY <1>3 DEF SameDocument, Served
  <2>3. file'[h] = x
    BY <1>2
  <2> HIDE DEF x, q
  <2> QED BY <1>1, <1>2, <1>3, <2>1, <2>2, <2>3 DEF HandleInv, SameSizes
<1>5. Follows(x, f)
  BY <1>3 DEF SameDocument, SameSizes, Follows
<1>6. ReaderInv(r)'
  BY <1>1, <1>3 DEF ReaderInv, Collected, Looping, Answered, Missing, SameDocument,
                    SameSizes
<1> QED BY <1>2, <1>3, <1>4, <1>5, <1>6, ReadsReader

\* A chunk that is not there belongs to a version that was removed.
LEMMA ReadsThrow ==
  ASSUME TypeOK, VersionInv, ReadInv, NEW r \in Reader, FetchThrows(r)
  PROVE  ReadInv'
<1> DEFINE q == reader[r]
           f == file[q.h]
           d == f.theGridFile
           n == ChunkN(r)
           x == file'[q.h]
           y == reader'[r]
<1>1. /\ q.h \in Handle /\ f # None /\ HandleInv(q.h) /\ Looping(q)
      /\ q.pc # "idle"
  BY DEF TypeOK, ReaderOK, ReadInv, FetchThrows, Looping
<1>2. PICK h \in Handle : h = q.h
  BY <1>1
<1>3. /\ Served(r) /\ SameDocument(x, f) /\ SameCache(x, f) /\ SameSizes(x, f)
      /\ y.pc = "done" /\ f.theChunkSize # 0
      /\ \/ y.result = "gone" /\ Stored(f, n) = {}
         \/ y.result = "error"
      /\ y.h = q.h
  BY FetchThrowsEffect DEF Served
<1>4. HandleInv(h)' /\ Follows(x, f)
  BY <1>1, <1>2, <1>3 DEF HandleInv, SameDocument, SameCache, SameSizes, Follows
<1>5. ASSUME ~f.reloaded, Stored(f, n) = {}, f.theChunkSize = d.cs
      PROVE  d.v \in removed
  <2>1. /\ d \in Doc /\ Whole(d) /\ d # Absent /\ d.len \in Nat /\ d.cs \in Nat \ {0}
        /\ q.off + Len(q.out) < d.len
    BY <1>1, <1>5, LoopState DEF Doc
  <2>2. /\ n \in Nat /\ CopyOffset(r) \in 0 .. d.cs - 1
        /\ q.off + Len(q.out) = n * d.cs + CopyOffset(r)
    BY <1>1, <1>3, <1>5, ChunkPlace
  <2> HIDE DEF n, d
  <2>3. n * d.cs < d.len
    BY <2>1, <2>2
  <2>4. n \in 0 .. ChunkCount(d.len, d.cs) - 1
    <3>1. d.len \in Nat /\ d.cs \in Nat \ {0} /\ n \in Nat
      BY <2>1, <2>2
    <3>2. ChunkCount(d.len, d.cs) \in Nat /\ n < ChunkCount(d.len, d.cs)
      BY <2>3, <3>1, InChunkCount
    <3> QED BY <3>1, <3>2
  <2>5. ChunkOf(d.v, n, d.len, d.cs) \in ChunksOf(d.v, d.len, d.cs)
    BY <2>4 DEF ChunksOf
  <2>6. ChunkOf(d.v, n, d.len, d.cs) \notin chunks
    BY <1>5 DEF Stored, ChunkOf, d
  <2> QED BY <2>1, <2>5, <2>6 DEF Whole
<1>6. ReaderInv(r)'
  <2>1. ~f.reloaded => d # None /\ d.len # 0
    BY <1>1, LoopState
  <2>2. removed' = removed
    BY <1>3 DEF Served
  <2> QED BY <1>3, <1>5, <2>1, <2>2
          DEF ReaderInv, Collected, Looping, Answered, Missing, SameDocument, SameSizes
<1> QED BY <1>2, <1>3, <1>4, <1>6, ReadsReader

\* Copy appends no more than was asked for and is there; these are the next bytes
\* of the document, if the file is cut into the chunks it was stored in.
LEMMA CopyIsExact ==
  ASSUME TypeOK, VersionInv, ReadInv, NEW r \in Reader, Copy(r),
         ~file[reader[r].h].reloaded
  PROVE  LET q == reader[r]
             f == file[q.h]
             d == f.theGridFile
             out == q.out \o Piece(r)
             m == Len(out) IN
           /\ m \in Nat /\ m <= q.size /\ q.off + m <= d.len
           /\ f.theChunkSize = d.cs => out = Slice(d, q.off, m)
<1> DEFINE q == reader[r]
           f == file[q.h]
           d == f.theGridFile
           cs == f.theChunkSize
           n == ChunkN(r)
           o == CopyOffset(r)
           k == CopySize(r)
           m == Len(q.out)
           c == f.theCachedChunk
           t == Piece(r)
<1>1. Looping(q) /\ q.pc = "copy" /\ q.pc # "idle" /\ cs # 0 /\ f.theCachedChunkN = n
  BY DEF Copy, Looping, TypeOK, ReaderOK
<1>2. /\ q.off \in Nat /\ q.size \in Nat /\ m \in Nat /\ HandleInv(q.h) /\ f # None
      /\ d \in Doc /\ d.len \in Nat /\ f.theFileLength = d.len
      /\ m < q.size /\ q.off + m < d.len
      /\ cs = d.cs => q.out = Slice(d, q.off, m)
  BY <1>1, LoopState DEF Doc
<1>3. /\ cs \in Nat \ {0} /\ n \in Nat /\ o \in 0 .. cs - 1
      /\ q.off + m = n * cs + o
  BY <1>1, ChunkPlace
<1>4. c = ChunkOf(d.v, n, d.len, d.cs)
  <2>1. n # -1
    BY <1>3
  <2> HIDE DEF n
  <2> QED BY <1>1, <1>2, <2>1 DEF HandleInv
<1>5. k = Smaller(Smaller(q.size, d.len - q.off) - m, cs - o)
  BY <1>2 DEF CopySize
<1>6. t \in Seq(Bytes)
  BY <1>1, PieceType DEF Bytes
<1>7. t = [i \in 1 .. k |-> IF o + i - 1 < c.len
                           THEN <<c.v, c.from + (o + i - 1)>> ELSE Garbage]
  BY DEF Piece
<1>8. q.out \in Seq(Bytes)
  BY DEF TypeOK, Request, Bytes
<1> HIDE DEF q, f, n, o, k, m, c, d, cs, t
<1>9. /\ k \in Nat \ {0} /\ m + k <= q.size /\ q.off + m + k <= d.len
      /\ k <= cs - o
  BY <1>2, <1>3, <1>5 DEF Smaller
<1>10. Len(t) = k
  <2>1. Len(t) \in Nat /\ DOMAIN t = 1 .. Len(t)
    BY <1>6, LenProperties
  <2>2. DOMAIN t = 1 .. k /\ k \in Nat \ {0}
    BY <1>7, <1>9
  <2>3. PICK l \in Nat : l = Len(t)
    BY <2>1
  <2>4. 1 .. l = 1 .. k
    BY <2>1, <2>2, <2>3
  <2>5. k \in 1 .. l /\ l \in 1 .. k
    BY <2>2, <2>4
  <2> QED BY <2>2, <2>3, <2>5
<1>11. Len(q.out \o t) = m + k
  BY <1>6, <1>8, <1>10, ConcatProperties DEF m
<1>12. m + k \in Nat /\ q.off + (m + k) <= d.len /\ m + k <= q.size
  BY <1>2, <1>9
<1>13. ASSUME cs = d.cs PROVE q.out \o t = Slice(d, q.off, m + k)
  <2>1. PICK b \in Nat : /\ b = n * cs /\ q.off + m = b + o
                          /\ c.len = Smaller(cs, d.len - b) /\ c.from = b /\ c.v = d.v
    BY <1>2, <1>3, <1>4, <1>13 DEF ChunkOf
  <2>2. ASSUME NEW i \in 1 .. k
        PROVE  o + i - 1 < c.len /\ c.from + (o + i - 1) = q.off + m + i - 1
    BY <1>2, <1>3, <1>9, <2>1 DEF Smaller
  <2>3. \A i \in 1 .. k : t[i] = <<d.v, q.off + m + i - 1>>
    BY <1>7, <2>1, <2>2
  <2>4. PICK off \in Nat, i \in Nat, from \in Nat, e \in Nat :
          off = q.off /\ i = m /\ from = q.off + m /\ e = m + k
    <3>1. q.off \in Nat /\ m \in Nat /\ q.off + m \in Nat
      BY <1>2
    <3> QED BY <1>12, <3>1
  <2>5. Continues(t, d, from) /\ off + e <= d.len /\ e = i + Len(t) /\ from = off + i
    <3>1. t \in Seq(Bytes) /\ Len(t) = k /\ q.off + (m + k) <= d.len
      BY <1>6, <1>10, <1>12
    <3>2. Continues(t, d, from)
      BY <2>3, <2>4, <3>1 DEF Continues
    <3> QED BY <2>4, <3>1, <3>2
  <2>6. Extends(d, off, i, t, e)
    <3>1. d \in Doc /\ off \in Nat /\ i \in Nat /\ from \in Nat /\ e \in Nat
      BY <1>2
    <3> QED BY <2>5, <3>1, SliceGrows
  <2>7. q.out = Slice(d, q.off, m)
    BY <1>2, <1>13
  <2> QED BY <2>4, <2>6, <2>7 DEF Extends
<1> QED BY <1>11, <1>12, <1>13 DEF t, q, f, d, cs

LEMMA ReadsCopy ==
  ASSUME TypeOK, VersionInv, ReadInv, NEW r \in Reader, Copy(r)
  PROVE  ReadInv'
<1> DEFINE q == reader[r]
           f == file[q.h]
           d == f.theGridFile
           x == file'[q.h]
           y == reader'[r]
           m == Len(y.out)
<1>1. /\ q.h \in Handle /\ f # None /\ HandleInv(q.h) /\ Looping(q) /\ q.pc # "idle"
  BY DEF TypeOK, ReaderOK, ReadInv, Copy, Looping
<1>2. PICK h \in Handle : h = q.h
  BY <1>1
<1>3. /\ Served(r) /\ SameDocument(x, f) /\ SameCache(x, f) /\ SameSizes(x, f)
      /\ f.theChunkSize # 0 /\ y.out = q.out \o Piece(r)
      /\ More(q, y.out, f.theFileLength) => y.pc = "lock"
      /\ ~ More(q, y.out, f.theFileLength) => y.pc = "done" /\ y.result = "ok"
      /\ y.h = q.h /\ y.off = q.off /\ y.size = q.size
  BY CopyEffect DEF Served
<1>4. HandleInv(h)' /\ Follows(x, f)
  BY <1>1, <1>2, <1>3 DEF HandleInv, SameDocument, SameCache, SameSizes, Follows
<1>5. /\ q.off \in Nat /\ q.size \in Nat
      /\ ~f.reloaded =>
           /\ d \in Doc /\ d # None /\ d.len \in Nat /\ d.len # 0 /\ f.theFileLength = d.len
  BY <1>1, LoopState DEF Doc
<1>6. y.out \in Seq(Bytes) /\ m \in Nat
  <2>1. y.out \in Seq(Bytes)
    BY <1>3 DEF Served, Request, Bytes
  <2> QED BY <2>1, LenProperties
<1>7. ASSUME ~f.reloaded
      PROVE  /\ m <= q.size /\ q.off + m <= d.len
             /\ f.theChunkSize = d.cs => y.out = Slice(d, q.off, m)
  BY <1>3, <1>7, CopyIsExact
<1>8. ASSUME ~f.reloaded PROVE Collected(y, f)
  <2> HIDE DEF q, f, d, y
  <2>1. PICK off \in Nat, size \in Nat, i \in Nat, len \in Nat :
          off = q.off /\ size = q.size /\ i = m /\ len = d.len
    BY <1>5, <1>6, <1>8
  <2>2. i <= size /\ off + i <= len
    BY <1>7, <1>8, <2>1
  <2>3. More(q, y.out, f.theFileLength) <=> i # size /\ off + i < len
    BY <1>5, <1>8, <2>1 DEF More
  <2>4. CASE i # size /\ off + i < len
    <3>1. y.pc = "lock"
      BY <1>3, <2>3, <2>4
    <3>2. m < q.size /\ q.off + m < d.len
      BY <2>1, <2>2, <2>4
    <3> QED BY <1>3, <1>5, <1>7, <1>8, <3>1, <3>2 DEF Collected, Looping, Answered, d
  <2>5. CASE ~ (i # size /\ off + i < len)
    <3>1. y.pc = "done" /\ y.result = "ok"
      BY <1>3, <2>3, <2>5
    <3>2. i = size \/ (off + i = len /\ i <= size)
      BY <2>2, <2>5
    <3>3. Slice(d, off, size) = Slice(d, off, i)
      BY <1>5, <1>8, <2>1, <3>2, SliceCut
    <3> QED BY <1>3, <1>5, <1>7, <1>8, <2>1, <3>1, <3>3
            DEF Collected, Looping, Answered, d
  <2> QED BY <2>4, <2>5
<1>9. ReaderInv(r)'
  <2>1. y.pc \in {"lock", "done"} /\ (y.pc = "done" => y.result = "ok")
    BY <1>3
  <2>2. x.theChunkSize # 0
    BY <1>3 DEF SameSizes
  <2>3. ~x.reloaded => Collected(y, x)
    BY <1>3, <1>8 DEF Collected, SameDocument, SameSizes
  <2> QED BY <1>3, <2>1, <2>2, <2>3 DEF ReaderInv, Missing
<1> QED BY <1>2, <1>3, <1>4, <1>9, ReadsReader

\* ReadInv is inductive.
LEMMA ReadsStep ==
  ASSUME TypeOK, VersionInv, ReadInv, [Next]_vars
  PROVE  ReadInv'
<1>1. CASE \E h \in Handle : HandlerStep(h)
  <2>1. PICK h \in Handle : HandlerStep(h)
    BY <1>1
  <2>2. CASE \/ OpenAborts(h) \/ StoreLost(h)
             \/ \E size \in 1 .. MaxLength : WriteLost(h, size)
    BY <2>2, ReadsDie DEF OpenAborts, StoreLost, WriteLost
  <2>3. CASE \/ \E off \in 0 .. MaxLength : WriteElsewhere(h, off)
             \/ \E size \in 1 .. MaxLength : Write(h, size) \/ WriteFails(h, size)
    BY <2>3, WriteEffect, ReadsWrite
  <2> QED BY <2>1, <2>2, <2>3, ReadsOpen, ReadsStore DEF HandlerStep
<1>2. CASE \E r \in Reader, h \in Handle, off \in 0 .. MaxLength,
              size \in 1 .. MaxLength : Read(r, h, off, size)
  BY <1>2, ReadsBegin
<1>3. CASE \E r \in Reader : ReaderStep(r)
  <2>1. PICK r \in Reader : ReaderStep(r)
    BY <1>3
  <2>2. CASE DivideByZero(r) \/ ResetCrashes(r)
    BY <2>2, ReadsDie DEF DivideByZero, ResetCrashes
  <2> QED BY <2>1, <2>2, ReadsLoad, ReadsLength, ReadsLock, ReadsFetch, ReadsThrow,
             ReadsCopy, ReadsReply DEF ReaderStep
<1>4. CASE Others
  BY <1>4, ReadsElsewhere DEF Others, Upload, UnlinkFile, UnlinkChunks, Truncate
<1>5. CASE Crash
  BY <1>5, ReadsDie DEF Crash
<1>6. CASE UNCHANGED vars
  BY <1>6, ReadsElsewhere DEF vars
<1> QED BY <1>1, <1>2, <1>3, <1>4, <1>5, <1>6 DEF Next

LEMMA ReadsInit ==
  ASSUME Init
  PROVE  ReadInv
BY DEF Init, ReadInv, HandleInv, ReaderInv, NoRead

IInv == TypeOK /\ VersionInv /\ ReadInv

LEMMA Invariance == Spec => []IInv
<1>1. Init => IInv
  BY VersionInit, ReadsInit DEF IInv
<1>2. IInv /\ [Next]_vars => IInv'
  BY TypeStep, VersionStep, ReadsStep DEF IInv
<1> QED BY <1>1, <1>2, PTL DEF Spec

\* Whatever the readers of a handle do, whatever throws and whatever happens to the
\* file: while the mutex is free, the cached chunk is the one its number says, of
\* the version that the handle reads (File::read).
THEOREM CacheIsRight == Spec => []CachedChunkMatches
<1>1. IInv => CachedChunkMatches
  <2> SUFFICES ASSUME IInv, NEW h \in Handle, file[h] # None, ~file[h].reloaded,
                      file[h].theCachedChunkN # -1
               PROVE  LET f == file[h] IN
                        /\ f.theCachedChunk # None
                        /\ f.theCachedChunk.v = f.theGridFile.v
                        /\ f.theCachedChunk.n = f.theCachedChunkN
    BY DEF CachedChunkMatches
  <2>1. HandleInv(h) /\ FileOK(h)
    BY DEF IInv, ReadInv, TypeOK
  <2> QED BY <2>1 DEF HandleInv, FileOK, ChunkOf
<1> QED BY <1>1, Invariance, PTL

\* A read that succeeds returns exactly the requested bytes of the version that its
\* handle loaded, whatever other readers of the handle did meanwhile to the cached
\* chunk and whatever happened to the file, if the handle goes by the chunk size of
\* that version; and such a read misses a chunk only of a version that was removed
\* (File::read).  No constant is assumed to be anything: it is for a write to set
\* another chunk size (file.cpp:39), and for two first reads to load two documents.
InOwnChunks ==
  \A r \in Reader :
    LET q == reader[r]
        f == file[q.h]
        d == f.theGridFile IN
      q.pc = "done" /\ ~f.reloaded =>
        /\ q.result = "ok" => /\ d # None
                              /\ f.theChunkSize = d.cs => q.out = Slice(d, q.off, q.size)
        /\ q.result = "gone" => /\ d # None
                                /\ f.theChunkSize = d.cs => d.v \in removed

THEOREM ExactInOwnChunks == Spec => []InOwnChunks
<1>1. IInv => InOwnChunks
  <2> SUFFICES ASSUME IInv, NEW r \in Reader, reader[r].pc = "done",
                      ~file[reader[r].h].reloaded
               PROVE  LET q == reader[r]
                          f == file[q.h]
                          d == f.theGridFile IN
                        /\ q.result = "ok" =>
                             /\ d # None
                             /\ f.theChunkSize = d.cs => q.out = Slice(d, q.off, q.size)
                        /\ q.result = "gone" =>
                             /\ d # None
                             /\ f.theChunkSize = d.cs => d.v \in removed
    BY DEF InOwnChunks
  <2>1. ReaderInv(r)
    BY DEF IInv, ReadInv
  <2> QED BY <2>1 DEF ReaderInv, Collected, Answered, Missing
<1> QED BY <1>1, Invariance, PTL

\* Handles are not written to, or all clients store chunks of one size, the one
\* that config.mongo_chunk_size says.
OneChunkSize ==
  "write" \in Ops => DriverChunk = ConfigChunk /\ ForeignChunks \subseteq {ConfigChunk}

LEMMA ChunksAgree ==
  ASSUME OneChunkSize, IInv, NEW h \in Handle, file[h] # None, ~file[h].reloaded,
         file[h].theGridFile # None,
         file[h].theChunkSize # 0 \/ file[h].theGridFile.cs = 0
  PROVE  LET d == file[h].theGridFile IN
           d.len # 0 => file[h].theChunkSize = d.cs
<1> DEFINE f == file[h]
           d == f.theGridFile
<1>1. HandleInv(h) /\ d \in Sound
  BY DEF IInv, ReadInv, VersionInv, LoadedInv
<1>2. CASE f.theChunkSize = 0 \/ f.theChunkSize = d.cs
  BY <1>2
<1>3. CASE "write" \in Ops /\ f.theChunkSize = ConfigChunk
  <2>1. d.len # 0 => d.cs \in {DriverChunk} \cup ForeignChunks
    BY <1>1 DEF Sound, Whole, Absent
  <2> QED BY <1>3, <2>1 DEF OneChunkSize
<1> QED BY <1>1, <1>2, <1>3 DEF HandleInv

\* With one chunk size every read that succeeds returns exactly the bytes of the
\* version that its handle loaded (File::read).
THEOREM ReadsAreExact == ASSUME OneChunkSize PROVE Spec => []ReadIsExact
<1>1. IInv => ReadIsExact
  <2> SUFFICES ASSUME IInv, NEW r \in Reader, Answered(reader[r]),
                      ~file[reader[r].h].reloaded
               PROVE  reader[r].out = Slice(file[reader[r].h].theGridFile,
                                            reader[r].off, reader[r].size)
    BY DEF ReadIsExact, Answered
  <2> DEFINE q == reader[r]
             f == file[q.h]
             d == f.theGridFile
  <2>1. /\ q.h \in Handle /\ f # None /\ d # None
        /\ f.theChunkSize # 0 \/ d.cs = 0
        /\ f.theChunkSize = d.cs \/ d.len = 0 => q.out = Slice(d, q.off, q.size)
    BY DEF IInv, ReadInv, ReaderInv, Collected, Answered, TypeOK, ReaderOK
  <2> QED BY <2>1, ChunksAgree
<1> QED BY <1>1, Invariance, PTL

\* With one chunk size a chunk is missing only from a version that was unlinked while
\* it was read (File::read, GridFS::removeFile).
THEOREM MissingWasRemoved == ASSUME OneChunkSize PROVE Spec => []GoneOnlyIfRemoved
<1>1. IInv => GoneOnlyIfRemoved
  <2> SUFFICES ASSUME IInv, NEW r \in Reader, Missing(reader[r]),
                      ~file[reader[r].h].reloaded
               PROVE  file[reader[r].h].theGridFile.v \in removed
    BY DEF GoneOnlyIfRemoved, Missing
  <2> DEFINE q == reader[r]
             f == file[q.h]
             d == f.theGridFile
  <2>1. /\ q.h \in Handle /\ f # None /\ d # None /\ d.len # 0
        /\ f.theChunkSize # 0 \/ d.cs = 0
        /\ f.theChunkSize = d.cs => d.v \in removed
    BY DEF IInv, ReadInv, ReaderInv, Missing, TypeOK, ReaderOK
  <2> QED BY <2>1, ChunksAgree
<1> QED BY <1>1, Invariance, PTL

=============================================================================
