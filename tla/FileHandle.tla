------------------------------ MODULE FileHandle ------------------------------
(***************************************************************************)
(* The File objects behind open file handles (file.cpp), all of one path.  *)
(*                                                                         *)
(* A handle reads one stored version of the file, chunk by chunk through a *)
(* cache of one chunk that concurrent readers share under mutex_read; it   *)
(* collects what is written in an anonymous mapping and stores it as a new *)
(* version when it is released.  Other handles and other GridFS clients    *)
(* upload, remove and truncate versions meanwhile.                         *)
(*                                                                         *)
(* Byte i of version v is <<v, i>>, so that what a read returns shows      *)
(* where each of its bytes comes from.                                     *)
(***************************************************************************)
EXTENDS Integers, Sequences

CONSTANTS
  Handle,        \* file handles
  Reader,        \* FUSE worker threads that serve reads
  None,          \* null pointer, free mutex, nothing
  Garbage,       \* a byte from outside the chunk
  Debug,         \* TRUE: assertions are compiled in (CMAKE_BUILD_TYPE Debug)
  ConfigChunk,   \* config.mongo_chunk_size
  DriverChunk,   \* chunk size of the driver's GridFS::storeFile
  ForeignChunks, \* chunk sizes other GridFS clients use
  Ops,           \* the operations of the environment
  MaxLength,     \* bound: file lengths, offsets and sizes of requests
  MaxVersions,   \* bound: uploads in a behaviour
  MaxReads,      \* bound: read requests in a behaviour
  MaxFaults      \* bound: failures in a behaviour

OpName == {"open", "create", "read", "write", "upload", "unlink", "truncate"}

\* A document of the files collection: version, "length" and "chunkSize".
Doc == [v: Nat, len: Nat, cs: Nat]

\* GridFile of a path without a document: every field of it reads as 0.
Absent == [v |-> 0, len |-> 0, cs |-> 0]

\* A document of the chunks collection: chunk n of version v holds the bytes
\* from .. from + len - 1.
Chunk == [v: Nat, n: Nat, from: Nat, len: Nat]

\* The File object behind a handle (file.h).  Two of its fields are not the
\* code's: stored is where store() has got to, a version and its next chunk, and
\* reloaded is history: gridfile() replaced a loaded document.
File ==
  [theGridFile: Doc \cup {None}, theFileLength: Nat, theChunkSize: Nat,
   theWritten: Nat, theCurrentDataSize: Nat,
   theData: {"null", "mapped", "failed"}, theHasChanges: BOOLEAN,
   theCachedChunkN: Nat \cup {-1}, theCachedChunk: Chunk \cup {None},
   mutex_read: Reader \cup {None},
   stored: [v: Nat, n: Nat] \cup {None}, reloaded: BOOLEAN]

ASSUME ConstantsAssumption ==
  /\ Debug \in BOOLEAN
  /\ {ConfigChunk, DriverChunk} \cup ForeignChunks \subseteq Nat \ {0}
  /\ Ops \subseteq OpName
  /\ {MaxLength, MaxVersions, MaxReads, MaxFaults} \subseteq Nat
  /\ None \notin Handle \cup Reader \cup Doc \cup Chunk \cup File
  /\ None \notin [v: Nat, n: Nat] \cup [v: Nat, len: Nat]

VARIABLES
  docs,      \* the files documents of the path, in the order of upload dates
  chunks,    \* the chunks documents of all its versions
  removed,   \* versions whose files document was removed
  uploads,   \* source of version numbers
  file,      \* file[h]: the File object of h, or None
  reader,    \* reader[r]: the read request r serves
  reads,     \* read requests so far
  faults     \* failures so far

vars == <<docs, chunks, removed, uploads, file, reader, reads, faults>>

-----------------------------------------------------------------------------
(* GridFS *)

Smaller(a, b) == IF a < b THEN a ELSE b

\* GridFS::findFile: the newest document.
FindFile == IF docs = <<>> THEN Absent ELSE docs[Len(docs)]

\* storeFile cuts len bytes into this many chunks.
ChunkCount(len, cs) == (len + cs - 1) \div cs

ChunkOf(v, n, len, cs) ==
  [v |-> v, n |-> n, from |-> n * cs, len |-> Smaller(cs, len - n * cs)]

ChunksOf(v, len, cs) ==
  {ChunkOf(v, n, len, cs) : n \in 0 .. ChunkCount(len, cs) - 1}

\* The bytes of document d that a read of size bytes at off is about.
Slice(d, off, size) ==
  [i \in 1 .. Smaller(off + size, d.len) - off |-> <<d.v, off + i - 1>>]

-----------------------------------------------------------------------------
(* File objects *)

\* File::File; gridfile is None until gridfile() has loaded it.
NewFile(gridfile) ==
  [theGridFile |-> gridfile, theFileLength |-> 0, theChunkSize |-> 0,
   theWritten |-> 0, theCurrentDataSize |-> 0, theData |-> "null",
   theHasChanges |-> FALSE, theCachedChunkN |-> -1, theCachedChunk |-> None,
   mutex_read |-> None,
   stored |-> None, reloaded |-> FALSE]

NoRead == [pc |-> "idle", h |-> None, off |-> 0, size |-> 0, out |-> <<>>,
           found |-> None, result |-> "none"]

Init ==
  /\ docs = <<>> /\ chunks = {} /\ removed = {} /\ uploads = 0
  /\ file = [h \in Handle |-> None]
  /\ reader = [r \in Reader |-> NoRead]
  /\ reads = 0 /\ faults = 0

Fault == faults < MaxFaults /\ faults' = faults + 1

\* The process of the mount is gone, and its handles and requests with it.
Die ==
  /\ file' = [h \in Handle |-> None]
  /\ reader' = [r \in Reader |-> NoRead]

\* Mutant of Open: the document is never loaded before the first read.
OpenLazily(h) ==
  /\ "open" \in Ops /\ file[h] = None
  /\ file' = [file EXCEPT ![h] = NewFile(None)]
  /\ UNCHANGED <<docs, chunks, removed, uploads, reader, reads, faults>>

\* open(): the assertion that the file exists loads the document; without
\* assertions that is left to the first use, and a handle comes of a path
\* that has no document (any more) as well.
Open(h) ==
  /\ "open" \in Ops /\ file[h] = None /\ (Debug => docs # <<>>)
  /\ file' = [file EXCEPT ![h] = NewFile(IF Debug THEN FindFile ELSE None)]
  /\ UNCHANGED <<docs, chunks, removed, uploads, reader, reads, faults>>

\* The assertion fails.
OpenAborts(h) ==
  /\ "open" \in Ops /\ file[h] = None /\ Debug /\ docs = <<>>
  /\ Die
  /\ UNCHANGED <<docs, chunks, removed, uploads, reads, faults>>

\* create() has found that the path has no document.  (When it has one, a File
\* comes with EEXIST, of which the kernel never hears: it is leaked, and no
\* request uses it.)  What follows is a store of nothing: others may upload a
\* version before it.
Create(h) ==
  /\ "create" \in Ops /\ file[h] = None /\ docs = <<>> /\ uploads < MaxVersions
  /\ uploads' = uploads + 1
  /\ file' = [file EXCEPT ![h] = [NewFile(None) EXCEPT
                                  !.stored = [v |-> uploads + 1, n |-> 0]]]
  /\ UNCHANGED <<docs, chunks, removed, reader, reads, faults>>

-----------------------------------------------------------------------------
(* File::write *)

\* What theChunkSize is from the first write on.
WriteChunk(f) == IF f.theChunkSize = 0 THEN ConfigChunk ELSE f.theChunkSize

\* init_memory and extend_memory grow the mapping through these sizes until
\* it holds need bytes.
Sizes(f, need) ==
  LET cs == WriteChunk(f)
      first == IF f.theCurrentDataSize = 0 THEN cs ELSE f.theCurrentDataSize
  IN  {n \in {first + k * cs : k \in 0 .. need} : n = first \/ n - cs < need}

\* The mapping that extend_memory lost: theData is MAP_FAILED, the size is not 0.
Lost(f) == f.theData = "failed" /\ f.theCurrentDataSize # 0

Writable(h) == "write" \in Ops /\ file[h] # None /\ file[h].stored = None

\* Only the next byte can be written.
WriteElsewhere(h, off) ==
  /\ Writable(h) /\ off # file[h].theWritten
  /\ file' = [file EXCEPT ![h].theChunkSize = WriteChunk(file[h])]
  /\ UNCHANGED <<docs, chunks, removed, uploads, reader, reads, faults>>

\* Mutant of Write: "else if" where the code grows in a loop.
WriteGrowsOnce(h, size) ==
  LET f == file[h]
      need == f.theWritten + size
      cs == WriteChunk(f) IN
    /\ Writable(h) /\ ~Lost(f) /\ need <= MaxLength
    /\ file' = [file EXCEPT ![h] =
                  [f EXCEPT !.theChunkSize = cs,
                            !.theCurrentDataSize =
                               IF @ = 0 \/ @ < need THEN @ + cs ELSE @,
                            !.theData = "mapped",
                            !.theHasChanges = TRUE,
                            !.theWritten = need]]
    /\ UNCHANGED <<docs, chunks, removed, uploads, reader, reads, faults>>

\* Mutant of Write: the length that reads go by follows what is written.
WriteSetsLength(h, size) ==
  LET f == file[h]
      need == f.theWritten + size IN
    /\ Writable(h) /\ ~Lost(f) /\ need <= MaxLength
    /\ file' = [file EXCEPT ![h] =
                  [f EXCEPT !.theChunkSize = WriteChunk(f),
                            !.theCurrentDataSize =
                               CHOOSE n \in Sizes(f, need) : n >= need,
                            !.theData = "mapped",
                            !.theHasChanges = TRUE,
                            !.theWritten = need,
                            !.theFileLength = need]]
    /\ UNCHANGED <<docs, chunks, removed, uploads, reader, reads, faults>>

Write(h, size) ==
  LET f == file[h]
      need == f.theWritten + size IN
    /\ Writable(h) /\ ~Lost(f) /\ need <= MaxLength
    /\ file' = [file EXCEPT ![h] =
                  [f EXCEPT !.theChunkSize = WriteChunk(f),
                            !.theCurrentDataSize =
                               CHOOSE n \in Sizes(f, need) : n >= need,
                            !.theData = "mapped",
                            !.theHasChanges = TRUE,
                            !.theWritten = need]]
    /\ UNCHANGED <<docs, chunks, removed, uploads, reader, reads, faults>>

\* mmap or mremap fails on the way: n is the last size that was reached.
WriteFails(h, size) ==
  LET f == file[h]
      need == f.theWritten + size IN
    /\ Writable(h) /\ ~Lost(f) /\ need <= MaxLength
    /\ \E n \in Sizes(f, need) \cup {f.theCurrentDataSize} :
         /\ n < need
         /\ Fault
         /\ file' = [file EXCEPT ![h] =
                       [f EXCEPT !.theChunkSize = WriteChunk(f),
                                 !.theCurrentDataSize = n,
                                 !.theData = "failed"]]
    /\ UNCHANGED <<docs, chunks, removed, uploads, reader, reads>>

\* memcpy to MAP_FAILED.  (A write that needs a larger mapping is refused by
\* mremap and changes nothing.)
WriteLost(h, size) ==
  LET f == file[h] IN
    /\ Writable(h) /\ Lost(f)
    /\ f.theWritten + size <= f.theCurrentDataSize
    /\ Die
    /\ UNCHANGED <<docs, chunks, removed, uploads, reads, faults>>

-----------------------------------------------------------------------------
(* release() and File::store *)

Unused(h) == \A r \in Reader : reader[r].h # h

\* release() of an unchanged file deletes the object.
Release(h) ==
  /\ file[h] # None /\ file[h].stored = None /\ Unused(h)
  /\ ~file[h].theHasChanges
  /\ file' = [file EXCEPT ![h] = None]
  /\ UNCHANGED <<docs, chunks, removed, uploads, reader, reads, faults>>

\* release() of a changed file: store() first asks the loaded document, if
\* there is one, for its content type.
ReleaseChanged(h) ==
  LET f == file[h] IN
    /\ f # None /\ f.stored = None /\ Unused(h)
    /\ f.theHasChanges /\ uploads < MaxVersions
    /\ uploads' = uploads + 1
    /\ file' = [file EXCEPT ![h] =
                  [f EXCEPT !.stored = [v |-> uploads + 1, n |-> 0],
                            !.theGridFile = IF @ = None THEN FindFile ELSE @]]
    /\ UNCHANGED <<docs, chunks, removed, reader, reads, faults>>

Storing(h) == file[h] # None /\ file[h].stored # None

\* storeFile inserts the chunks in order ...
StoreChunk(h) ==
  LET f == file[h]
      n == f.stored.n IN
    /\ Storing(h) /\ ~Lost(f)
    /\ n < ChunkCount(f.theWritten, DriverChunk)
    /\ chunks' = chunks \cup {ChunkOf(f.stored.v, n, f.theWritten, DriverChunk)}
    /\ file' = [file EXCEPT ![h].stored.n = n + 1]
    /\ UNCHANGED <<docs, removed, uploads, reader, reads, faults>>

\* Mutant of StoreFile: the files document comes first.
StoreFileFirst(h) ==
  LET f == file[h] IN
    /\ Storing(h) /\ ~Lost(f)
    /\ f.stored.n = 0
    /\ docs' = Append(docs, [v |-> f.stored.v, len |-> f.theWritten,
                             cs |-> DriverChunk])
    /\ file' = [file EXCEPT ![h] = IF f.theHasChanges THEN None ELSE NewFile(None)]
    /\ UNCHANGED <<chunks, removed, uploads, reader, reads, faults>>

\* ... and the files document last.  Then release() deletes the object, while
\* create() returns it, its document forgotten (force_reload), unless
\* synchonizeUpdate() throws.
StoreFile(h) ==
  LET f == file[h] IN
    /\ Storing(h) /\ ~Lost(f)
    /\ f.stored.n = ChunkCount(f.theWritten, DriverChunk)
    /\ docs' = Append(docs, [v |-> f.stored.v, len |-> f.theWritten,
                             cs |-> DriverChunk])
    /\ \/ file' = [file EXCEPT ![h] = IF f.theHasChanges THEN None ELSE NewFile(None)]
          /\ UNCHANGED faults
       \/ file' = [file EXCEPT ![h] = None] /\ Fault
    /\ UNCHANGED <<chunks, removed, uploads, reader, reads>>

\* A call to MongoDB throws; create() and release() delete the object.
StoreThrows(h) ==
  /\ Storing(h) /\ Fault
  /\ file' = [file EXCEPT ![h] = None]
  /\ UNCHANGED <<docs, chunks, removed, uploads, reader, reads>>

\* storeFile reads from MAP_FAILED.
StoreLost(h) ==
  /\ Storing(h) /\ Lost(file[h])
  /\ Die
  /\ UNCHANGED <<docs, chunks, removed, uploads, reads, faults>>

-----------------------------------------------------------------------------
(* File::read *)

\* A read request for size bytes at off.
Read(r, h, off, size) ==
  /\ "read" \in Ops /\ reads < MaxReads /\ reads' = reads + 1
  /\ reader[r].pc = "idle" /\ file[h] # None /\ file[h].stored = None
  /\ reader' = [reader EXCEPT ![r] = [NoRead EXCEPT !.pc = "chunksize", !.h = h,
                                      !.off = off, !.size = size]]
  /\ UNCHANGED <<docs, chunks, removed, uploads, file, faults>>

\* gridfile(): two readers can both find the pointer null (or findFile throws,
\* and the request is answered with EIO) ...
Gridfile(r) ==
  LET q == reader[r]
      f == file[q.h] IN
    /\ \/ q.pc = "chunksize" /\ f.theChunkSize = 0
       \/ q.pc = "length" /\ f.theFileLength = 0
    /\ f.theGridFile = None
    /\ \/ /\ reader' = [reader EXCEPT ![r].found = FindFile, ![r].pc = "reset"]
          /\ UNCHANGED faults
       \/ /\ reader' = [reader EXCEPT ![r].pc = "done", ![r].result = "error"]
          /\ Fault
    /\ UNCHANGED <<docs, chunks, removed, uploads, file, reads>>

\* ... and then both reset it, the second deleting the GridFile that the first
\* put there.  To whoever still has a reference to that, anything may happen: of
\* this the model has a clean change of the document, ...
Reset(r) ==
  LET q == reader[r]
      f == file[q.h] IN
    /\ q.pc = "reset"
    /\ file' = [file EXCEPT ![q.h].theGridFile = q.found,
                            ![q.h].reloaded = @ \/ f.theGridFile # None]
    /\ reader' = [reader EXCEPT ![r].pc = "chunksize"]
    /\ UNCHANGED <<docs, chunks, removed, uploads, reads, faults>>

\* ... and the end of the process.
ResetCrashes(r) ==
  /\ reader[r].pc = "reset" /\ file[reader[r].h].theGridFile # None
  /\ Die
  /\ UNCHANGED <<docs, chunks, removed, uploads, reads, faults>>

ChunkSize(r) ==
  LET q == reader[r]
      f == file[q.h] IN
    /\ q.pc = "chunksize" /\ (f.theChunkSize # 0 \/ f.theGridFile # None)
    /\ file' = [file EXCEPT ![q.h].theChunkSize =
                               IF @ = 0 THEN f.theGridFile.cs ELSE @]
    /\ reader' = [reader EXCEPT ![r].pc = "length"]
    /\ UNCHANGED <<docs, chunks, removed, uploads, reads, faults>>

\* Mutant of More: <= for <.
MoreAtEnd(q, out, length) == Len(out) # q.size /\ q.off + Len(out) <= length

\* The condition of the read loop, once out has been read of length bytes.
More(q, out, length) == Len(out) # q.size /\ q.off + Len(out) < length

FileLength(r) ==
  LET q == reader[r]
      f == file[q.h]
      length == IF f.theFileLength = 0 THEN f.theGridFile.len
                ELSE f.theFileLength IN
    /\ q.pc = "length" /\ (f.theFileLength # 0 \/ f.theGridFile # None)
    /\ file' = [file EXCEPT ![q.h].theFileLength = length]
    /\ reader' = [reader EXCEPT ![r] =
                    IF More(q, <<>>, length) THEN [q EXCEPT !.pc = "lock"]
                    ELSE [q EXCEPT !.pc = "done", !.result = "ok"]]
    /\ UNCHANGED <<docs, chunks, removed, uploads, reads, faults>>

\* The chunk that holds the next byte.
ChunkN(r) ==
  (reader[r].off + Len(reader[r].out)) \div file[reader[r].h].theChunkSize

\* Mutant of Lock: the chunk is read without the scoped lock.
LockNothing(r) ==
  LET q == reader[r]
      f == file[q.h] IN
    /\ q.pc = "lock" /\ f.theChunkSize # 0
    /\ file' = [file EXCEPT ![q.h].mutex_read = r]
    /\ reader' = [reader EXCEPT ![r].pc = "fetch"]
    /\ UNCHANGED <<docs, chunks, removed, uploads, reads, faults>>

Lock(r) ==
  LET q == reader[r]
      f == file[q.h] IN
    /\ q.pc = "lock" /\ f.theChunkSize # 0 /\ f.mutex_read = None
    /\ file' = [file EXCEPT ![q.h].mutex_read = r]
    /\ reader' = [reader EXCEPT ![r].pc = "fetch"]
    /\ UNCHANGED <<docs, chunks, removed, uploads, reads, faults>>

\* A chunk size of 0 and a length that is not: the chunk number traps.
DivideByZero(r) ==
  /\ reader[r].pc = "lock" /\ file[reader[r].h].theChunkSize = 0
  /\ Die
  /\ UNCHANGED <<docs, chunks, removed, uploads, reads, faults>>

\* GridFile::getChunk asks for the chunk at this moment.
Stored(f, n) == {c \in chunks : c.v = f.theGridFile.v /\ c.n = n}

Fetch(r) ==
  LET q == reader[r]
      f == file[q.h] IN
    /\ q.pc = "fetch"
    /\ \/ ChunkN(r) = f.theCachedChunkN /\ UNCHANGED file
       \/ /\ ChunkN(r) # f.theCachedChunkN
          /\ \E c \in Stored(f, ChunkN(r)) :
               file' = [file EXCEPT ![q.h].theCachedChunk = c,
                                    ![q.h].theCachedChunkN = ChunkN(r)]
    /\ reader' = [reader EXCEPT ![r].pc = "copy"]
    /\ UNCHANGED <<docs, chunks, removed, uploads, reads, faults>>

\* Mutant of FetchThrows: theCachedChunkN is set before getChunk is called.
FetchThrowsNumbered(r) ==
  LET q == reader[r]
      f == file[q.h] IN
    /\ q.pc = "fetch" /\ ChunkN(r) # f.theCachedChunkN
    /\ file' = [file EXCEPT ![q.h].mutex_read = None,
                            ![q.h].theCachedChunkN = ChunkN(r)]
    /\ \/ /\ Stored(f, ChunkN(r)) = {} /\ UNCHANGED faults
          /\ reader' = [reader EXCEPT ![r].pc = "done", ![r].result = "gone"]
       \/ /\ Fault
          /\ reader' = [reader EXCEPT ![r].pc = "done", ![r].result = "error"]
    /\ UNCHANGED <<docs, chunks, removed, uploads, reads>>

\* Mutant of FetchThrows: an unscoped lock, which the exception leaves locked.
FetchThrowsLocked(r) ==
  LET q == reader[r]
      f == file[q.h] IN
    /\ q.pc = "fetch" /\ ChunkN(r) # f.theCachedChunkN
    /\ \/ /\ Stored(f, ChunkN(r)) = {} /\ UNCHANGED faults
          /\ reader' = [reader EXCEPT ![r].pc = "done", ![r].result = "gone"]
       \/ /\ Fault
          /\ reader' = [reader EXCEPT ![r].pc = "done", ![r].result = "error"]
    /\ UNCHANGED <<docs, chunks, removed, uploads, file, reads>>

\* getChunk throws, because the chunk is gone or because the call fails; the
\* scoped lock is released and the request answered with EIO.
FetchThrows(r) ==
  LET q == reader[r]
      f == file[q.h] IN
    /\ q.pc = "fetch" /\ ChunkN(r) # f.theCachedChunkN
    /\ file' = [file EXCEPT ![q.h].mutex_read = None]
    /\ \/ /\ Stored(f, ChunkN(r)) = {} /\ UNCHANGED faults
          /\ reader' = [reader EXCEPT ![r].pc = "done", ![r].result = "gone"]
       \/ /\ Fault
          /\ reader' = [reader EXCEPT ![r].pc = "done", ![r].result = "error"]
    /\ UNCHANGED <<docs, chunks, removed, uploads, reads>>

\* What the loop asks of the chunk: the rest of the request, cut at the end of
\* the file and at the end of the chunk.
CopyOffset(r) ==
  (reader[r].off + Len(reader[r].out)) % file[reader[r].h].theChunkSize

CopySize(r) ==
  LET q == reader[r]
      f == file[q.h] IN
    Smaller(Smaller(q.size, f.theFileLength - q.off) - Len(q.out),
            f.theChunkSize - CopyOffset(r))

Copy(r) ==
  LET q == reader[r]
      f == file[q.h]
      c == f.theCachedChunk
      out == q.out \o [i \in 1 .. CopySize(r) |->
                         LET k == CopyOffset(r) + i - 1 IN
                           IF k < c.len THEN <<c.v, c.from + k>> ELSE Garbage]
  IN
    /\ q.pc = "copy"
    /\ file' = [file EXCEPT ![q.h].mutex_read = None]
    /\ reader' = [reader EXCEPT ![r] =
                    IF More(q, out, f.theFileLength)
                    THEN [q EXCEPT !.out = out, !.pc = "lock"]
                    ELSE [q EXCEPT !.out = out, !.pc = "done", !.result = "ok"]]
    /\ UNCHANGED <<docs, chunks, removed, uploads, reads, faults>>

Reply(r) ==
  /\ reader[r].pc = "done"
  /\ reader' = [reader EXCEPT ![r] = NoRead]
  /\ UNCHANGED <<docs, chunks, removed, uploads, file, reads, faults>>

-----------------------------------------------------------------------------
(* Other handlers, other mounts, other GridFS clients *)

\* Another client uploads a version.
Upload(len, cs) ==
  /\ "upload" \in Ops /\ uploads < MaxVersions
  /\ uploads' = uploads + 1
  /\ docs' = Append(docs, [v |-> uploads + 1, len |-> len, cs |-> cs])
  /\ chunks' = chunks \cup ChunksOf(uploads + 1, len, cs)
  /\ UNCHANGED <<removed, file, reader, reads, faults>>

\* GridFS::removeFile, for unlink(): first the files document of a version ...
UnlinkFile ==
  /\ "unlink" \in Ops
  /\ \E i \in 1 .. Len(docs) :
       /\ docs' = SubSeq(docs, 1, i - 1) \o SubSeq(docs, i + 1, Len(docs))
       /\ removed' = removed \cup {docs[i].v}
  /\ UNCHANGED <<chunks, uploads, file, reader, reads, faults>>

\* ... then its chunks.
UnlinkChunks ==
  /\ \E v \in removed :
       /\ \E c \in chunks : c.v = v
       /\ chunks' = {c \in chunks : c.v # v}
  /\ UNCHANGED <<docs, removed, uploads, file, reader, reads, faults>>

\* File::truncate, on a File of its own, updates the document it loaded: the
\* newest at that moment, but others may have been uploaded since.
Truncate ==
  /\ "truncate" \in Ops
  /\ \E i \in 1 .. Len(docs) : docs' = [docs EXCEPT ![i].len = 0]
  /\ UNCHANGED <<chunks, removed, uploads, file, reader, reads, faults>>

Crash ==
  /\ \E h \in Handle : file[h] # None
  /\ Fault /\ Die
  /\ UNCHANGED <<docs, chunks, removed, uploads, reads>>

-----------------------------------------------------------------------------
(* Specification *)

HandlerStep(h) ==
  \/ Open(h) \/ OpenAborts(h) \/ Create(h)
  \/ \E off \in 0 .. MaxLength : WriteElsewhere(h, off)
  \/ \E size \in 1 .. MaxLength :
       Write(h, size) \/ WriteFails(h, size) \/ WriteLost(h, size)
  \/ Release(h) \/ ReleaseChanged(h)
  \/ StoreChunk(h) \/ StoreFile(h) \/ StoreThrows(h) \/ StoreLost(h)

ReaderStep(r) ==
  \/ Gridfile(r) \/ Reset(r) \/ ResetCrashes(r) \/ ChunkSize(r) \/ FileLength(r)
  \/ Lock(r) \/ DivideByZero(r) \/ Fetch(r) \/ FetchThrows(r) \/ Copy(r)
  \/ Reply(r)

Others ==
  \/ \E len \in 0 .. MaxLength, cs \in ForeignChunks : Upload(len, cs)
  \/ UnlinkFile \/ UnlinkChunks \/ Truncate

Next ==
  \/ \E h \in Handle : HandlerStep(h)
  \/ \E r \in Reader, h \in Handle, off \in 0 .. MaxLength, size \in 1 .. MaxLength :
       Read(r, h, off, size)
  \/ \E r \in Reader : ReaderStep(r)
  \/ Others \/ Crash

Spec == Init /\ [][Next]_vars

\* A worker thread that has begun a read goes on with it.
FairSpec == Spec /\ \A r \in Reader : WF_vars(ReaderStep(r))

-----------------------------------------------------------------------------
(* Properties *)

Request ==
  [pc: {"idle", "chunksize", "length", "reset", "lock", "fetch", "copy", "done"},
   h: Handle \cup {None}, off: Nat, size: Nat,
   out: Seq((Nat \X Nat) \cup {Garbage}), found: Doc \cup {None},
   result: {"none", "ok", "gone", "error"}]

\* A request has a handle, which is open, and not released, until it is answered;
\* the mutex of the File is held by the reader that is between Lock and the end of
\* Copy, which copies from the chunk that it looked for.
ReaderOK(r) ==
  LET q == reader[r]
      f == file[q.h] IN
    /\ q.pc # "idle" => q.h \in Handle /\ f # None /\ f.stored = None
    /\ q.pc = "reset" => q.found # None
    /\ q.pc \in {"fetch", "copy"} => f.mutex_read = r /\ f.theChunkSize # 0
    /\ q.pc = "copy" => f.theCachedChunkN = ChunkN(r)

\* The buffer holds what was written; a chunk that has a number is there.
FileOK(h) ==
  LET f == file[h] IN
    f # None =>
      /\ f.theWritten <= f.theCurrentDataSize
      /\ f.theCachedChunkN # -1 => f.theCachedChunk # None

\* Every variable has its type, and locks, chunks and buffers are as above.
TypeOK ==
  /\ docs \in Seq(Doc)
  /\ chunks \subseteq Chunk
  /\ removed \subseteq Nat
  /\ uploads \in Nat
  /\ file \in [Handle -> File \cup {None}]
  /\ reader \in [Reader -> Request]
  /\ reads \in Nat
  /\ faults \in Nat
  /\ \A r \in Reader : ReaderOK(r)
  /\ \A h \in Handle : FileOK(h)

\* A read that succeeds returns exactly the requested bytes of the version its
\* handle loaded, whatever other readers of the handle did to the cached chunk
\* and whatever happened to the file meanwhile.  Exempt are handles whose
\* document was loaded twice, which only unsynchronised first reads do.
ReadIsExact ==
  \A r \in Reader :
    LET q == reader[r] IN
      q.pc = "done" /\ q.result = "ok" /\ ~file[q.h].reloaded
        => q.out = Slice(file[q.h].theGridFile, q.off, q.size)

\* While nobody holds mutex_read, the cached chunk is the one that its number
\* says, of the version that the handle reads: also after a getChunk that threw.
CachedChunkMatches ==
  \A h \in Handle :
    LET f == file[h] IN
      f # None =>
        (f.mutex_read = None /\ ~f.reloaded /\ f.theCachedChunkN # -1
           => /\ f.theCachedChunk # None
              /\ f.theCachedChunk.v = f.theGridFile.v
              /\ f.theCachedChunk.n = f.theCachedChunkN)

\* A version that can be found has all of its chunks, whichever way the uploads
\* of other versions ended.
PublishedIsComplete ==
  \A i \in 1 .. Len(docs) :
    ChunksOf(docs[i].v, docs[i].len, docs[i].cs) \subseteq chunks

\* A chunk is missing only from a version that was unlinked while it was read.
GoneOnlyIfRemoved ==
  \A r \in Reader :
    LET q == reader[r] IN
      q.pc = "done" /\ q.result = "gone" /\ ~file[q.h].reloaded
        => file[q.h].theGridFile.v \in removed

\* Every read is answered: no path out of File::read keeps the mutex.
ReadsEnd == \A r \in Reader : reader[r].pc # "idle" ~> reader[r].pc = "idle"

\* The document h is bound to: the loaded one, or the one on its way there.
Document(h) ==
  LET loading == {r \in Reader : reader[r].pc = "reset" /\ reader[r].h = h} IN
    IF file[h] = None THEN None
    ELSE IF file[h].theGridFile # None \/ loading = {} THEN file[h].theGridFile
    ELSE reader[CHOOSE r \in loading : TRUE].found

\* The state of AtomicFile.
VersionOf(d) == [v |-> d.v, len |-> d.len]

Visible == [i \in 1 .. Len(docs) |-> VersionOf(docs[i])]

Used == {docs[i].v : i \in 1 .. Len(docs)} \cup removed

Bound ==
  [h \in Handle |-> IF Document(h) = None THEN None ELSE VersionOf(Document(h))]

AnswerOf(q) ==
  IF q.pc # "done" THEN None
  ELSE IF q.result # "ok" THEN [h |-> None]
  ELSE [h |-> q.h, off |-> q.off, size |-> q.size, data |-> q.out]

Answers == [r \in Reader |-> AnswerOf(reader[r])]

Atomic ==
  INSTANCE AtomicFile WITH
    Version <- [v: 1 .. MaxVersions, len: 0 .. MaxLength],
    visible <- Visible, used <- Used, bound <- Bound, answer <- Answers

\* An open file implements AtomicFile: a read that takes several chunks, under
\* several acquisitions of the mutex, is one atomic look at one version.
ImplementsAtomicFile == Atomic!Spec

-----------------------------------------------------------------------------
(* A claim of the repository that the code does not keep *)

\* file.cpp: the read function "must be synchonized otherwise cached chunks can
\* swap while being read": all that one read returns comes from one version.
ChunksDoNotSwap ==
  \A r \in Reader :
    LET q == reader[r]
        stored == {i \in 1 .. Len(q.out) : q.out[i] # Garbage}
    IN  q.pc = "done" /\ q.result = "ok"
          => \A i, j \in stored : q.out[i][1] = q.out[j][1]

=============================================================================
