# gridfs-fuse in TLA+

gridfs-fuse mounts a MongoDB GridFS as a file system.  It is a FUSE program:
the kernel turns system calls into requests, libfuse hands each request to a
worker thread, and one handler of `src/filesystem_operations.cpp` serves it by
calls to MongoDB and to memcached.  There is no lock around a handler, and
several mounts may serve one database.  Almost everything that can go wrong
is an order of such calls that nobody wrote down.

This directory models that: the handlers as sequences of calls, interleaved,
with failures, and what has to be true all the same.  Paths below are
relative to the repository.

## 1. Inventory

| Component | State | Operations | Talks to |
|---|---|---|---|
| Handlers (`src/filesystem_operations.cpp`) | none of their own; the handle in `fuse_file_info.fh` | getattr, mkdir, rmdir, opendir, readdir, releasedir, create, unlink, open, read, write, release, symlink, readlink, chmod, chown, truncate, utimens | all of the below |
| FilesystemEntry (`src/filesystem_entry.cpp`) | `theGridFile` (loaded lazily), a pooled MongoDB connection | gridfile, stat, create, remove, chown, chmod, utimes, updateContentType, synchonizeUpdate | GridFS `files` collection |
| File (`src/file.cpp`) | `theChunkSize`, `theFileLength`, one cached chunk under `mutex_read`; the write buffer `theData`, `theWritten`, `theCurrentDataSize`, `theHasChanges` | write, store, read, truncate | FilesystemEntry, GridFS `chunks` collection |
| Directory (`src/directory.cpp`) | none | list, isEmpty, pathregex | GridFS `files`, by regular expression |
| Symlink (`src/symlink.cpp`) | none | read | GridFS |
| Memcache (`src/gridfs_fuse.cpp`) | stat records under `a:` + path | get, set, remove | memcached, through a pool of connections |
| Proc (`src/proc.cpp`) | the server list of `theMaster` | list, stat, create (adds a server) | libmemcached |
| FileInfo (`src/fileinfo.cpp`) | the union behind a handle | destructor | File, Directory, Proc |
| Fuse (`src/gridfs_fuse.cpp`, `bin/main.cpp`) | configuration, pool | init, createRootDir, cache, release | everything |
| AuthHook (`src/auth_hook.cpp`) | credentials | onCreate | MongoDB |

How they interact:

* A handler that reads attributes (getattr) looks into memcached first, then
  into MongoDB, and stores what it found in memcached with no expiry.
* A handler that changes attributes loads the document, sends a write without
  acknowledgement, waits for it with getLastError (`synchonizeUpdate`), and
  then deletes the memcached record.  An exception in any of these ends the
  handler with EIO (`GRIDFS_CATCH`) and skips the rest.
* open and create make a File that release deletes.  In between several
  worker threads read it at once.  What is written stays in memory until
  release stores it as a new GridFS version: its chunks, then its document.

What is hard about each, and what makes it correct:

* **attribute path**: interleavings of handlers between any two calls, calls
  that fail half-way, a mount that dies, a write that the server applies after
  its handler gave up.  Correct means: a cached record is the current one, up
  to reasons one can list; an answer of "ok" means that the change is made.
* **File**: concurrent reads share the cached chunk and the lazily loaded
  document; versions are uploaded and removed by others during a read; stores
  die half-way; memory runs out.  Correct means: a read returns the requested
  bytes of one version; a version that can be found is complete; no read hangs.
* **Directory and the name space**: rmdir checks and then removes; the parent
  of a file need not exist; a cursor runs while entries come and go.  Correct
  means: a tree, and a listing of exactly the children that stayed.
* **Content type**: the parser meets strings it did not write, and strtok keeps
  its place in one static for all threads.  Correct means: a change sets what
  it names and leaves the rest alone.
* **Proc and the pool**: a list that is checked and then extended without a
  lock, and clones of it that do not follow.  Correct means: all handlers find
  the record of a path on one server.
* **Session** (handles from open to release): release is asynchronous and its
  result is ignored; error returns that hand out a handle.

`PROJECT.json` lists the hazards line by line with the properties that cover
them.

## 2. Modules

| Module | Models | Extends / instantiates |
|---|---|---|
| `AttrCache` | the attribute path: twelve handlers, MongoDB documents of a few paths, memcached, failures | |
| `Namespace` | the same handlers as the kernels of several mounts call them, and the tree of directories | `AttrCache` |
| `FileHandle` | the File objects of one path: read, write, store, and other clients of GridFS | `AtomicFile` (instance) |
| `AtomicFile` | what an open file promises: the abstract specification | |
| `Listing` | the listing of directories through a cursor | |
| `ContentType` | the content type: its format, and its parse by worker threads that share strtok's static | |
| `Cluster` | the memcached servers, the pool of connections to them, `/proc/instances` | |
| `AttrCacheProofs`, `AttrEffectProofs` | proofs: types, cache coherence; what a change does and leaves alone | `AttrCache` |
| `NamespaceProofs` | proofs: the tree of directories | `Namespace`, `AttrEffectProofs` |
| `FileHandleProofs`, `FileRefinement` | proofs: types, locks, stores and reads; the refinement to `AtomicFile` | `FileHandle` |
| `ListingProofs`, `ContentTypeProofs`, `ClusterProofs` | proofs | `Listing`, `ContentType`, `Cluster` |
| `MCAttrCache`, `MCNamespace`, `MCFileHandle`, `MCListing`, `MCContentType`, `MCCluster` | constants and symmetry sets for TLC | |

How the models meet.  `Namespace` composes the handlers of `AttrCache` with
kernels: each of its steps is a step of `AttrCache` and of one kernel.
`Cluster` takes the single cache of `AttrCache` apart into servers and
connections; of the handlers it keeps the calls to memcached.  `FileHandle`
takes the single insert by which `AttrCache` stores a file apart into chunks.
`ContentType` takes apart what `AttrCache` has as one record: there the parse is
exact, and `ContentType` says when it is not.  The common abstraction of each
pair is stated in the comments of the modules; there is no refinement between
them, only between `FileHandle` and `AtomicFile`.

### AttrCache

One slot `t \in Thread` is one handler invocation, of any thread of any mount.
`call[t]` is its request, `pc[t]` the next call to a store it makes, `doc[t]`
its `theGridFile`, `wire[t]` the write it has sent and the server has not
applied, `reply[t]` its result.  `files[p]` is the set of documents with name
`p` (every upload adds one, `findFile` takes the newest), `cache[p]` the
memcached record.

| Action | Code |
|---|---|
| `Getattr` ... `Rmdir` (requests) | the handlers of `filesystem_operations.cpp`, each with its first call |
| `MemcacheGet`, `MemcacheSet`, `MemcacheRemove`, `MemcacheFails` | `Memcache::get`, `set`, `remove`; the return code that is dropped |
| `Gridfile` with `Found` | `exists()`, and what each handler does with the answer |
| `IsEmpty` | `Directory::isEmpty` in rmdir |
| `SendCreate`, `SendStore`, `SendMeta`, `SendTruncate`, `SendRemove` | `FilesystemEntry::create`, `File::store`, `updateContentType`, `File::truncate`, `FilesystemEntry::remove` |
| `MongoApply`, `MongoDelete` | the server, which applies a write later (a removal document by document) |
| `SynchonizeUpdate` | `synchonizeUpdate`: goes on only when the write has been applied |
| `MongoThrows`, `Crash` | `GRIDFS_CATCH`; the process dies.  A write under way may be lost or still be applied |
| `Evict` | memcached drops a record |

`crossed`, `late` and `excuse` are history variables; no action reads them.
The content type is a record `[mode, owner, time]`, written as a whole because
the code writes it as a whole.  A store is one insert here; its chunks are in
`FileHandle`.  Upload dates come from one counter: ties and skewed clocks are
not modelled.

Properties: `TypeOK`; `StaleOnlyIfExcused` (all the ways in which a cached
record can be out of date, and none else); `FillsAccounted` (the same for what
a getattr holds and has yet to store); `UncrossedCallTakesEffect` (an answer
never overtakes its write, and the effect is complete, removal of every
version included); `RestLeftUnchanged` (a change that no other one crosses
leaves alone all that it does not name).

### FileHandle and AtomicFile

`file[h]` is the File behind handle `h`, with the fields of `file.h`;
`reader[r]` is the read request that worker thread `r` serves.  A byte is the
pair of its version and its position, so the result of a read shows where each
byte comes from.  `docs` and `chunks` are the two GridFS collections.

| Action | Code |
|---|---|
| `Open`, `OpenAborts` | open; `Debug` says whether `assert(exists())` is compiled in.  It makes open load the document, and ends the process when there is none; without it there is a handle all the same |
| `Create` | create, once it has found that there is no document; the empty version that it makes then is stored by the steps of a store (`StoreFile`, `StoreThrows`), and others may store theirs in between |
| `WriteElsewhere`, `Write`, `WriteFails`, `WriteLost` | `File::write` with `init_memory` and `extend_memory`: refused offset, success, a failed mmap or mremap, a copy to the mapping that is gone |
| `Release`, `ReleaseChanged`, `StoreChunk`, `StoreFile`, `StoreThrows`, `StoreLost` | release and `File::store`, chunk by chunk as the driver sends them |
| `Read`, `Gridfile`, `Reset`, `ResetCrashes`, `ChunkSize`, `FileLength` | the start of `File::read`; `Gridfile` and `Reset` are the two halves of `gridfile()` |
| `Lock`, `DivideByZero`, `Fetch`, `FetchThrows`, `Copy`, `Reply` | the loop and the chunk read under the scoped lock |
| `Upload`, `UnlinkFile`, `UnlinkChunks`, `Truncate`, `Crash` | other handlers, mounts and clients |

`AtomicFile` has no chunks, no locks and no loop: versions appear whole, a
handle is bound to one of them, a read is one step.  `ImplementsAtomicFile` is
the refinement: `Visible` and `Used` are read off the documents, `Bound` is the
loaded document (or the one that `gridfile()` has fetched and is about to
store; `Document`), and `Answers` has an answer when a read is done.

Properties: `TypeOK` (with the lock discipline, and the buffer that holds what
was written); `ReadIsExact`; `CachedChunkMatches`; `GoneOnlyIfRemoved`;
`PublishedIsComplete`; `ReadsEnd`; `ImplementsAtomicFile`.  `ReadIsExact`
exempts a handle whose document was replaced while in use (`reloaded`): that
is the race of run `file_swap`.  The second `reset` of the pointer deletes the
`GridFile` that another reader may still refer to; of what such a use after free
can do the model has two outcomes, a clean change of the document (`Reset`) and
the end of the process (`ResetCrashes`).  A create that finds the file answers
EEXIST and leaks the File that it hands out with that: no request ever uses it,
and it is not modelled.

### Namespace

`mountOf[t]` is the mount that slot `t` works for, `sys[t]` the system call that
it serves, `dentry[m][p]` what kernel `m` takes `p` for, `opened[m]` the handles
of `m` that have data to store.  `raced` and `misled` are history.

| Action | Code |
|---|---|
| `SysStat`, `SysCreate` | the lookup (a getattr) with which the kernel begins |
| `SysCreateFree` | the call of create or mkdir once the lookup found nothing |
| `SysRemove`, `SysRelease` | rmdir and unlink; the release after the last close |
| `SysChmod` | chmod: the kernel sends the whole mode, with the file type it takes the path to have, and the handler writes all of it |
| `Kernel` | what the kernel learns from the answer |
| `Forget` | a cached lookup that gets old |

The kernel and libfuse are external, and modelled as far as they restrict what
reaches the handlers: a kernel holds the lock of the directory during create,
mkdir, unlink and rmdir, and that of what is removed or changed; it calls
create only after a lookup that failed; libfuse counts a file as open until its
release is answered, and does not unlink it before.  Locks by path inside newer
versions of libfuse are left out (they would only forbid behaviours).  Two
mounts know nothing of one another.

Of the handlers of `AttrCache` the composition has those that make a document,
remove it or write a type that they were sent.  Left out are symlink (it makes
what create makes, without a handle), chown and utimens (they write back the
mode that they have read) and truncate (it writes none).  The properties and
theorems of this module are about the system without these four.

Properties: `NSTypeOK`; `OrphanOnlyIfRaced` (an entry loses its directory only
when two sides change the two at once, or when a handler removes, stores, makes
or chmods something other than its kernel took the path for);
`OneMountKeepsTree` (with one mount, without failures, and unless an answer of
getattr was wrong about what is a directory or a chmod about what the path is,
every entry has its directory: the kernel's locks close the gap between the
listing and the removal in rmdir);
`KindChangesOnlyIfRaced` (a file becomes a directory or the reverse only in a
race: mkdir itself does not look, and chmod writes the type that its kernel
believes).

### Listing

`docs` holds the documents below the directories, one per version; `lister[l]`
is a directory handle with its `Directory` object, the batch of its cursor and
what the filler was given.

| Action | Code |
|---|---|
| `Opendir`, `Releasedir` | the handlers |
| `Query` | readdir or isEmpty (for rmdir) calls `Directory::list`: the query |
| `More`, `Next1`, `NotEmpty`, `Throws` | the loop over the cursor: the next batch, an entry, the early end in isEmpty, an exception |
| `Upload`, `Delete` | other handlers and mounts |

Which names a regular expression matches is a constant (`Parent`, `Spelled`): a
directory whose name has braces is one that is `Spelled` as another one,
because `pathregex` does not escape braces.  A batch holds any documents that
are there when it is made, except that one which has been there since the query
is not skipped; that is what MongoDB promises of a cursor.

Properties: `TypeOK`; `ListedOnce`; `ListedWasThere`; `StayersAreListed`
(whatever else comes and goes, what stays in a directory is listed, and rmdir
does not take the directory for empty).  The last two exempt directories with
braces in their names, see section 6.

### ContentType

`words` is the content type of the newest document, cut into words by `:` and
`|`, of which the parser sees the first letter and what atoi makes of it.
`parser[t]` is what a worker thread has got so far, `olds` the static variable
of strtok, shared by all.

| Action | Code |
|---|---|
| `Begin`, `Take` | the first and the following calls of strtok in `FilesystemEntry::stat` |
| `Die` | atoi of a null pointer: a key without a value |
| `Chmod`, `Chown`, `Utimens` (with `Change`) | `chmod`, `chown`, `utimes` and `updateContentType` |
| `Getattr` | the answer of stat |
| `Create`, `Upload`, `Unlink` | a new document by this program or another client; none |

A call of strtok is one step.  After the copy that strtok is in has been
deleted, a call by another thread returns a word of `Stray` or none: the code
reads freed memory there, and the set stands for whatever it finds.  What a
request asks for (the mode of a chmod) is chosen when it is written, since
nothing depends on it earlier.  Ints are `-Half .. Half - 1` and unsigned ones
`0 .. 2 * Half - 1`: `ToInt` and `ToUnsigned` are the conversions of atoi and of
the assignments to `mode_t`, `uid_t` and `gid_t`.  `After` is a parse that no other
thread crosses, word by word; it is a recursive function, so that it can be
proved about.

Properties: `TypeOK`; `WrittenIsReadable` (what the handlers write parses to
attributes that are all determined, whatever was there before and however
parses got mixed up); `AloneIsExact` (a parse that no other one crosses shows
the document); `OthersUnchanged` and `SetIsShown` (a chmod, chown or utimens
keeps what it does not name and sets what it does, the edges of the integers
included).

### Cluster

`master` is the server list of `theMaster`, `list[c]` the list of connection `c`
(a clone, made with the connection), `free` the pool, `conn[h]` the connection
of handler `h`.  `store[s][p]` is the version that server `s` has a record of,
`db[p]` the version in MongoDB.

| Action | Code |
|---|---|
| `Getattr`, `Change`, `Touch` | a request: getattr, a handler that changes attributes, touch of a file in `/proc/instances` (its open and release) |
| `Check`, `Add`, `Added` | `Proc::create`: the loop over the list, and memcached_server_add in its two halves |
| `Pop`, `Grow`, `GrowFails`, `Push` | `Memcache::Memcache` and its destructor: a blocking pop, a new clone, a clone that fails (the return code is not read) |
| `Get`, `Find`, `FindNothing`, `Set`, `Write`, `Delete` | the handler |

libmemcached is external: its pool starts with `Initial` clones and makes up to
`Limit`; its consistent hash picks, of the servers a connection knows, the
nearest on the ring (`Rank`).

`raced` notes the servers whose touch met another touch of the same server, or put
its list in place while another handler had copied the one before: what is lost
or doubled is among these.

Properties: `TypeOK`; `ConnectionsConserved`; `TouchLostOnlyIfRaced` (a server
whose touch succeeded is in the list, and once, unless `raced` has it; nothing
else is there); `StaleOnlyIfElsewhere` (a record is out of
date for the reasons of a single cache, or because the removal asked another
server than the one that has the record); `RequestsEnd`.

## 3. Runs

`listing` checks deadlock: uploads, deletions, opendir and releasedir are always
possible.  The other runs use `CHECK_DEADLOCK FALSE`: the number of requests is
bounded, so a behaviour may end.

| Run | Instance | Shows |
|---|---|---|
| `attr_all` | 2 handlers, one path, all kinds of requests, 3 requests, 1 failure | every handler against every other: the cache, the answers, and what a change leaves alone |
| `namespace` | 2 slots of 1 or 2 mounts, a directory and a file below it, 4 requests, 1 failure | when the tree breaks or a path changes its kind, and that one mount keeps the tree |
| `file_readers` | 1 handle, 2 readers, no assertions, versions of others in chunks of 1 or 2, length up to 2, 2 versions | races on the document and on the cached chunk; unlink during a read |
| `file_atomic` | 1 handle, 2 readers, assertions, chunks of 1, length up to 2, 2 versions, unlink, 1 failure | reads of several chunks are atomic looks at one version; every read is answered |
| `file_store` | 2 handles, 1 reader, no assertions, open, create, read, write, unlink, truncate, 2 versions, 1 failure | writes, failed growth, stores that die; stores are atomic |
| `listing` | 1 lister, 3 directories, 4 names, batches of 2, 3 documents at a time, 4 uploads, 2 queries | listings while entries come and go |
| `content` | 2 threads, ints of 3 bits, 4 foreign content types, 3 requests | parse and rewrite, alone and crossed |
| `cluster` | 3 handlers, 2 servers, a pool of 1 that grows to 2, 3 requests, 1 failure | the pool, touches that overlap, and records that a removal misses because its connection knows no server |
| `attr_touch`, `file_swap`, `content_strtok`, `cluster_listed` | see section 6 | a claim of the source, of its documentation or of a test that fails |

Why the bounds are enough for the questions asked:

* Staleness takes one fill and one change (two handlers; three requests with
  the creation).  Mode, owner, time and size have two values each, because a
  change must be visible.  One failure at a time, because the handlers do
  nothing after a failure that a second one could disturb.  No handler reads two
  paths, except rmdir, and that one is in `namespace`.
* The tree breaks by two calls on a directory and its entry; four requests are
  a mkdir with its lookup and a create with its lookup, or, of a directory that
  is there already, an rmdir, a create and a release.
* All invariants and action properties of the passing runs are proved for any
  instance (section 4); what the bounds have to be enough for is the liveness
  properties and the mutants.
* A length of 2 with chunks of 1 has two full chunks, their end, a read that
  spans both and a read beyond the end; with chunks of 2 it has one full chunk
  or a part of one (`file_swap`, length 3 and chunks of 2: a full chunk and a
  part of one); two versions are one to be bound to and one to be confused with;
  two readers are what a mutex is for.
* Three documents in batches of two make two batches, with two versions of one
  name in one batch or in both; two queries are what a handle that keeps
  entries from one listing for the next needs.
* Three-bit integers have times and ids on both sides of the largest int; three
  requests are a document, and two parses that cross, or two changes in a row.
* Two connections and three handlers make one wait.  The connection that the pool
  begins with never knows a server, so the records of the run differ between a
  server and none: what two servers do, each known to some connection, takes a
  larger pool and more requests, and is covered by the theorem `ClusterCoherence`
  alone.

**Fairness.** `file_atomic` assumes weak fairness of each worker thread's step
within a read, `cluster` of each handler's step.  A thread that libfuse runs is
scheduled again; it can wait only for `mutex_read` or for a connection, and both
become free for good once the finitely many others are through.  Requests are
bounded, and `RequestsEnd` is claimed for that: the pool of libmemcached is not
first come, first served, and under an endless load nothing is known of one
waiter.  Nothing is assumed of clients, of requests, of writers or of failures.

Each property of each passing run has a mutant in `PROJECT.json`: a variant of
one definition as a slip in the code would make it (a lock that is not taken, a
number set before the call that can throw, a document before its chunks, a
connection that one way out keeps) that the property rejects.  The variants are
the operators marked "Mutant of" in the modules; no specification uses them.

## 4. Proofs

What is proved is proved for every value of the constants: any sets of handlers,
mounts, threads, paths, names and values, any bounds.  Each module's
`ConstantsAssumption` (and `NSAssumption`) is all that is assumed, and TLC evaluates
them in every run.  Two theorems have a hypothesis of their own, named below.
For each invariant there is a stronger one that is inductive; its proof goes
action by action.

`AttrCacheProofs`:

* `TypeCorrect`: `Spec => []TypeOK`.  `TypeOK` is inductive because it
  contains `HandlerOK`: at which call a handler can be, given its request.
  For instance a chmod that sends has found a document, which is why
  `doc[t].meta` is a record at that point.
* `CoherenceInductive`: `Spec => []CoherenceInv`.  `StaleOnlyIfExcused` is not
  inductive: `Memcache::set` writes what the getattr read long before, so the
  invariant must speak of that document too.  `CoherenceInv` says for every
  path that its entry, and for every getattr between its lookup and its set
  that its document, is current, or that the change that outdated it still has
  its invalidation ahead, or that this is recorded (`excuse`, `late`).  The cases
  that carry it are the server's (`MongoApply`, `MongoDelete`: the handler waits
  in `synchonizeUpdate`, so its removal is still due), `MemcacheRemove` (fills it
  overtakes are marked) and `Abandon` (the write may outlive its handler).
* `CacheCoherence` and `FillsAreAccounted`: the two properties, from it.

`AttrEffectProofs`:

* `ChangesTakeEffect` (`UncrossedCallTakesEffect`) and `NothingElseIsLost`
  (`RestLeftUnchanged`).  Both speak of the moment of the answer; `EffectInv`
  speaks of the whole way there.  `OnCourse`: as long as nobody crosses it, the
  document that a change has loaded is the newest one until its write is applied,
  the write (`Carries`) does what was asked and nothing else, and once it is
  applied its effect is there.  That takes `AloneOnPath` (`crossed` misses nobody)
  and `Dated`, `SentDated`: no document is dated later than the next upload, so
  that an insert becomes the newest.

`NamespaceProofs`, on top of the two:

* `TreeTypeCorrect`: the types (`NSTypeOK`).
* `TreeInductive`: `NSSpec => []NSInv`.  `CallsInv` says where a handler can be,
  given the system call that it serves, that the locks of a kernel exclude each
  other, that a handle is held while it is stored, and that every race there is
  has been noted.  `TreeInv` says of every path that is not in `raced`: what is
  growing below a directory has it (`GrowthHasParent`); what is about to cease to
  be a directory has nothing below it, and nothing is on its way there
  (`ThreatIsEmpty`); a store finds its file, a name that is being made is not
  there, the versions of a path are of one kind, and a chmod sends that kind
  (`SendsItsKind`); and what is there has its directory.
* `OrphansWereRaced` (`OrphanOnlyIfRaced`) and `KindChangesWereRaced`
  (`KindChangesOnlyIfRaced`), from it.
* `OneMountIsRaceless`: as long as there is one mount, no failure and no misleading
  lookup (`Undisturbed`), nothing races at all.  A kernel knows only what it was
  told some time ago, so the invariant, `KernelRight`, says what that is worth:
  what it takes for a directory is one, unless it is just removing it; what it
  takes for something else is none, unless it is just making it; a chmod
  sends the kind that is there (`SendsRightKind`); the directory of
  a name that is being made is there (`InDir`); a handle is one of a file; what is
  made is there when the answer is due; and no handler leaves a write behind.
  `RightIsRaceless` shows that two handlers of such a kernel never get at each
  other's path or directory, and `RightStep` that every step keeps it so: a
  beginning call by what the kernel believes and the locks (`SystemRight`), a write
  because whoever could mind it is locked out (`ServerRight`), and an answer
  because it is right (`SeenIsRight`).
* `OneMountKept` (`OneMountKeepsTree`): from that and `OrphansWereRaced`.

`FileHandleProofs`:

* `TypeCorrect`: the types; with them the lock discipline (the mutex is held by
  exactly the reader that fetches or copies) and that the mapping holds what was
  written.  All that follows needs it.
* `Complete` (`PublishedIsComplete`): by `VersionInv`.  A store that has got to
  chunk `n` has sent all chunks before `n` (`StoreInv`), what is loaded was a
  whole document once (`LoadedInv`), chunks that are there are those of their
  version (`DocsInv`), and versions are not reused.
* `CacheIsRight` (`CachedChunkMatches`): by `ReadInv`, for every handle that was
  loaded once: what a reader has collected is the slice of the loaded version up
  to where it has got (`Collected`), the cached chunk has its number, and the
  reader that holds the mutex copies from the chunk that it looked for.  The case
  that carries it is `Copy`: what it appends continues the slice, an argument
  about quotients and remainders.
* `ReadsAreExact` (`ReadIsExact`) and `MissingWasRemoved` (`GoneOnlyIfRemoved`)
  assume `OneChunkSize`: handles are not written to, or `config.mongo_chunk_size`
  is the chunk size of the driver and of other clients.  Without it they are
  false: a write sets the chunk size by which later reads cut, section 6.  Whether
  a default build meets it depends on the driver: `MONGO_DEFAULT_CHUNK_SIZE` is
  256 KiB (`src/src/gridfs_fuse.cpp:19`), and drivers as recent as those that
  `src/README.txt:26` asks for may store chunks of 255 KiB.  Handles that are only
  read, as those of most programs, meet it always.
* `ExactInOwnChunks`: what is true without it.  A read by the chunk size of the
  loaded document is exact.

`FileRefinement`:

* `Implements`: `ImplementsAtomicFile`, for the behaviours in which no two first
  reads of a handle load its document at once (`[]LoadsAlone`), and given
  `OneChunkSize`.  `file_swap` shows that the condition is needed.  Each step of a
  read is a stutter but the one that finds the document (`Bind`) and the last one,
  which answers.
* `ImplementsLoadedOnce`: the same for all behaviours, where the build or the
  mount rules the race out (`OneLoad`): libfuse's `-s`, one worker thread, or
  assertions and no handle from create.

`ListingProofs`:

* `TypeCorrect`, `OnceOnly` (`ListedOnce`), `NothingElse` (`ListedWasThere`),
  `NothingMissed` (`StayersAreListed`): by `LInv`.  While a listing runs, what has
  stayed is among the documents, what it was given was met there (`Progress`), and
  what is listed is what has left the batch (`Shape`); `Outcome` is what this
  comes to when the cursor is empty.

`ContentTypeProofs`:

* `TypeCorrect`; `WritesAreReadable` (`WrittenIsReadable`), by `WrittenInv`: a
  content type of the handlers is the format of some attributes.
* `AloneParsesAreExact` (`AloneIsExact`), by `AloneInv`: a parser that is not
  crossed has parsed so many words of its copy, and strtok's static points to the
  next one.  What a parse of `n` words gives is the recursive function `After`; that
  it exists is proved for every number of words by a least counterexample, and
  then only its defining equation is used.
* `OthersAreKept` (`OthersUnchanged`) and `ChangesAreShown` (`SetIsShown`): from
  these, and that formatting and parsing give back every value of its type.

`ClusterProofs`:

* `TypeCorrect`: the types, with `HandlerOK`.  That a connection's server is a
  server (`ServerFound`) takes the well-foundedness of the naturals: the hash
  chooses a minimum.
* `NoConnectionLost`: `ConnectionsConserved`, which is inductive together with
  the types.
* `ClusterCoherence`: `StaleOnlyIfElsewhere`, by the invariant that adds what
  each fill under way has read, as in `AttrCacheProofs`.  The case that carries
  it is `Delete`: it clears the server it asks, and marks every record
  elsewhere as one that the last removal has not asked for.
* `TouchesListed`: `TouchLostOnlyIfRaced`, by an invariant that says of every server
  not in `raced` that at most one touch of it is at work, that it is not in the list
  when that touch is past its check, and that every copy of the list under way has
  it if the list has it.

Model-checked only: `ReadsEnd` and `RequestsEnd`, which are liveness under
fairness and out of the prover's reach; and, of course, that the claims of
section 6 are violated.

Attempts at a proof have changed two properties and the history of one module.
`OneMountKeepsTree` was false beyond the old bounds of its run: a getattr can
also tell the kernel that what has become a directory is none, and unlink then
removes it without a listing; `misled` notes that now, and also the chmod of
something that is not what the kernel takes it for.  And `raced` noted too much:
a mkdir and a create below it, or a removal of what is gone already, do no harm.
`ReadIsExact` turned out to need `OneChunkSize`.

## 5. Not modelled, and the plan

Not modelled, with the reason:

* Offsets of 2 GiB and more: `File::read` casts offset and chunk size to int
  (`src/src/file.cpp:107`).  The models have unbounded integers.
* Upload dates that tie, and skewed clocks (`src/src/filesystem_entry.cpp:34`):
  all models take dates from one counter.
* Handles that leak: create returns a handle with EEXIST and open one with
  ENAMETOOLONG, which FUSE does not release.  Nothing waits for what leaks.
* symlink, chown, utimens and truncate in the composition with the kernels
  (`Namespace`); `AttrCache` has them.
* readlink, which copies the target into a buffer of given size: sequential and
  without state.
* `Fuse::createRootDir` by several mounts at once: it leaves several versions
  of the root's document, which lookups and listings treat as one.
* `Proc` for paths below `/proc` other than its own three: `theType` is
  uninitialised and switched on; no state depends on it.
* `AuthHook` (one call that succeeds or ends the process), logging, option
  parsing, packaging: no state that a handler reads.

The wire protocols, GridFS, memcached, libmemcached, libfuse and the kernel are
external and modelled from how the handlers use them: an unacknowledged write, a
query by name, the newest upload first, a get, a set, a delete, a pool.

Planned next:

1. The read loop with the integer widths of the code.
2. Handles from open to an asynchronous release over several paths, with the
   handles that leak.
3. The remaining handlers under the kernels of `Namespace`.

## 6. What the code does not keep

Shown by a run that finds the counterexample:

* `attr_touch` / `TouchIsReported`: getattr reads the document, utimens changes
  it and removes the record, getattr stores the old one.  `test/simple.sh.in`
  expects the next stat after a touch to differ; here it never will, for
  nothing expires.
* `file_swap` / `ChunksDoNotSwap`: the chunk read takes a lock against swapped
  chunks, but the lazy load of the document takes none.  With assertions the
  document is loaded by open; in a Release build, the default, two first reads
  load it twice and may get two versions.  When the second one comes while a read
  is between two chunks, that read returns bytes of both.  The
  same race ends in a division by zero when the first look found no document
  (`DivideByZero`, in `file_readers`).
* `content_strtok` / `LeavesUnchanged`: `stat()` parses with strtok, whose
  static all worker threads share.  A chmod whose parse meets another one goes
  on in the copy of that one, and writes back an owner and a time from there,
  or the defaults; its comment says that it leaves them unchanged.
* `cluster_listed` / `ListedServersAreUsed`: touching a file in
  `/proc/instances` adds a server to the master; connections made earlier never
  learn of it, so two handlers may ask two servers for one path.

Met while modelling, and stated here without a run:

* open asserts that getattr was called before and so the file exists
  (`src/src/filesystem_operations.cpp:370`); it may be gone by then, or the
  getattr may have been answered from the cache.  A build with assertions then
  dies, and the default one hands out a handle of no file.
* `src/README.txt:102` says that localhost:11211 is always used as a default
  memcached server.  `Fuse::init` makes the list empty
  (`memcached_create(NULL)`, `src/src/gridfs_fuse.cpp:205`; `Init` of `Cluster`),
  and nothing adds to it before the first touch; 11211 is only the port of a
  touched name that has none (`src/src/proc.cpp:75`).  Until then no connection has
  a server and nothing is cached.
* `src/README.txt:113` says that memcached nodes that become unavailable are
  removed.  Nothing in the code removes one: the only behaviour that it sets is the
  hash (`src/src/gridfs_fuse.cpp:207`), and no action of `Cluster` shortens a list.
* The existence check and the insert of create are two calls
  (`src/src/filesystem_operations.cpp:276`); two mounts both succeed.
* A write, refused or not, sets the handle's chunk size to the configured one
  (`src/src/file.cpp:39`); a later read of a file that another client stored in
  smaller chunks copies from beyond the chunk.
* `extend_memory` overwrites the pointer with what mremap returned before
  checking it (`src/src/file.cpp:202`); release then stores from `MAP_FAILED`.
* `pathregex` says that it escapes all special characters and leaves out braces
  (`src/src/directory.cpp:58-77`): a directory named `a{2}` lists the entries of
  `aa`, and rmdir takes it for empty.
* Content types of other clients: `text/plain` begins with the letter of a key
  and has no value, and atoi gets a null pointer
  (`src/src/filesystem_entry.cpp:180`; `Die`), although the comment above the
  parser says that it uses defaults for content types that are not its own.
