------------------------------ MODULE AttrCache ------------------------------
(***************************************************************************)
(* The attribute path of gridfs-fuse.                                      *)
(*                                                                         *)
(* Every FUSE request that reads or changes the attributes of a path is a  *)
(* handler of filesystem_operations.cpp.  A handler talks to two shared    *)
(* stores that nothing locks together: the GridFS "files" collection in    *)
(* MongoDB and the stat records in memcached.  The stores are shared by    *)
(* the worker threads of one mount and by all mounts of the database, so a *)
(* handler is modelled as the sequence of its calls to the two stores, one *)
(* action per call, and the handlers interleave between any two calls.     *)
(*                                                                         *)
(* A path's document is found by name; the newest upload wins              *)
(* (GridFS::findFile sorts by uploadDate).  Upload dates are drawn from    *)
(* one counter here: the clients' clocks are taken to be synchronised and  *)
(* no two uploads to share a millisecond.                                  *)
(***************************************************************************)
EXTENDS Naturals

CONSTANTS
  Thread,        \* handler invocations that can be active at the same time
  Path,          \* paths outside /proc
  Children,      \* Children[p]: the paths one level below p
  Mode,          \* st_mode values
  DirMode,       \* those of them that have S_IFDIR set
  LinkMode,      \* S_IFLNK | 0777
  DefaultMode,   \* S_IFREG | 0644, for a document without our content type
  Owner,         \* uid/gid pairs
  DefaultOwner,  \* config.default_uid, config.default_gid
  Time,          \* times of modification
  NoTime,        \* the time_t that stat() leaves uninitialised
  Size,          \* lengths of files and links
  Empty,         \* length 0
  DirSize,       \* the constant 4096 reported for directories
  None,          \* no document, no cache entry, no pending write, no answer
  Ops,           \* the requests the environment sends
  MaxCalls,      \* bound: requests in a behaviour
  MaxFaults      \* bound: failures in a behaviour

OpName == {"getattr", "open", "chmod", "chown", "utimens", "truncate",
           "store", "create", "mkdir", "symlink", "unlink", "rmdir"}

-----------------------------------------------------------------------------
(* Data *)

\* The content type "m:..|u:..|g:..|t:..", one string that is always
\* rewritten as a whole.
Meta == [mode: Mode, owner: Owner, time: Time \cup {NoTime}]

\* A document of the files collection; v orders the uploads of all clients.
Doc == [v: Nat, meta: Meta, size: Size]

StatBuf == [meta: Meta, size: Size \cup {DirSize}]

\* What stat() parses out of a document that has no content type of ours.
DefaultMeta == [mode |-> DefaultMode, owner |-> DefaultOwner, time |-> NoTime]

\* A write sent on a handler's connection that the server has not applied.
Write == [kind: {"insert"}, doc: Doc]
           \cup [kind: {"meta"}, v: Nat, meta: Meta]
           \cup [kind: {"length"}, v: Nat]
           \cup [kind: {"delete"}, vs: SUBSET Nat]

\* A request and its argument.
Call == [op: {"chmod", "create", "mkdir"}, path: Path, arg: Mode]
          \cup [op: {"chown"}, path: Path, arg: Owner]
          \cup [op: {"utimens"}, path: Path, arg: Time]
          \cup [op: {"truncate", "store", "symlink"}, path: Path, arg: Size]
          \cup [op: {"none", "getattr", "open", "unlink", "rmdir"},
                path: Path, arg: {None}]

ASSUME ConstantsAssumption ==
  /\ Children \in [Path -> SUBSET Path]
  /\ Path # {}
  /\ DirMode \subseteq Mode
  /\ {LinkMode, DefaultMode} \subseteq Mode \ DirMode
  /\ DefaultOwner \in Owner
  /\ NoTime \notin Time
  /\ Empty \in Size
  /\ None \notin Doc \cup StatBuf \cup Write
  /\ Ops \subseteq OpName
  /\ MaxCalls \in Nat
  /\ MaxFaults \in Nat

Creators == {"create", "mkdir", "symlink"}
Removers == {"unlink", "rmdir"}
\* The handlers that end with Memcache::remove.
Invalidators == {"chmod", "chown", "utimens", "truncate", "store"} \cup Removers
Mutators == Creators \cup Invalidators

VARIABLES
  files,    \* files[p]: the documents named p
  clock,    \* source of upload dates
  cache,    \* cache[p]: the stat record under key "a:" + p, or None
  pc,       \* the store call a handler makes next, or "idle"
  call,     \* the request being handled, or handled last
  doc,      \* theGridFile of the handler's FilesystemEntry
  wire,     \* the write pending on the handler's connection; it outlives the
            \* handler when that fails, and the slot t is then not used again
            \* until the server has applied it
  reply,    \* what the last request of the thread returned
  calls,    \* requests so far
  faults,   \* failures so far
  \* History, read by properties only:
  crossed,  \* another change of the same path was active since this call began
  late,     \* a change was made, its invalidation over, while a fill waited
  excuse    \* excuse[p]: why the entry of p may be out of date

history == <<crossed, late, excuse>>
vars == <<files, clock, cache, pc, call, doc, wire, reply, calls, faults,
          crossed, late, excuse>>

Op(t) == call[t].op
PathOf(t) == call[t].path

-----------------------------------------------------------------------------
(* GridFS, as the handlers use it *)

\* GridFS::findFile: the document with the newest upload date.
Newest(S) == {d \in S : \A e \in S : e.v <= d.v}

FindFile(S) ==
  IF Newest(S) = {} THEN None ELSE CHOOSE d \in Newest(S) : TRUE

\* The stat record of a document; directories report a constant size.
Stat(d) ==
  [meta |-> d.meta,
   size |-> IF d.meta.mode \in DirMode THEN DirSize ELSE d.size]

\* What a getattr that bypasses the cache would report.
Current(p) ==
  LET d == FindFile(files[p]) IN IF d = None THEN None ELSE Stat(d)

\* The documents of a path once a write has been applied to them.  An update
\* selects by _id, so it changes nothing when that document is gone.
Applied(S, w) ==
  CASE w.kind = "insert" -> S \cup {w.doc}
    [] w.kind = "meta" ->
         {IF d.v = w.v THEN [d EXCEPT !.meta = w.meta] ELSE d : d \in S}
    [] w.kind = "length" ->
         {IF d.v = w.v THEN [d EXCEPT !.size = Empty] ELSE d : d \in S}

-----------------------------------------------------------------------------
(* History *)

\* u is changing, or may still change, path p: it is at work, or it failed
\* and left a write on its way.
Mutating(u, p) ==
  /\ pc[u] # "idle" \/ wire[u] # None
  /\ Op(u) \in Mutators /\ PathOf(u) = p

\* u has read the document it is about to put into the cache of p.
Filling(u, p) == pc[u] = "set" /\ PathOf(u) = p

\* A change of p was sent and its handler has yet to remove the entry.
InvalidationDue(p) ==
  \E u \in Thread :
    pc[u] \in {"sync", "remove"} /\ Op(u) \in Invalidators /\ PathOf(u) = p

\* A change of p that no invalidation will follow.
NoteUninvalidated(p, why) ==
  /\ excuse' = IF cache[p] = None THEN excuse
               ELSE [excuse EXCEPT ![p] = @ \cup {why}]
  /\ late' = [u \in Thread |-> late[u] \/ Filling(u, p)]

Fault == faults < MaxFaults /\ faults' = faults + 1

-----------------------------------------------------------------------------
(* Requests *)

\* No request is being handled and nothing is cached.
StartsFrom(documents, uploads) ==
  /\ files = documents
  /\ clock = uploads
  /\ cache = [p \in Path |-> None]
  /\ pc = [t \in Thread |-> "idle"]
  /\ call = [t \in Thread |->
               [op |-> "none", path |-> CHOOSE p \in Path : TRUE, arg |-> None]]
  /\ doc = [t \in Thread |-> None]
  /\ wire = [t \in Thread |-> None]
  /\ reply = [t \in Thread |-> None]
  /\ calls = 0
  /\ faults = 0
  /\ crossed = [t \in Thread |-> FALSE]
  /\ late = [t \in Thread |-> FALSE]
  /\ excuse = [p \in Path |-> {}]

Init == StartsFrom([p \in Path |-> {}], 0)

Begin(t, op, p, a, first) ==
  /\ pc[t] = "idle" /\ wire[t] = None /\ op \in Ops /\ calls < MaxCalls
  /\ calls' = calls + 1
  /\ call' = [call EXCEPT ![t] = [op |-> op, path |-> p, arg |-> a]]
  /\ pc' = [pc EXCEPT ![t] = first]
  /\ reply' = [reply EXCEPT ![t] = None]
  /\ crossed' = [u \in Thread |->
                   IF u = t THEN \E w \in Thread \ {t} : Mutating(w, p)
                   ELSE crossed[u] \/ (op \in Mutators /\ PathOf(u) = p)]
  /\ UNCHANGED <<files, clock, cache, doc, wire, faults, late, excuse>>

Getattr(t, p) == Begin(t, "getattr", p, None, "get")
Chmod(t, p) == \E m \in Mode : Begin(t, "chmod", p, m, "find")
Chown(t, p) == \E o \in Owner : Begin(t, "chown", p, o, "find")
Utimens(t, p) == \E m \in Time : Begin(t, "utimens", p, m, "find")
Truncate(t, p) == \E n \in Size : Begin(t, "truncate", p, n, "find")
Create(t, p) ==
  \E m \in Mode \ (DirMode \cup {LinkMode}) : Begin(t, "create", p, m, "find")
Mkdir(t, p) == \E m \in DirMode : Begin(t, "mkdir", p, m, "send")
Symlink(t, p) == \E n \in Size : Begin(t, "symlink", p, n, "find")
Unlink(t, p) == Begin(t, "unlink", p, None, "find")
Rmdir(t, p) == Begin(t, "rmdir", p, None, "find")

\* release() of a handle with unwritten data.  The handle may have loaded its
\* document long before: the handler then rests between "find" and "send".
ReleaseDirty(t, p) == \E n \in Size : Begin(t, "store", p, n, "find")

\* The kernel opens a path only after a getattr has reported it.
Open(t, p) ==
  /\ Op(t) = "getattr" /\ PathOf(t) = p /\ reply[t] = "ok"
  /\ Begin(t, "open", p, None, "find")

Request(t, p) ==
  \/ Getattr(t, p) \/ Open(t, p)
  \/ Chmod(t, p) \/ Chown(t, p) \/ Utimens(t, p) \/ Truncate(t, p)
  \/ Create(t, p) \/ Mkdir(t, p) \/ Symlink(t, p) \/ ReleaseDirty(t, p)
  \/ Unlink(t, p) \/ Rmdir(t, p)

-----------------------------------------------------------------------------
(* The calls of a handler *)

Goto(t, next) == pc' = [pc EXCEPT ![t] = next] /\ UNCHANGED reply

Return(t, r) ==
  /\ pc' = [pc EXCEPT ![t] = "idle"]
  /\ reply' = [reply EXCEPT ![t] = r]

\* Mutant of MemcacheGet: a miss is taken for the answer.
MemcacheGetOnly(t) ==
  /\ pc[t] = "get"
  /\ Return(t, IF cache[PathOf(t)] = None THEN "ENOENT" ELSE "ok")
  /\ UNCHANGED <<files, clock, cache, call, doc, wire, calls, faults, history>>

\* Memcache::get in getattr.  An error of memcached reads like a miss.
MemcacheGet(t) ==
  /\ pc[t] = "get"
  /\ \/ cache[PathOf(t)] # None /\ Return(t, "ok") /\ UNCHANGED faults
     \/ cache[PathOf(t)] = None /\ Goto(t, "find") /\ UNCHANGED faults
     \/ cache[PathOf(t)] # None /\ Goto(t, "find") /\ Fault
  /\ UNCHANGED <<files, clock, cache, call, doc, wire, calls, history>>

\* What a handler does once it knows whether the path has a document d.
Found(t, d) ==
  CASE Op(t) = "getattr" ->
         IF d = None THEN Return(t, "ENOENT") ELSE Goto(t, "set")
    [] Op(t) = "open" ->
         \* assert(lInfo->file->exists()): without a document a Debug build aborts,
         \* and the other handlers of the mount Crash(); a Release build hands out
         \* a handle all the same.
         IF d = None THEN \E r \in {"abort", "ok"} : Return(t, r) ELSE Return(t, "ok")
    [] Op(t) \in {"create", "symlink"} ->
         IF d = None THEN Goto(t, "send") ELSE Return(t, "EEXIST")
    [] Op(t) = "store" -> Goto(t, "send")
    [] Op(t) = "rmdir" ->
         IF d = None THEN Return(t, "ENOENT") ELSE Goto(t, "list")
    [] Op(t) = "truncate" ->
         IF d = None THEN Return(t, "ENOENT")
         ELSE IF call[t].arg # Empty THEN Return(t, "EIO")
         ELSE Goto(t, "send")
    [] OTHER ->
         IF d = None THEN Return(t, "ENOENT") ELSE Goto(t, "send")

\* Mutant of Gridfile: chown() does not ask whether the path exists.
GridfileUnchecked(t) ==
  /\ pc[t] = "find"
  /\ LET d == FindFile(files[PathOf(t)]) IN
       /\ doc' = [doc EXCEPT ![t] = d]
       /\ IF Op(t) = "chown" THEN Goto(t, "send") ELSE Found(t, d)
  /\ late' = [late EXCEPT ![t] = FALSE]
  /\ UNCHANGED <<files, clock, cache, call, wire, calls, faults,
                 crossed, excuse>>

\* FilesystemEntry::gridfile: load the document, once per handler.
Gridfile(t) ==
  /\ pc[t] = "find"
  /\ LET d == FindFile(files[PathOf(t)]) IN
       /\ doc' = [doc EXCEPT ![t] = d]
       /\ Found(t, d)
  /\ late' = [late EXCEPT ![t] = FALSE]
  /\ UNCHANGED <<files, clock, cache, call, wire, calls, faults,
                 crossed, excuse>>

\* Mutant of IsEmpty: rmdir() does not list the directory.
IsEmptyUnlisted(t) ==
  /\ pc[t] = "list"
  /\ Goto(t, "send")
  /\ UNCHANGED <<files, clock, cache, call, doc, wire, calls, faults, history>>

\* Directory::isEmpty in rmdir.
IsEmpty(t) ==
  /\ pc[t] = "list"
  /\ IF \A q \in Children[PathOf(t)] : files[q] = {}
     THEN Goto(t, "send") ELSE Return(t, "ENOTEMPTY")
  /\ UNCHANGED <<files, clock, cache, call, doc, wire, calls, faults, history>>

Send(t, w) ==
  /\ pc[t] = "send"
  /\ Goto(t, "sync")
  /\ wire' = [wire EXCEPT ![t] = w]
  /\ UNCHANGED <<files, cache, call, doc, calls, faults, history>>

\* FilesystemEntry::create, called by create, mkdir and symlink.
SendCreate(t) ==
  /\ Op(t) \in Creators
  /\ clock' = clock + 1
  /\ \E now \in Time :
       LET link == Op(t) = "symlink"
           meta == [mode |-> IF link THEN LinkMode ELSE call[t].arg,
                    owner |-> DefaultOwner, time |-> now]
           size == IF link THEN call[t].arg ELSE Empty
       IN  Send(t, [kind |-> "insert",
                    doc |-> [v |-> clock + 1, meta |-> meta, size |-> size]])

\* File::store: a new document that inherits the loaded one's content type.
SendStore(t) ==
  /\ Op(t) = "store"
  /\ clock' = clock + 1
  /\ Send(t, [kind |-> "insert",
              doc |-> [v |-> clock + 1,
                       meta |-> IF doc[t] = None THEN DefaultMeta
                                ELSE doc[t].meta,
                       size |-> call[t].arg]])

\* Mutant of NewMeta: chown() drops the time it has parsed.
NewMetaDropsTime(t) ==
  CASE Op(t) = "chmod" -> [doc[t].meta EXCEPT !.mode = call[t].arg]
    [] Op(t) = "chown" -> [doc[t].meta EXCEPT !.owner = call[t].arg,
                                             !.time = NoTime]
    [] Op(t) = "utimens" -> [doc[t].meta EXCEPT !.time = call[t].arg]

\* The content type that chmod, chown and utimes write: one field new, the
\* others as loaded.
NewMeta(t) ==
  CASE Op(t) = "chmod" -> [doc[t].meta EXCEPT !.mode = call[t].arg]
    [] Op(t) = "chown" -> [doc[t].meta EXCEPT !.owner = call[t].arg]
    [] Op(t) = "utimens" -> [doc[t].meta EXCEPT !.time = call[t].arg]

\* FilesystemEntry::updateContentType.
SendMeta(t) ==
  /\ Op(t) \in {"chmod", "chown", "utimens"}
  /\ Send(t, [kind |-> "meta", v |-> doc[t].v, meta |-> NewMeta(t)])
  /\ UNCHANGED clock

\* File::truncate.
SendTruncate(t) ==
  /\ Op(t) = "truncate"
  /\ Send(t, [kind |-> "length", v |-> doc[t].v])
  /\ UNCHANGED clock

\* Mutant of SendRemove: only the version that was found is deleted.
SendRemoveNewest(t) ==
  /\ Op(t) \in Removers
  /\ Send(t, [kind |-> "delete", vs |-> {doc[t].v}])
  /\ UNCHANGED clock

\* FilesystemEntry::remove: GridFS::removeFile queries every document of the
\* name, then deletes them one by one.
SendRemove(t) ==
  /\ Op(t) \in Removers
  /\ LET vs == {d.v : d \in files[PathOf(t)]} IN
       Send(t, IF vs = {} THEN None ELSE [kind |-> "delete", vs |-> vs])
  /\ UNCHANGED clock

\* What a write applied for t means to the cache: t will still remove the
\* entry, or t is gone, or t never removes it and the path had a document.
NoteApplied(t) ==
  LET p == PathOf(t) IN
    IF pc[t] = "idle" THEN NoteUninvalidated(p, "lost")
    ELSE IF Op(t) \in Creators /\ files[p] # {}
    THEN NoteUninvalidated(p, "clobber")
    ELSE UNCHANGED <<late, excuse>>

\* The server applies an insert or an update.
MongoApply(t) ==
  /\ wire[t] # None /\ wire[t].kind # "delete"
  /\ files' = [files EXCEPT ![PathOf(t)] = Applied(@, wire[t])]
  /\ wire' = [wire EXCEPT ![t] = None]
  /\ NoteApplied(t)
  /\ UNCHANGED <<clock, cache, pc, call, doc, reply, calls, faults, crossed>>

\* The server deletes one document; the order of the cursor is not known.
MongoDelete(t) ==
  /\ wire[t] # None /\ wire[t].kind = "delete"
  /\ \E n \in wire[t].vs :
       /\ files' = [files EXCEPT ![PathOf(t)] = {d \in @ : d.v # n}]
       /\ wire' = [wire EXCEPT ![t] =
                     IF wire[t].vs = {n} THEN None
                     ELSE [kind |-> "delete", vs |-> wire[t].vs \ {n}]]
  /\ NoteApplied(t)
  /\ UNCHANGED <<clock, cache, pc, call, doc, reply, calls, faults, crossed>>

\* Mutant of SynchonizeUpdate: the answer overtakes the write.
SynchonizeNothing(t) ==
  /\ pc[t] = "sync"
  /\ IF Op(t) \in Creators THEN Return(t, "ok") ELSE Goto(t, "remove")
  /\ UNCHANGED <<files, clock, cache, call, doc, wire, calls, faults, history>>

\* Mutant of SynchonizeUpdate: utimens() and release() end with the write and
\* leave the cached record in place.
SynchonizeKeepsEntry(t) ==
  /\ pc[t] = "sync" /\ wire[t] = None
  /\ IF Op(t) \in Creators \cup {"utimens", "store"}
     THEN Return(t, "ok") ELSE Goto(t, "remove")
  /\ UNCHANGED <<files, clock, cache, call, doc, wire, calls, faults, history>>

\* FilesystemEntry::synchonizeUpdate: getLastError answers once the writes
\* sent on this connection have been applied.
SynchonizeUpdate(t) ==
  /\ pc[t] = "sync"
  /\ wire[t] = None
  /\ IF Op(t) \in Creators THEN Return(t, "ok") ELSE Goto(t, "remove")
  /\ UNCHANGED <<files, clock, cache, call, doc, wire, calls, faults, history>>

\* Memcache::set in getattr.
MemcacheSet(t) ==
  /\ pc[t] = "set"
  /\ cache' = [cache EXCEPT ![PathOf(t)] = Stat(doc[t])]
  /\ excuse' = [excuse EXCEPT ![PathOf(t)] = IF late[t] THEN {"overlap"} ELSE {}]
  /\ Return(t, "ok")
  /\ UNCHANGED <<files, clock, call, doc, wire, calls, faults, crossed, late>>

\* Memcache::remove at the end of every handler that invalidates.
MemcacheRemove(t) ==
  /\ pc[t] = "remove"
  /\ LET p == PathOf(t) IN
       /\ cache' = [cache EXCEPT ![p] = None]
       /\ excuse' = [excuse EXCEPT ![p] = {}]
       /\ late' = [u \in Thread |-> late[u] \/ Filling(u, p)]
  /\ Return(t, "ok")
  /\ UNCHANGED <<files, clock, call, doc, wire, calls, faults, crossed>>

-----------------------------------------------------------------------------
(* Failures *)

\* The return code of memcached_set and memcached_delete is dropped: when the
\* server cannot be reached the handler still reports success.
MemcacheFails(t) ==
  /\ pc[t] \in {"set", "remove"}
  /\ Fault
  /\ IF pc[t] = "remove" THEN NoteUninvalidated(PathOf(t), "lost")
     ELSE UNCHANGED <<late, excuse>>
  /\ Return(t, "ok")
  /\ UNCHANGED <<files, clock, cache, call, doc, wire, calls, crossed>>

\* The handler goes no further.  The write it sent is lost with it, unless it
\* was under way: then the server applies it with nobody left to wait for it.
Abandon(t, r) ==
  /\ Fault
  /\ IF pc[t] \in {"sync", "remove"} /\ Op(t) \in Invalidators
     THEN NoteUninvalidated(PathOf(t), "lost")
     ELSE UNCHANGED <<late, excuse>>
  /\ wire' \in {wire, [wire EXCEPT ![t] = None]}
  /\ Return(t, r)
  /\ UNCHANGED <<files, clock, cache, call, doc, calls, crossed>>

\* A call to MongoDB throws: GRIDFS_CATCH turns it into EIO and skips the rest.
MongoThrows(t) ==
  /\ pc[t] \in {"find", "list", "send", "sync"}
  /\ Abandon(t, "EIO")

\* The process of the mount dies (for handlers of one mount, several of these).
Crash(t) ==
  /\ pc[t] # "idle"
  /\ Abandon(t, "dead")

\* memcached drops an entry.
Evict(p) ==
  /\ cache[p] # None
  /\ cache' = [cache EXCEPT ![p] = None]
  /\ excuse' = [excuse EXCEPT ![p] = {}]
  /\ UNCHANGED <<files, clock, pc, call, doc, wire, reply, calls, faults,
                 crossed, late>>

-----------------------------------------------------------------------------
(* Specification *)

Handler(t) ==
  \/ MemcacheGet(t) \/ Gridfile(t) \/ IsEmpty(t)
  \/ SendCreate(t) \/ SendStore(t) \/ SendMeta(t) \/ SendTruncate(t)
  \/ SendRemove(t)
  \/ SynchonizeUpdate(t) \/ MemcacheSet(t) \/ MemcacheRemove(t)

Server(t) == MongoApply(t) \/ MongoDelete(t)

Failure(t) == MemcacheFails(t) \/ MongoThrows(t) \/ Crash(t)

Next ==
  \/ \E t \in Thread : \/ \E p \in Path : Request(t, p)
                       \/ Handler(t) \/ Server(t) \/ Failure(t)
  \/ \E p \in Path : Evict(p)

Spec == Init /\ [][Next]_vars

-----------------------------------------------------------------------------
(* Properties *)

PC == {"idle", "get", "find", "list", "send", "sync", "set", "remove"}

\* Where a handler can be, given its request: only a handler that found a
\* document goes on to use it, and only a change has a write to wait for.
HandlerOK(t) ==
  /\ pc[t] # "idle" => Op(t) # "none"
  /\ pc[t] \in {"get", "set"} => Op(t) = "getattr"
  /\ pc[t] = "set" => doc[t] # None
  /\ pc[t] = "list" => Op(t) = "rmdir" /\ doc[t] # None
  /\ pc[t] \in {"send", "sync"} => Op(t) \in Mutators
  /\ pc[t] = "send" /\ Op(t) \notin Creators \cup {"store"} => doc[t] # None
  /\ pc[t] = "find" => Op(t) # "mkdir"
  /\ pc[t] = "remove" => Op(t) \in Invalidators
  /\ wire[t] # None =>
       /\ pc[t] \in {"sync", "idle"}
       /\ Op(t) \in IF wire[t].kind = "delete" THEN Removers
                   ELSE Mutators \ Removers

\* Every variable has its type: documents, stat records, pending writes and
\* requests are the ones the handlers of filesystem_operations.cpp build, and
\* no handler uses a document it has not found.
TypeOK ==
  /\ files \in [Path -> SUBSET Doc]
  /\ clock \in Nat
  /\ cache \in [Path -> StatBuf \cup {None}]
  /\ pc \in [Thread -> PC]
  /\ call \in [Thread -> Call]
  /\ doc \in [Thread -> Doc \cup {None}]
  /\ wire \in [Thread -> Write \cup {None}]
  /\ reply \in [Thread -> {None, "ok", "abort", "dead", "ENOENT", "EEXIST",
                           "ENOTEMPTY", "EIO"}]
  /\ calls \in Nat
  /\ faults \in Nat
  /\ crossed \in [Thread -> BOOLEAN]
  /\ late \in [Thread -> BOOLEAN]
  /\ excuse \in [Path -> SUBSET {"overlap", "lost", "clobber"}]
  /\ \A t \in Thread : HandlerOK(t)

\* The ways the attribute cache can be out of date, all of them.  An entry
\* differs from what MongoDB would report only while a handler that changed
\* the path still has its Memcache::remove ahead of it, or because
\*   overlap - a getattr stored what it had read before that removal;
\*   lost    - the removal failed, or its handler threw or died before it
\*             (and the server may have applied the write only after that);
\*   clobber - create, mkdir or symlink, which never invalidate, uploaded a
\*             document for a path that had one by then.
StaleOnlyIfExcused ==
  \A p \in Path :
    cache[p] \notin {None, Current(p)} => InvalidationDue(p) \/ excuse[p] # {}

\* The same for a getattr on its way to Memcache::set: the document it holds
\* is what MongoDB would report now, or the handler that outdated it has not
\* removed the entry yet (and may do so first), or its set is marked as late.
FillsAccounted ==
  \A t \in Thread :
    pc[t] = "set" => \/ Stat(doc[t]) = Current(PathOf(t))
                    \/ late[t]
                    \/ InvalidationDue(PathOf(t))

\* A request that reported success and that no other change of its path
\* crossed has had its effect, all of it: the newest document carries the new
\* field (or length), and after unlink or rmdir no version is left.  This is
\* what synchonizeUpdate is for: the answer never overtakes the write.
EffectOf(t) ==
  LET p == PathOf(t)
      d == FindFile(files[p])
      a == call[t].arg
  IN  CASE Op(t) \in Removers -> files[p] = {}
        [] Op(t) \in {"create", "mkdir", "chmod"} -> d # None /\ d.meta.mode = a
        [] Op(t) = "chown" -> d # None /\ d.meta.owner = a
        [] Op(t) = "utimens" -> d # None /\ d.meta.time = a
        [] Op(t) = "truncate" -> d # None /\ d.size = Empty
        [] Op(t) \in {"store", "symlink"} -> d # None /\ d.size = a

UncrossedCallTakesEffect ==
  \A t \in Thread :
    pc[t] = "idle" /\ reply[t] = "ok" /\ Op(t) \in Mutators /\ ~crossed[t]
      => EffectOf(t)

\* Nobody loses what it did not mean to change.  The content type is one string
\* that is read, changed in one field and written back whole (and that a store
\* copies from the document it loaded).  When no other change of the path has
\* crossed the call, the write on its way agrees with the document it is about
\* to replace in every other field.
Agree(t, m, n) ==
  /\ Op(t) # "chmod" => m.mode = n.mode
  /\ Op(t) # "chown" => m.owner = n.owner
  /\ Op(t) # "utimens" => m.time = n.time

RestLeftUnchanged ==
  \A t \in Thread :
    LET w == wire[t]
        current == FindFile(files[PathOf(t)])
    IN  /\ wire[t] # None /\ ~crossed[t] /\ current # None
        /\ Op(t) \in {"chmod", "chown", "utimens", "store"}
        => Agree(t, current.meta, IF w.kind = "insert" THEN w.doc.meta ELSE w.meta)

-----------------------------------------------------------------------------
(* A claim of the repository that the code does not keep *)

\* test/simple.sh.in: "touch" a path, and stat shows the time it was given.
\* (A stat that is answered from the cache is answered by cache[p].)
TouchIsReported ==
  \A t \in Thread :
    LET p == PathOf(t) IN
      pc[t] = "idle" /\ reply[t] = "ok" /\ Op(t) = "utimens" /\ ~crossed[t]
        => cache[p] = None \/ cache[p].meta.time = call[t].arg

=============================================================================
