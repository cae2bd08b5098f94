--------------------------- MODULE AttrCacheProofs ---------------------------
(***************************************************************************)
(* What AttrCache guarantees for every set of handlers, paths and values.  *)
(***************************************************************************)
EXTENDS AttrCache, TLAPS

-----------------------------------------------------------------------------
(* Lemmas about the documents *)

\* GridFS::findFile answers with one of the documents of the name, or none.
LEMMA FindFileType ==
  ASSUME NEW S, S \subseteq Doc
  PROVE  FindFile(S) \in S \cup {None}
BY DEF FindFile, Newest

\* A document that findFile returns for a path is a document.
LEMMA FoundIsDoc ==
  ASSUME TypeOK, NEW p \in Path
  PROVE  FindFile(files[p]) \in Doc \cup {None}
BY FindFileType DEF TypeOK

\* stat() turns a document into a stat record.
LEMMA StatType ==
  ASSUME NEW e \in Doc
  PROVE  Stat(e) \in StatBuf
BY DEF Stat, StatBuf, Doc

\* A write the server applies leaves documents.
LEMMA AppliedType ==
  ASSUME NEW S, S \subseteq Doc, NEW w \in Write, w.kind # "delete"
  PROVE  Applied(S, w) \subseteq Doc
<1>1. CASE w \in [kind: {"insert"}, doc: Doc]
  BY <1>1 DEF Applied
<1>2. CASE w \in [kind: {"meta"}, v: Nat, meta: Meta]
  <2>1. \A e \in S : [e EXCEPT !.meta = w.meta] \in Doc
    BY <1>2 DEF Doc
  <2> QED BY <1>2, <2>1 DEF Applied
<1>3. CASE w \in [kind: {"length"}, v: Nat]
  <2>1. \A e \in S : [e EXCEPT !.size = Empty] \in Doc
    BY ConstantsAssumption DEF Doc
  <2> QED BY <1>3, <2>1 DEF Applied
<1> QED BY <1>1, <1>2, <1>3 DEF Write

\* The handlers stay where HandlerOK says if the one that moves does.
LEMMA HandlersOK ==
  ASSUME TypeOK, NEW t \in Thread, HandlerOK(t)',
         \A u \in Thread \ {t} :
           /\ pc'[u] = pc[u] /\ call'[u] = call[u]
           /\ doc'[u] = doc[u] /\ wire'[u] = wire[u]
  PROVE  \A u \in Thread : HandlerOK(u)'
BY DEF TypeOK, HandlerOK, Op

\* A new request is a request.
LEMMA BeginType ==
  ASSUME TypeOK, NEW t \in Thread, NEW p \in Path, NEW op, NEW a, NEW first,
         Begin(t, op, p, a, first),
         [op |-> op, path |-> p, arg |-> a] \in Call,
         op # "none",
         first \in {"get", "find", "send"},
         first = "get" => op = "getattr",
         first = "find" => op # "mkdir",
         first = "send" => op = "mkdir"
  PROVE  TypeOK'
<1>1. calls' \in Nat
  BY DEF Begin, TypeOK
<1>2. /\ call' \in [Thread -> Call]
      /\ call'[t] = [op |-> op, path |-> p, arg |-> a]
  BY DEF Begin, TypeOK
<1>3. pc' \in [Thread -> PC] /\ pc'[t] = first
  BY DEF Begin, TypeOK, PC
<1>4. reply' \in [Thread -> {None, "ok", "abort", "dead", "ENOENT", "EEXIST",
                             "ENOTEMPTY", "EIO"}]
  BY DEF Begin, TypeOK
<1>5. crossed' \in [Thread -> BOOLEAN]
  BY Zenon DEF Begin, TypeOK
<1>6. HandlerOK(t)'
  BY <1>2, <1>3 DEF HandlerOK, Op, Begin, TypeOK, Mutators, Creators
<1>7. \A u \in Thread : HandlerOK(u)'
  BY <1>6, HandlersOK DEF Begin, TypeOK
<1> QED BY <1>1, <1>2, <1>3, <1>4, <1>5, <1>7 DEF Begin, TypeOK, history

-----------------------------------------------------------------------------
(* Type correctness *)

\* Every request keeps the types.
LEMMA RequestType ==
  ASSUME TypeOK, NEW t \in Thread, NEW p \in Path, Request(t, p)
  PROVE  TypeOK'
<1> USE DEF Call
<1>1. CASE Getattr(t, p)
  BY <1>1, BeginType DEF Getattr
<1>2. CASE Open(t, p)
  BY <1>2, BeginType DEF Open
<1>3. CASE Chmod(t, p)
  BY <1>3, BeginType DEF Chmod
<1>4. CASE Chown(t, p)
  BY <1>4, BeginType DEF Chown
<1>5. CASE Utimens(t, p)
  BY <1>5, BeginType DEF Utimens
<1>6. CASE Truncate(t, p)
  BY <1>6, BeginType DEF Truncate
<1>7. CASE Create(t, p)
  BY <1>7, BeginType DEF Create
<1>8. CASE Mkdir(t, p)
  BY <1>8, BeginType, ConstantsAssumption DEF Mkdir
<1>9. CASE Symlink(t, p)
  BY <1>9, BeginType DEF Symlink
<1>10. CASE ReleaseDirty(t, p)
  BY <1>10, BeginType DEF ReleaseDirty
<1>11. CASE Unlink(t, p)
  BY <1>11, BeginType DEF Unlink
<1>12. CASE Rmdir(t, p)
  BY <1>12, BeginType DEF Rmdir
<1> QED
  BY <1>1, <1>2, <1>3, <1>4, <1>5, <1>6, <1>7, <1>8, <1>9, <1>10, <1>11,
     <1>12 DEF Request

\* What a handler does with the document it has looked for.
LEMMA FoundType ==
  ASSUME TypeOK, NEW t \in Thread, NEW e \in Doc \cup {None}, pc[t] = "find",
         Found(t, e)
  PROVE  /\ pc' = [pc EXCEPT ![t] = pc'[t]]
         /\ pc'[t] \in {"idle", "set", "list", "send"}
         /\ reply' = reply \/ \E r \in {"ok", "abort", "ENOENT", "EEXIST", "EIO"} :
                                reply' = [reply EXCEPT ![t] = r]
         /\ pc'[t] = "set" => Op(t) = "getattr" /\ e # None
         /\ pc'[t] = "list" => Op(t) = "rmdir" /\ e # None
         /\ pc'[t] = "send" =>
              /\ Op(t) \in Mutators
              /\ e = None => Op(t) \in {"create", "symlink", "store"}
<1>1. Op(t) \in OpName
  BY DEF TypeOK, HandlerOK, Call, Op, OpName
<1>2. Op(t) # "mkdir"
  BY DEF TypeOK, HandlerOK
<1>3. ASSUME NEW next \in {"set", "list", "send"}, Goto(t, next)
      PROVE  pc'[t] = next /\ pc' = [pc EXCEPT ![t] = pc'[t]] /\ reply' = reply
  BY <1>3 DEF TypeOK, Goto
<1>4. ASSUME NEW r, Return(t, r)
      PROVE  /\ pc'[t] = "idle" /\ pc' = [pc EXCEPT ![t] = pc'[t]]
             /\ reply' = [reply EXCEPT ![t] = r]
  BY <1>4 DEF TypeOK, Return
<1>5. CASE Op(t) = "getattr"
  BY <1>3, <1>4, <1>5 DEF Found
<1>6. CASE Op(t) = "open"
  BY <1>3, <1>4, <1>6 DEF Found
<1>7. CASE Op(t) \in {"create", "symlink"}
  BY <1>3, <1>4, <1>7 DEF Found, Mutators, Creators
<1>8. CASE Op(t) = "store"
  BY <1>3, <1>4, <1>8 DEF Found, Mutators, Invalidators
<1>9. CASE Op(t) = "rmdir"
  BY <1>3, <1>4, <1>9 DEF Found
<1>10. CASE Op(t) = "truncate"
  BY <1>3, <1>4, <1>10 DEF Found, Mutators, Invalidators
<1>11. CASE Op(t) \in {"chmod", "chown", "utimens", "unlink"}
  BY <1>3, <1>4, <1>11 DEF Found, Mutators, Invalidators, Removers
<1> QED
  BY <1>1, <1>2, <1>5, <1>6, <1>7, <1>8, <1>9, <1>10, <1>11 DEF OpName

\* The store calls of a handler keep the types.
LEMMA GridfileType ==
  ASSUME TypeOK, NEW t \in Thread, Gridfile(t)
  PROVE  TypeOK'
<1> DEFINE e == FindFile(files[PathOf(t)])
<1>1. PathOf(t) \in Path
  BY DEF TypeOK, Call, PathOf
<1>2. e \in Doc \cup {None}
  BY <1>1, FoundIsDoc
<1>3. doc' = [doc EXCEPT ![t] = e] /\ Found(t, e) /\ pc[t] = "find"
  BY DEF Gridfile
<1> HIDE DEF e
<1>4. doc' \in [Thread -> Doc \cup {None}] /\ doc'[t] = e
  BY <1>2, <1>3 DEF TypeOK
<1>5. /\ pc' = [pc EXCEPT ![t] = pc'[t]]
      /\ pc'[t] \in {"idle", "set", "list", "send"}
      /\ reply' = reply \/ \E r \in {"ok", "abort", "ENOENT", "EEXIST", "EIO"} :
                             reply' = [reply EXCEPT ![t] = r]
      /\ pc'[t] = "set" => Op(t) = "getattr" /\ e # None
      /\ pc'[t] = "list" => Op(t) = "rmdir" /\ e # None
      /\ pc'[t] = "send" =>
           /\ Op(t) \in Mutators
           /\ e = None => Op(t) \in {"create", "symlink", "store"}
  BY <1>2, <1>3, FoundType
<1>6. pc' \in [Thread -> PC]
  BY <1>5 DEF TypeOK, PC
<1>7. reply' \in [Thread -> {None, "ok", "abort", "dead", "ENOENT", "EEXIST",
                             "ENOTEMPTY", "EIO"}]
  BY <1>5 DEF TypeOK
<1>8. HandlerOK(t)'
  BY <1>3, <1>4, <1>5 DEF TypeOK, HandlerOK, Gridfile, Op, Creators
<1>9. \A u \in Thread : HandlerOK(u)'
  BY <1>3, <1>5, <1>8, HandlersOK DEF Gridfile, TypeOK
<1> QED BY <1>4, <1>6, <1>7, <1>9 DEF TypeOK, Gridfile

\* A handler that sends a well-typed write of its own kind keeps the types.
LEMMA SendType ==
  ASSUME TypeOK, NEW t \in Thread, NEW w \in Write \cup {None}, Send(t, w),
         clock' \in Nat, Op(t) \in Mutators,
         w # None => IF w.kind = "delete" THEN Op(t) \in Removers
                     ELSE Op(t) \notin Removers
  PROVE  TypeOK'
<1>1. pc' \in [Thread -> PC] /\ pc'[t] = "sync"
  BY DEF Send, Goto, TypeOK, PC
<1>2. wire' \in [Thread -> Write \cup {None}] /\ wire'[t] = w
  BY DEF Send, TypeOK
<1>3. HandlerOK(t)'
  BY <1>1, <1>2 DEF TypeOK, HandlerOK, Send, Op
<1>4. \A u \in Thread : HandlerOK(u)'
  BY <1>3, HandlersOK DEF Send, Goto, TypeOK
<1> QED BY <1>1, <1>2, <1>4 DEF TypeOK, Send, Goto, history

\* create, mkdir and symlink send a document (FilesystemEntry::create).
LEMMA SendCreateType ==
  ASSUME TypeOK, NEW t \in Thread, SendCreate(t)
  PROVE  TypeOK'
<1>1. PICK now \in Time :
        Send(t, [kind |-> "insert",
                 doc |-> [v |-> clock + 1,
                          meta |-> [mode |-> IF Op(t) = "symlink" THEN LinkMode
                                             ELSE call[t].arg,
                                    owner |-> DefaultOwner, time |-> now],
                          size |-> IF Op(t) = "symlink" THEN call[t].arg
                                   ELSE Empty]])
  BY DEF SendCreate
<1>2. CASE Op(t) = "symlink"
  <2>1. call[t].arg \in Size
    BY <1>2 DEF TypeOK, Call, Op
  <2>2. [kind |-> "insert",
         doc |-> [v |-> clock + 1,
                  meta |-> [mode |-> LinkMode,
                            owner |-> DefaultOwner, time |-> now],
                  size |-> call[t].arg]] \in Write
    BY <2>1, ConstantsAssumption DEF Write, Doc, Meta, TypeOK
  <2> QED
    BY <1>1, <1>2, <2>2, SendType
    DEF TypeOK, SendCreate, Mutators, Creators, Removers
<1>3. CASE Op(t) \in {"create", "mkdir"}
  <2>1. call[t].arg \in Mode
    BY <1>3 DEF TypeOK, Call, Op
  <2>2. [kind |-> "insert",
         doc |-> [v |-> clock + 1,
                  meta |-> [mode |-> call[t].arg,
                            owner |-> DefaultOwner, time |-> now],
                  size |-> Empty]] \in Write
    BY <2>1, ConstantsAssumption DEF Write, Doc, Meta, TypeOK
  <2> QED
    BY <1>1, <1>3, <2>2, SendType
    DEF TypeOK, SendCreate, Mutators, Creators, Removers
<1> QED BY <1>2, <1>3 DEF SendCreate, Creators

\* release() of changed data sends a document (File::store).
LEMMA SendStoreType ==
  ASSUME TypeOK, NEW t \in Thread, SendStore(t)
  PROVE  TypeOK'
<1> DEFINE m == IF doc[t] = None THEN DefaultMeta ELSE doc[t].meta
<1>1. call[t].arg \in Size
  BY DEF TypeOK, Call, Op, SendStore
<1>2. m \in Meta
  BY ConstantsAssumption DEF TypeOK, Doc, Meta, DefaultMeta
<1>3. Send(t, [kind |-> "insert",
               doc |-> [v |-> clock + 1, meta |-> m, size |-> call[t].arg]])
  BY DEF SendStore
<1> HIDE DEF m
<1>4. [kind |-> "insert",
       doc |-> [v |-> clock + 1, meta |-> m, size |-> call[t].arg]] \in Write
  BY <1>1, <1>2 DEF Write, Doc, TypeOK
<1> QED
  BY <1>3, <1>4, SendType DEF TypeOK, SendStore, Mutators, Invalidators, Removers

\* The content type that a handler writes back has its type.
LEMMA NewMetaType ==
  ASSUME TypeOK, NEW t \in Thread, doc[t] # None,
         Op(t) \in {"chmod", "chown", "utimens"}
  PROVE  NewMeta(t) \in Meta
<1>1. doc[t].meta \in Meta
  BY DEF TypeOK, Doc
<1>2. CASE Op(t) = "chmod"
  <2>1. call[t].arg \in Mode
    BY <1>2 DEF TypeOK, Call, Op
  <2> QED BY <1>1, <1>2, <2>1 DEF NewMeta, Meta
<1>3. CASE Op(t) = "chown"
  <2>1. call[t].arg \in Owner
    BY <1>3 DEF TypeOK, Call, Op
  <2> QED BY <1>1, <1>3, <2>1 DEF NewMeta, Meta
<1>4. CASE Op(t) = "utimens"
  <2>1. call[t].arg \in Time
    BY <1>4 DEF TypeOK, Call, Op
  <2> QED BY <1>1, <1>4, <2>1 DEF NewMeta, Meta
<1> QED BY <1>2, <1>3, <1>4

\* chmod, chown and utimens send a content type (updateContentType).
LEMMA SendMetaType ==
  ASSUME TypeOK, NEW t \in Thread, SendMeta(t)
  PROVE  TypeOK'
<1>1. Send(t, [kind |-> "meta", v |-> doc[t].v, meta |-> NewMeta(t)])
  BY DEF SendMeta
<1>2. doc[t] # None
  BY DEF TypeOK, HandlerOK, Creators, SendMeta, Send
<1>3. [kind |-> "meta", v |-> doc[t].v, meta |-> NewMeta(t)] \in Write
  BY <1>2, NewMetaType DEF Write, Doc, TypeOK, SendMeta
<1> QED
  BY <1>1, <1>3, SendType DEF TypeOK, SendMeta, Mutators, Invalidators, Removers

\* truncate sends a new length (File::truncate).
LEMMA SendTruncateType ==
  ASSUME TypeOK, NEW t \in Thread, SendTruncate(t)
  PROVE  TypeOK'
<1>1. Send(t, [kind |-> "length", v |-> doc[t].v])
  BY DEF SendTruncate
<1>2. doc[t] # None
  BY DEF TypeOK, HandlerOK, Creators, SendTruncate, Send
<1>3. [kind |-> "length", v |-> doc[t].v] \in Write
  BY <1>2 DEF Write, Doc, TypeOK
<1> QED
  BY <1>1, <1>3, SendType
  DEF TypeOK, SendTruncate, Mutators, Invalidators, Removers

\* unlink and rmdir send the deletion of the versions they saw.
LEMMA SendRemoveType ==
  ASSUME TypeOK, NEW t \in Thread, SendRemove(t)
  PROVE  TypeOK'
<1> DEFINE vs == {e.v : e \in files[PathOf(t)]}
<1>1. vs \in SUBSET Nat
  <2>1. PathOf(t) \in Path
    BY DEF TypeOK, Call, PathOf
  <2> QED BY <2>1 DEF TypeOK, Doc
<1>2. Send(t, IF vs = {} THEN None ELSE [kind |-> "delete", vs |-> vs])
  BY DEF SendRemove
<1> HIDE DEF vs
<1>3. [kind |-> "delete", vs |-> vs] \in Write
  BY <1>1 DEF Write
<1> QED
  BY <1>2, <1>3, SendType DEF TypeOK, SendRemove, Mutators, Invalidators, Removers

\* The history variables keep their types when a change goes uninvalidated.
LEMMA NoteType ==
  ASSUME TypeOK, NEW p \in Path, NEW why \in {"overlap", "lost", "clobber"},
         NoteUninvalidated(p, why)
  PROVE  /\ excuse' \in [Path -> SUBSET {"overlap", "lost", "clobber"}]
         /\ late' \in [Thread -> BOOLEAN]
<1>1. excuse' \in [Path -> SUBSET {"overlap", "lost", "clobber"}]
  BY DEF TypeOK, NoteUninvalidated
<1>2. \A u \in Thread : (late[u] \/ Filling(u, p)) \in BOOLEAN
  OBVIOUS
<1> QED BY <1>1, <1>2, Zenon DEF NoteUninvalidated

\* The server applies one of the writes it was sent.
LEMMA NoteAppliedType ==
  ASSUME TypeOK, NEW t \in Thread, NoteApplied(t)
  PROVE  /\ excuse' \in [Path -> SUBSET {"overlap", "lost", "clobber"}]
         /\ late' \in [Thread -> BOOLEAN]
<1>1. PathOf(t) \in Path
  BY DEF TypeOK, Call, PathOf
<1> QED BY <1>1, NoteType DEF NoteApplied, TypeOK

\* An insert or update that the server applies leaves the types intact.
LEMMA MongoApplyType ==
  ASSUME TypeOK, NEW t \in Thread, MongoApply(t)
  PROVE  TypeOK'
<1>1. PathOf(t) \in Path /\ wire[t] \in Write /\ wire[t].kind # "delete"
  BY DEF TypeOK, Call, PathOf, MongoApply
<1>2. files' \in [Path -> SUBSET Doc]
  BY <1>1, AppliedType DEF TypeOK, MongoApply
<1>3. wire' \in [Thread -> Write \cup {None}] /\ wire'[t] = None
  BY DEF TypeOK, MongoApply
<1>4. HandlerOK(t)'
  BY <1>3 DEF TypeOK, HandlerOK, MongoApply, Op
<1>5. \A u \in Thread : HandlerOK(u)'
  BY <1>4, HandlersOK DEF MongoApply, TypeOK
<1> QED BY <1>2, <1>3, <1>5, NoteAppliedType DEF TypeOK, MongoApply

\* A document that the server deletes leaves the types intact.
LEMMA MongoDeleteType ==
  ASSUME TypeOK, NEW t \in Thread, MongoDelete(t)
  PROVE  TypeOK'
<1>1. PathOf(t) \in Path /\ wire[t] \in Write /\ wire[t].kind = "delete"
  BY DEF TypeOK, Call, PathOf, MongoDelete
<1>2. PICK n \in wire[t].vs :
        /\ files' = [files EXCEPT ![PathOf(t)] = {e \in @ : e.v # n}]
        /\ wire' = [wire EXCEPT ![t] =
                      IF wire[t].vs = {n} THEN None
                      ELSE [kind |-> "delete", vs |-> wire[t].vs \ {n}]]
  BY DEF MongoDelete
<1>3. files' \in [Path -> SUBSET Doc]
  BY <1>1, <1>2 DEF TypeOK
<1>4. [kind |-> "delete", vs |-> wire[t].vs \ {n}] \in Write
  BY <1>1 DEF Write
<1>5. /\ wire' \in [Thread -> Write \cup {None}]
      /\ wire'[t] # None => wire'[t].kind = "delete"
  BY <1>2, <1>4 DEF TypeOK
<1>6. HandlerOK(t)'
  BY <1>1, <1>5 DEF TypeOK, HandlerOK, MongoDelete, Op
<1>7. \A u \in Thread : HandlerOK(u)'
  BY <1>2, <1>6, HandlersOK DEF MongoDelete, TypeOK
<1> QED BY <1>3, <1>5, <1>7, NoteAppliedType DEF TypeOK, MongoDelete

\* A handler that moves without touching its request, its document or its
\* connection.
LEMMA MoveType ==
  ASSUME TypeOK, NEW t \in Thread,
         UNCHANGED <<files, clock, call, doc, calls, crossed>>,
         wire' \in {wire, [wire EXCEPT ![t] = None]},
         NEW next \in PC, pc' = [pc EXCEPT ![t] = next],
         reply' = reply \/ \E r \in {"ok", "EIO", "dead", "ENOTEMPTY"} :
                             reply' = [reply EXCEPT ![t] = r],
         wire'[t] # None => next = "idle",
         next \in {"idle", "find", "send", "remove"},
         next # "idle" => Op(t) # "none",
         next = "find" => Op(t) = "getattr",
         next = "send" => Op(t) = "rmdir" /\ doc[t] # None,
         next = "remove" => Op(t) \in Invalidators,
         cache' \in [Path -> StatBuf \cup {None}],
         faults' \in Nat,
         late' \in [Thread -> BOOLEAN],
         excuse' \in [Path -> SUBSET {"overlap", "lost", "clobber"}]
  PROVE  TypeOK'
<1>1. pc' \in [Thread -> PC] /\ pc'[t] = next
  BY DEF TypeOK
<1>2. /\ wire' \in [Thread -> Write \cup {None}]
      /\ wire'[t] \in {wire[t], None}
      /\ \A u \in Thread \ {t} : wire'[u] = wire[u]
  BY DEF TypeOK
<1>3. reply' \in [Thread -> {None, "ok", "abort", "dead", "ENOENT", "EEXIST",
                             "ENOTEMPTY", "EIO"}]
  BY DEF TypeOK
<1>4. HandlerOK(t)'
  BY <1>1, <1>2 DEF TypeOK, HandlerOK, Op, Mutators, Removers, Invalidators, Creators
<1>5. \A u \in Thread : HandlerOK(u)'
  BY <1>1, <1>2, <1>4, HandlersOK DEF TypeOK
<1> QED BY <1>1, <1>2, <1>3, <1>5 DEF TypeOK

\* The handler steps that only read the stores or touch memcached keep the types.
LEMMA HandlerMoveType ==
  ASSUME TypeOK, NEW t \in Thread,
         \/ MemcacheGet(t) \/ IsEmpty(t) \/ SynchonizeUpdate(t)
         \/ MemcacheSet(t) \/ MemcacheRemove(t)
  PROVE  TypeOK'
<1>1. CASE MemcacheGet(t)
  BY <1>1, MoveType
  DEF MemcacheGet, Goto, Return, Fault, PC, TypeOK, HandlerOK, history
<1>2. CASE IsEmpty(t)
  BY <1>2, MoveType
  DEF IsEmpty, Goto, Return, PC, TypeOK, HandlerOK, history
<1>3. CASE SynchonizeUpdate(t)
  BY <1>3, MoveType
  DEF SynchonizeUpdate, Goto, Return, PC, TypeOK, HandlerOK, Mutators, history
<1>4. CASE MemcacheSet(t)
  <2>1. PathOf(t) \in Path /\ Stat(doc[t]) \in StatBuf
    BY <1>4, StatType DEF TypeOK, HandlerOK, Call, PathOf, MemcacheSet
  <2> QED
    BY <1>4, <2>1, MoveType DEF MemcacheSet, Return, PC, TypeOK, HandlerOK
<1>5. CASE MemcacheRemove(t)
  <2>1. late' \in [Thread -> BOOLEAN]
    BY <1>5, Zenon DEF MemcacheRemove
  <2> QED
    BY <1>5, <2>1, MoveType DEF MemcacheRemove, Return, PC, TypeOK, HandlerOK
<1> QED BY <1>1, <1>2, <1>3, <1>4, <1>5

\* A failed memcached call, an exception and a crash keep the types.
LEMMA FailureType ==
  ASSUME TypeOK, NEW t \in Thread, Failure(t)
  PROVE  TypeOK'
<1>1. PathOf(t) \in Path
  BY DEF TypeOK, Call, PathOf
<1>2. CASE MemcacheFails(t)
  <2>1. /\ excuse' \in [Path -> SUBSET {"overlap", "lost", "clobber"}]
        /\ late' \in [Thread -> BOOLEAN]
    BY <1>1, <1>2, NoteType DEF MemcacheFails, TypeOK
  <2>2. /\ pc' = [pc EXCEPT ![t] = "idle"] /\ "idle" \in PC
        /\ reply' = [reply EXCEPT ![t] = "ok"]
        /\ faults' \in Nat
    BY <1>2 DEF MemcacheFails, Fault, Return, PC, TypeOK
  <2> QED BY <1>2, <2>1, <2>2, MoveType DEF MemcacheFails, TypeOK
<1>3. ASSUME NEW r \in {"EIO", "dead"}, Abandon(t, r)
      PROVE  TypeOK'
  <2>1. /\ excuse' \in [Path -> SUBSET {"overlap", "lost", "clobber"}]
        /\ late' \in [Thread -> BOOLEAN]
    BY <1>1, <1>3, NoteType DEF Abandon, TypeOK
  <2>2. /\ pc' = [pc EXCEPT ![t] = "idle"] /\ "idle" \in PC
        /\ reply' = [reply EXCEPT ![t] = r]
        /\ faults' \in Nat
    BY <1>3 DEF Abandon, Fault, Return, PC, TypeOK
  <2> QED BY <1>3, <2>1, <2>2, MoveType DEF Abandon, TypeOK
<1> QED BY <1>2, <1>3 DEF Failure, MongoThrows, Crash

\* An entry that memcached drops leaves the types intact.
LEMMA EvictType ==
  ASSUME TypeOK, NEW p \in Path, Evict(p)
  PROVE  TypeOK'
BY DEF TypeOK, Evict, HandlerOK, Op

\* Every step keeps the types.
LEMMA TypeStep ==
  ASSUME TypeOK, [Next]_vars
  PROVE  TypeOK'
<1>1. ASSUME NEW t \in Thread, NEW p \in Path, Request(t, p) PROVE TypeOK'
  BY <1>1, RequestType
<1>2. ASSUME NEW t \in Thread, Handler(t) PROVE TypeOK'
  BY <1>2, GridfileType, SendCreateType, SendStoreType, SendMetaType,
     SendTruncateType, SendRemoveType, HandlerMoveType DEF Handler
<1>3. ASSUME NEW t \in Thread, Server(t) PROVE TypeOK'
  BY <1>3, MongoApplyType, MongoDeleteType DEF Server
<1>4. ASSUME NEW t \in Thread, Failure(t) PROVE TypeOK'
  BY <1>4, FailureType
<1>5. ASSUME NEW p \in Path, Evict(p) PROVE TypeOK'
  BY <1>5, EvictType
<1>6. CASE UNCHANGED vars
  BY <1>6 DEF vars, TypeOK, HandlerOK, Op
<1> QED BY <1>1, <1>2, <1>3, <1>4, <1>5, <1>6 DEF Next

\* What the handlers start from has its type.
LEMMA StartType ==
  ASSUME NEW documents \in [Path -> SUBSET Doc], NEW uploads \in Nat,
         StartsFrom(documents, uploads)
  PROVE  TypeOK
<1>1. (CHOOSE p \in Path : TRUE) \in Path
  BY ConstantsAssumption
<1> QED BY <1>1 DEF StartsFrom, TypeOK, Call, PC, HandlerOK

\* AttrCache keeps its types: no handler ever uses a document it has not
\* found, and no write it sends is malformed.
THEOREM TypeCorrect == Spec => []TypeOK
<1>1. Init => TypeOK
  BY StartType DEF Init
<1>2. TypeOK /\ [Next]_vars => TypeOK'
  BY TypeStep
<1> QED BY <1>1, <1>2, PTL DEF Spec

-----------------------------------------------------------------------------
(* Coherence of the attribute cache                                        *)
(*                                                                         *)
(* StaleOnlyIfExcused alone is not inductive: a getattr that is about to   *)
(* call Memcache::set can make the entry stale by itself.  FillsAccounted  *)
(* says which getattrs can.  The proof follows one path and one handler at *)
(* a time.                                                                 *)

EntryAccounted(p) ==
  \/ cache[p] \in {None, Current(p)}
  \/ InvalidationDue(p)
  \/ excuse[p] # {}

FillAccounted(u) ==
  pc[u] = "set" => \/ Stat(doc[u]) = Current(PathOf(u))
                  \/ late[u]
                  \/ InvalidationDue(PathOf(u))

CoherenceInv ==
  /\ \A p \in Path : EntryAccounted(p)
  /\ \A u \in Thread : FillAccounted(u)

\* What an action leaves of an entry that was accounted for.
LEMMA EntryKept ==
  ASSUME NEW p \in Path, EntryAccounted(p),
         cache'[p] = cache[p], files'[p] = files[p],
         InvalidationDue(p) => InvalidationDue(p)',
         excuse[p] \subseteq excuse'[p]
  PROVE  EntryAccounted(p)'
<1>1. Current(p)' = Current(p)
  BY DEF Current
<1> QED BY <1>1 DEF EntryAccounted

\* What an action leaves of a fill that was accounted for.
LEMMA FillKept ==
  ASSUME NEW u \in Thread, NEW p \in Path, p = PathOf(u), FillAccounted(u),
         pc'[u] = "set" =>
           pc[u] = "set" /\ call'[u] = call[u] /\ doc'[u] = doc[u],
         files'[p] = files[p],
         late[u] => late'[u],
         InvalidationDue(p) => InvalidationDue(p)'
  PROVE  FillAccounted(u)'
<1> SUFFICES ASSUME pc'[u] = "set" PROVE FillAccounted(u)'
  BY DEF FillAccounted
<1>1. PathOf(u)' = p /\ pc[u] = "set" /\ doc'[u] = doc[u]
  BY DEF PathOf
<1>2. Current(p)' = Current(p)
  BY DEF Current
<1>3. Stat(doc[u])' = Stat(doc[u])
  BY <1>1 DEF Stat
<1>4. \/ Stat(doc[u]) = Current(p)
      \/ late[u]
      \/ InvalidationDue(p)
  BY <1>1 DEF FillAccounted
<1>5. \/ Stat(doc[u])' = Current(p)'
      \/ late'[u]
      \/ InvalidationDue(p)'
  BY <1>2, <1>3, <1>4
<1> QED BY <1>1, <1>5 DEF FillAccounted

\* An invalidation stays due until its own handler gets it done or gives up.
LEMMA DueKept ==
  ASSUME NEW t \in Thread, NEW p,
         \A u \in Thread \ {t} : pc'[u] = pc[u] /\ call'[u] = call[u],
         pc[t] \in {"sync", "remove"} /\ Op(t) \in Invalidators /\ PathOf(t) = p
           => pc'[t] \in {"sync", "remove"} /\ call'[t] = call[t]
  PROVE  InvalidationDue(p) => InvalidationDue(p)'
BY DEF InvalidationDue, Op, PathOf

\* Once a change of p is noted as uninvalidated, p and its fills are accounted
\* for, and nothing that was is forgotten.
LEMMA NoteAccounts ==
  ASSUME TypeOK, NEW p \in Path, NEW why, NoteUninvalidated(p, why),
         UNCHANGED cache
  PROVE  /\ EntryAccounted(p)'
         /\ \A u \in Thread : pc[u] = "set" /\ PathOf(u) = p => late'[u]
         /\ \A q \in Path : excuse[q] \subseteq excuse'[q]
         /\ \A u \in Thread : late[u] => late'[u]
<1>1. cache[p] = None \/ why \in excuse'[p]
  BY DEF NoteUninvalidated, TypeOK
<1>2. \A q \in Path : excuse[q] \subseteq excuse'[q]
  BY DEF NoteUninvalidated, TypeOK
<1>3. \A u \in Thread : late'[u] = (late[u] \/ Filling(u, p))
  BY Zenon DEF NoteUninvalidated
<1> QED BY <1>1, <1>2, <1>3 DEF EntryAccounted, Filling

\* A step of t that changes neither the documents nor the cache, starts no
\* fill and drops no invalidation.
LEMMA QuietStep ==
  ASSUME TypeOK, CoherenceInv, NEW t \in Thread,
         UNCHANGED <<files, cache, doc, late, excuse>>,
         \A u \in Thread \ {t} : pc'[u] = pc[u] /\ call'[u] = call[u],
         pc'[t] # "set",
         pc[t] \in {"sync", "remove"} /\ Op(t) \in Invalidators
           => pc'[t] \in {"sync", "remove"} /\ call'[t] = call[t]
  PROVE  CoherenceInv'
<1>1. \A p : InvalidationDue(p) => InvalidationDue(p)'
  BY DueKept
<1>2. \A p \in Path : EntryAccounted(p)'
  BY <1>1, EntryKept DEF CoherenceInv
<1>3. ASSUME NEW u \in Thread PROVE FillAccounted(u)'
  <2>1. PICK p \in Path : p = PathOf(u)
    BY DEF TypeOK, Call, PathOf
  <2> QED BY <1>1, <2>1, FillKept DEF CoherenceInv
<1> QED BY <1>2, <1>3 DEF CoherenceInv

\* A request that begins changes neither store.
LEMMA BeginCoherent ==
  ASSUME TypeOK, CoherenceInv, NEW t \in Thread, NEW p \in Path,
         NEW op, NEW a, NEW first \in {"get", "find", "send"},
         Begin(t, op, p, a, first)
  PROVE  CoherenceInv'
<1>1. pc[t] = "idle" /\ pc'[t] = first
  BY DEF Begin, TypeOK
<1>2. \A u \in Thread \ {t} : pc'[u] = pc[u] /\ call'[u] = call[u]
  BY DEF Begin, TypeOK
<1>3. UNCHANGED <<files, cache, doc, late, excuse>>
  BY DEF Begin
<1> QED BY <1>1, <1>2, <1>3, QuietStep

\* The same for each kind of request.
LEMMA RequestCoherent ==
  ASSUME TypeOK, CoherenceInv, NEW t \in Thread, NEW p \in Path, Request(t, p)
  PROVE  CoherenceInv'
<1>1. CASE Getattr(t, p) \/ Open(t, p) \/ Unlink(t, p) \/ Rmdir(t, p)
  BY <1>1, BeginCoherent DEF Getattr, Open, Unlink, Rmdir
<1>2. CASE Chmod(t, p) \/ Chown(t, p) \/ Utimens(t, p) \/ Truncate(t, p)
  BY <1>2, BeginCoherent DEF Chmod, Chown, Utimens, Truncate
<1>3. CASE Create(t, p) \/ Mkdir(t, p) \/ Symlink(t, p) \/ ReleaseDirty(t, p)
  BY <1>3, BeginCoherent DEF Create, Mkdir, Symlink, ReleaseDirty
<1> QED BY <1>1, <1>2, <1>3 DEF Request

\* A getattr that has just read the document holds the current one.
LEMMA GridfileCoherent ==
  ASSUME TypeOK, CoherenceInv, NEW t \in Thread, Gridfile(t)
  PROVE  CoherenceInv'
<1>1. PICK p \in Path : p = PathOf(t)
  BY DEF TypeOK, Call, PathOf
<1>2. UNCHANGED <<files, cache, call, excuse>> /\ pc[t] = "find"
  BY DEF Gridfile
<1>3. /\ doc'[t] = FindFile(files[p])
      /\ \A u \in Thread \ {t} : doc'[u] = doc[u]
      /\ \A u \in Thread \ {t} : late'[u] = late[u]
  BY <1>1 DEF Gridfile, TypeOK
<1>4. /\ \A u \in Thread \ {t} : pc'[u] = pc[u]
      /\ pc'[t] = "set" => FindFile(files[p]) # None
  <2>1. FindFile(files[p]) \in Doc \cup {None}
    BY FoundIsDoc
  <2>2. Found(t, FindFile(files[p])) /\ pc[t] = "find"
    BY <1>1 DEF Gridfile
  <2>3. /\ pc' = [pc EXCEPT ![t] = pc'[t]]
        /\ pc'[t] = "set" => FindFile(files[p]) # None
    BY <2>1, <2>2, FoundType
  <2>4. \A u \in Thread \ {t} : [pc EXCEPT ![t] = pc'[t]][u] = pc[u]
    BY DEF TypeOK
  <2> QED BY <2>3, <2>4
<1>5. \A q : InvalidationDue(q) => InvalidationDue(q)'
  BY <1>2, <1>4, DueKept
<1>6. \A q \in Path : EntryAccounted(q)'
  BY <1>2, <1>5, EntryKept DEF CoherenceInv
<1>7. ASSUME NEW u \in Thread, u # t PROVE FillAccounted(u)'
  <2>1. PICK q \in Path : q = PathOf(u)
    BY DEF TypeOK, Call, PathOf
  <2> QED BY <1>2, <1>3, <1>4, <1>5, <1>7, <2>1, FillKept DEF CoherenceInv
<1>8. FillAccounted(t)'
  <2>1. pc'[t] = "set" => Current(p)' = Stat(doc'[t])
    BY <1>2, <1>3, <1>4 DEF Current, Stat
  <2>2. PathOf(t)' = p
    BY <1>1, <1>2 DEF PathOf
  <2>3. Stat(doc[t])' = Stat(doc'[t])
    BY DEF Stat
  <2> QED BY <2>1, <2>2, <2>3 DEF FillAccounted
<1> QED BY <1>6, <1>7, <1>8 DEF CoherenceInv

\* A write that is only sent changes neither store; its invalidation is now due.
LEMMA SendCoherent ==
  ASSUME TypeOK, CoherenceInv, NEW t \in Thread, NEW w, Send(t, w)
  PROVE  CoherenceInv'
BY QuietStep DEF Send, Goto, history, TypeOK

\* Memcache::get, Directory::isEmpty and synchonizeUpdate.
LEMMA QuietHandlerCoherent ==
  ASSUME TypeOK, CoherenceInv, NEW t \in Thread,
         MemcacheGet(t) \/ IsEmpty(t) \/ SynchonizeUpdate(t)
  PROVE  CoherenceInv'
<1>1. CASE MemcacheGet(t)
  BY <1>1, QuietStep DEF MemcacheGet, Goto, Return, TypeOK, history
<1>2. CASE IsEmpty(t)
  BY <1>2, QuietStep DEF IsEmpty, Goto, Return, TypeOK, history
<1>3. CASE SynchonizeUpdate(t)
  <2>1. Op(t) \in Creators => Op(t) \notin Invalidators
    BY DEF Creators, Invalidators, Removers
  <2> QED
    BY <1>3, <2>1, QuietStep DEF SynchonizeUpdate, Goto, Return, TypeOK, history
<1> QED BY <1>1, <1>2, <1>3

\* A write is applied: its own handler will invalidate, or nobody will and the
\* write is noted, or the path had no document that a record could show.
LEMMA ServerCoherent ==
  ASSUME TypeOK, CoherenceInv, NEW t \in Thread, Server(t)
  PROVE  CoherenceInv'
<1>1. PICK p \in Path : p = PathOf(t)
  BY DEF TypeOK, Call, PathOf
<1>2. /\ UNCHANGED <<cache, pc, call, doc>> /\ NoteApplied(t)
      /\ \A q \in Path \ {p} : files'[q] = files[q]
  BY <1>1 DEF Server, MongoApply, MongoDelete, TypeOK
<1>3. pc[t] \in {"sync", "idle"} /\ Op(t) \in Mutators
  BY DEF Server, MongoApply, MongoDelete, TypeOK, HandlerOK, Mutators,
         Invalidators
<1>4. \A q : InvalidationDue(q) => InvalidationDue(q)'
  BY <1>2, DueKept
<1>5. \A u \in Thread : PathOf(u)' = PathOf(u) /\ Stat(doc[u])' = Stat(doc[u])
  BY <1>2 DEF PathOf, Stat
<1>6. /\ \A q \in Path : excuse[q] \subseteq excuse'[q]
      /\ \A u \in Thread : late[u] => late'[u]
  <2>1. CASE UNCHANGED <<late, excuse>>
    BY <2>1
  <2>2. CASE \E why : NoteUninvalidated(p, why)
    BY <1>2, <2>2, NoteAccounts
  <2> QED BY <1>1, <1>2, <2>1, <2>2 DEF NoteApplied
<1>7. /\ EntryAccounted(p)'
      /\ \A u \in Thread : PathOf(u) = p => FillAccounted(u)'
  <2>1. CASE \E why : NoteUninvalidated(p, why)
    <3>1. /\ EntryAccounted(p)'
          /\ \A u \in Thread : pc[u] = "set" /\ PathOf(u) = p => late'[u]
      BY <1>2, <2>1, NoteAccounts
    <3> QED BY <1>2, <3>1 DEF FillAccounted
  <2>2. CASE pc[t] = "sync" /\ Op(t) \in Invalidators
    <3>1. InvalidationDue(p)'
      BY <1>1, <1>4, <2>2 DEF InvalidationDue
    <3> QED BY <1>5, <3>1 DEF EntryAccounted, FillAccounted
  <2>3. CASE files[p] = {} /\ UNCHANGED <<late, excuse>>
    <3>1. Current(p) = None
      BY <2>3 DEF Current, FindFile, Newest
    <3>2. EntryAccounted(p)'
      BY <1>2, <1>4, <2>3, <3>1 DEF EntryAccounted, CoherenceInv
    <3>3. ASSUME NEW u \in Thread, PathOf(u) = p, pc[u] = "set"
          PROVE  late'[u] \/ InvalidationDue(p)'
      <4>1. Stat(doc[u]) # None
        BY <3>3, StatType, ConstantsAssumption DEF TypeOK, HandlerOK
      <4> QED
        BY <1>4, <1>6, <3>1, <3>3, <4>1 DEF CoherenceInv, FillAccounted
    <3> QED BY <1>2, <1>5, <3>2, <3>3 DEF FillAccounted
  <2> QED
    BY <1>1, <1>2, <1>3, <2>1, <2>2, <2>3 DEF NoteApplied, Mutators
<1>8. \A q \in Path \ {p} : EntryAccounted(q)'
  BY <1>2, <1>4, <1>6, EntryKept DEF CoherenceInv
<1>9. ASSUME NEW u \in Thread, PathOf(u) # p PROVE FillAccounted(u)'
  <2>1. PICK q \in Path : q = PathOf(u)
    BY DEF TypeOK, Call, PathOf
  <2> QED BY <1>2, <1>4, <1>6, <1>9, <2>1, FillKept DEF CoherenceInv
<1> QED BY <1>7, <1>8, <1>9 DEF CoherenceInv

\* Memcache::set stores a current record, or is marked as late.
LEMMA MemcacheSetCoherent ==
  ASSUME TypeOK, CoherenceInv, NEW t \in Thread, MemcacheSet(t)
  PROVE  CoherenceInv'
<1>1. PICK p \in Path : p = PathOf(t)
  BY DEF TypeOK, Call, PathOf
<1>2. /\ UNCHANGED <<files, call, doc, late>> /\ pc[t] = "set"
      /\ pc'[t] = "idle" /\ \A u \in Thread \ {t} : pc'[u] = pc[u]
  BY DEF MemcacheSet, Return, TypeOK
<1>3. /\ cache'[p] = Stat(doc[t])
      /\ excuse'[p] = IF late[t] THEN {"overlap"} ELSE {}
      /\ \A q \in Path \ {p} : cache'[q] = cache[q] /\ excuse'[q] = excuse[q]
  BY <1>1 DEF MemcacheSet, TypeOK
<1>4. \A q : InvalidationDue(q) => InvalidationDue(q)'
  BY <1>2, DueKept
<1>5. EntryAccounted(p)'
  <2>1. \/ Stat(doc[t]) = Current(p)
        \/ late[t]
        \/ InvalidationDue(p)
    BY <1>1, <1>2 DEF CoherenceInv, FillAccounted
  <2>2. Current(p)' = Current(p)
    BY <1>2 DEF Current
  <2> QED BY <1>3, <1>4, <2>1, <2>2 DEF EntryAccounted
<1>6. \A q \in Path \ {p} : EntryAccounted(q)'
  BY <1>2, <1>3, <1>4, EntryKept DEF CoherenceInv
<1>7. ASSUME NEW u \in Thread PROVE FillAccounted(u)'
  <2>1. PICK q \in Path : q = PathOf(u)
    BY DEF TypeOK, Call, PathOf
  <2> QED BY <1>2, <1>4, <2>1, FillKept DEF CoherenceInv
<1> QED BY <1>5, <1>6, <1>7 DEF CoherenceInv

\* Memcache::remove ends what was due and marks the fills it overtakes.
LEMMA MemcacheRemoveCoherent ==
  ASSUME TypeOK, CoherenceInv, NEW t \in Thread, MemcacheRemove(t)
  PROVE  CoherenceInv'
<1>1. PICK p \in Path : p = PathOf(t)
  BY DEF TypeOK, Call, PathOf
<1>2. /\ UNCHANGED <<files, call, doc>> /\ pc[t] = "remove"
      /\ pc'[t] = "idle" /\ \A u \in Thread \ {t} : pc'[u] = pc[u]
  BY DEF MemcacheRemove, Return, TypeOK
<1>3. /\ cache'[p] = None
      /\ \A q \in Path \ {p} : cache'[q] = cache[q] /\ excuse'[q] = excuse[q]
  BY <1>1 DEF MemcacheRemove, TypeOK
<1>4. \A u \in Thread : late'[u] = (late[u] \/ Filling(u, p))
  BY <1>1, Zenon DEF MemcacheRemove
<1>5. \A q : q # p => (InvalidationDue(q) => InvalidationDue(q)')
  BY <1>1, <1>2, DueKept
<1>6. EntryAccounted(p)'
  BY <1>3 DEF EntryAccounted
<1>7. \A q \in Path \ {p} : EntryAccounted(q)'
  BY <1>2, <1>3, <1>5, EntryKept DEF CoherenceInv
<1>8. ASSUME NEW u \in Thread, PathOf(u) = p PROVE FillAccounted(u)'
  BY <1>2, <1>4, <1>8 DEF FillAccounted, Filling
<1>9. ASSUME NEW u \in Thread, PathOf(u) # p PROVE FillAccounted(u)'
  <2>1. PICK q \in Path : q = PathOf(u)
    BY DEF TypeOK, Call, PathOf
  <2> QED BY <1>2, <1>4, <1>5, <1>9, <2>1, FillKept DEF CoherenceInv
<1> QED BY <1>6, <1>7, <1>8, <1>9 DEF CoherenceInv

\* A handler that stops short notes the invalidation it owed.
LEMMA FailureCoherent ==
  ASSUME TypeOK, CoherenceInv, NEW t \in Thread, Failure(t)
  PROVE  CoherenceInv'
<1>1. PICK p \in Path : p = PathOf(t)
  BY DEF TypeOK, Call, PathOf
<1>2. /\ UNCHANGED <<files, cache, call, doc>>
      /\ pc'[t] = "idle" /\ \A u \in Thread \ {t} : pc'[u] = pc[u]
  BY DEF Failure, MemcacheFails, MongoThrows, Crash, Abandon, Return, TypeOK
<1>3. \/ NoteUninvalidated(p, "lost")
      \/ /\ UNCHANGED <<late, excuse>>
         /\ ~(pc[t] \in {"sync", "remove"} /\ Op(t) \in Invalidators)
  BY <1>1 DEF Failure, MemcacheFails, MongoThrows, Crash, Abandon
<1>4. CASE NoteUninvalidated(p, "lost")
  <2>1. /\ EntryAccounted(p)'
        /\ \A u \in Thread : pc[u] = "set" /\ PathOf(u) = p => late'[u]
        /\ \A q \in Path : excuse[q] \subseteq excuse'[q]
        /\ \A u \in Thread : late[u] => late'[u]
    BY <1>2, <1>4, NoteAccounts
  <2>2. \A q : q # p => (InvalidationDue(q) => InvalidationDue(q)')
    BY <1>1, <1>2, DueKept
  <2>3. \A q \in Path \ {p} : EntryAccounted(q)'
    BY <1>2, <2>1, <2>2, EntryKept DEF CoherenceInv
  <2>4. ASSUME NEW u \in Thread, PathOf(u) = p PROVE FillAccounted(u)'
    BY <1>2, <2>1, <2>4 DEF FillAccounted
  <2>5. ASSUME NEW u \in Thread, PathOf(u) # p PROVE FillAccounted(u)'
    <3>1. PICK q \in Path : q = PathOf(u)
      BY DEF TypeOK, Call, PathOf
    <3> QED BY <1>2, <2>1, <2>2, <2>5, <3>1, FillKept DEF CoherenceInv
  <2> QED BY <2>1, <2>3, <2>4, <2>5 DEF CoherenceInv
<1>5. CASE /\ UNCHANGED <<late, excuse>>
           /\ ~(pc[t] \in {"sync", "remove"} /\ Op(t) \in Invalidators)
  BY <1>2, <1>5, QuietStep
<1> QED BY <1>3, <1>4, <1>5

\* An entry that memcached drops cannot be stale.
LEMMA EvictCoherent ==
  ASSUME TypeOK, CoherenceInv, NEW p \in Path, Evict(p)
  PROVE  CoherenceInv'
<1>1. /\ cache'[p] = None
      /\ \A q \in Path \ {p} : cache'[q] = cache[q] /\ excuse'[q] = excuse[q]
      /\ UNCHANGED <<files, pc, call, doc, late>>
  BY DEF Evict, TypeOK
<1>2. \A q : InvalidationDue(q) => InvalidationDue(q)'
  BY <1>1 DEF InvalidationDue, Op, PathOf
<1>3. \A q \in Path \ {p} : EntryAccounted(q)'
  BY <1>1, <1>2, EntryKept DEF CoherenceInv
<1>4. ASSUME NEW u \in Thread PROVE FillAccounted(u)'
  <2>1. PICK q \in Path : q = PathOf(u)
    BY DEF TypeOK, Call, PathOf
  <2> QED BY <1>1, <1>2, <2>1, FillKept DEF CoherenceInv
<1> QED BY <1>1, <1>3, <1>4 DEF CoherenceInv, EntryAccounted

\* Every step accounts for the entries and the fills it outdates.
LEMMA CoherenceStep ==
  ASSUME TypeOK, CoherenceInv, [Next]_vars
  PROVE  CoherenceInv'
<1>1. ASSUME NEW t \in Thread, NEW p \in Path, Request(t, p)
      PROVE  CoherenceInv'
  BY <1>1, RequestCoherent
<1>2. ASSUME NEW t \in Thread, Handler(t) PROVE CoherenceInv'
  <2>1. CASE \E w : Send(t, w)
    BY <2>1, SendCoherent
  <2> QED
    BY <1>2, <2>1, GridfileCoherent, QuietHandlerCoherent,
       MemcacheSetCoherent, MemcacheRemoveCoherent
    DEF Handler, SendCreate, SendStore, SendMeta, SendTruncate, SendRemove
<1>3. ASSUME NEW t \in Thread, Server(t) PROVE CoherenceInv'
  BY <1>3, ServerCoherent
<1>4. ASSUME NEW t \in Thread, Failure(t) PROVE CoherenceInv'
  BY <1>4, FailureCoherent
<1>5. ASSUME NEW p \in Path, Evict(p) PROVE CoherenceInv'
  BY <1>5, EvictCoherent
<1>6. CASE UNCHANGED vars
  BY <1>6 DEF vars, CoherenceInv, EntryAccounted, FillAccounted,
              InvalidationDue, Current, Stat, Op, PathOf
<1> QED BY <1>1, <1>2, <1>3, <1>4, <1>5, <1>6 DEF Next

\* The cache and the fills on their way to it are accounted for at all times.
THEOREM CoherenceInductive == Spec => []CoherenceInv
<1>1. Init => CoherenceInv
  BY DEF Init, StartsFrom, CoherenceInv, EntryAccounted, FillAccounted
<1>2. TypeOK /\ CoherenceInv /\ [Next]_vars => CoherenceInv'
  BY CoherenceStep
<1> QED BY <1>1, <1>2, TypeCorrect, PTL DEF Spec

\* The attribute cache is out of date only in the ways StaleOnlyIfExcused
\* lists, however many mounts, worker threads and paths there are.
THEOREM CacheCoherence == Spec => []StaleOnlyIfExcused
<1>1. CoherenceInv => StaleOnlyIfExcused
  BY DEF CoherenceInv, EntryAccounted, StaleOnlyIfExcused
<1> QED BY <1>1, CoherenceInductive, PTL

\* A getattr about to fill the cache holds current data, or is known not to.
THEOREM FillsAreAccounted == Spec => []FillsAccounted
<1>1. CoherenceInv => FillsAccounted
  BY DEF CoherenceInv, FillAccounted, FillsAccounted
<1> QED BY <1>1, CoherenceInductive, PTL

=============================================================================
