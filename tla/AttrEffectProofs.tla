--------------------------- MODULE AttrEffectProofs ---------------------------
(***************************************************************************)
(* A change of a path that no other change of it crosses has its effect,   *)
(* all of it, and leaves the rest of the document alone: for every set of  *)
(* handlers, paths and values.  Changes of a path that do cross are not    *)
(* serialised by anything in filesystem_operations.cpp, and lose each      *)
(* other's fields; what is proved here is that nothing else does.          *)
(***************************************************************************)
EXTENDS AttrCacheProofs

-----------------------------------------------------------------------------
(* The inductive invariant *)

\* An upload is dated when it is sent, so no document is dated in the future.
Dated == \A p \in Path : \A d \in files[p] : d.v <= clock

SentDated ==
  \A t \in Thread :
    wire[t] # None /\ wire[t].kind = "insert" => wire[t].doc.v <= clock

\* crossed[t] misses nobody: while it is FALSE, t alone can change its path.
AloneOnPath ==
  \A t, u \in Thread : t # u /\ ~crossed[t] => ~Mutating(u, PathOf(t))

\* The write that t has sent will have t's effect on the documents S, and no
\* other: it dates later than all of S, or names their newest, or all of them.
Carries(t, w, S) ==
  LET d == FindFile(S)
      a == call[t].arg
  IN  /\ Op(t) \in Creators \cup {"store"} =>
           /\ w.kind = "insert" /\ \A e \in S : e.v < w.doc.v
           /\ Op(t) \in {"create", "mkdir"} => w.doc.meta.mode = a
           /\ Op(t) \in {"store", "symlink"} => w.doc.size = a
           /\ Op(t) = "store" /\ d # None => Agree(t, d.meta, w.doc.meta)
      /\ Op(t) \in {"chmod", "chown", "utimens"} =>
           /\ w.kind = "meta" /\ d # None /\ w.v = d.v
           /\ Agree(t, d.meta, w.meta)
           /\ Op(t) = "chmod" => w.meta.mode = a
           /\ Op(t) = "chown" => w.meta.owner = a
           /\ Op(t) = "utimens" => w.meta.time = a
      /\ Op(t) = "truncate" => w.kind = "length" /\ d # None /\ w.v = d.v
      /\ Op(t) \in Removers => w.kind = "delete" /\ {e.v : e \in S} \subseteq w.vs

\* A change that is alone on its path: the document it has loaded is the
\* current one until its write is applied, the write does what was asked, and
\* once it is applied, it has been done.
OnCourse(t) ==
  LET S == files[PathOf(t)] IN
    ~crossed[t] /\ Op(t) \in Mutators =>
      /\ pc[t] \in {"list", "send"} /\ Op(t) # "mkdir" => doc[t] = FindFile(S)
      /\ wire[t] # None => Carries(t, wire[t], S)
      /\ wire[t] # None /\ pc[t] = "idle" => reply[t] # "ok"
      /\ (/\ wire[t] = None
          /\ pc[t] \in {"sync", "remove"} \/ (pc[t] = "idle" /\ reply[t] = "ok"))
           => EffectOf(t)

EffectInv ==
  /\ Dated
  /\ SentDated
  /\ AloneOnPath
  /\ \A t \in Thread : OnCourse(t)

-----------------------------------------------------------------------------
(* Lemmas about the documents *)

\* The document findFile returns is one of the newest.
LEMMA FoundIsNewest ==
  ASSUME NEW S, S \subseteq Doc
  PROVE  /\ FindFile(S) # None => FindFile(S) \in Newest(S)
         /\ Newest(S) # {} => FindFile(S) \in Newest(S) /\ FindFile(S) # None
BY ConstantsAssumption DEF FindFile, Newest

\* An upload dated later than every document of the name is found from then on.
LEMMA InsertEffect ==
  ASSUME NEW S, S \subseteq Doc, NEW w, w.kind = "insert", w.doc \in Doc,
         \A e \in S : e.v < w.doc.v
  PROVE  FindFile(Applied(S, w)) = w.doc
<1> DEFINE T == Applied(S, w)
<1>1. T = S \cup {w.doc}
  BY DEF Applied
<1> HIDE DEF T
<1>2. T \subseteq Doc
  BY <1>1
<1>3. w.doc \in Newest(T)
  BY <1>1 DEF Newest, Doc
<1>4. \A e \in Newest(T) : e = w.doc
  BY <1>1 DEF Newest, Doc
<1>5. FindFile(T) \in Newest(T)
  BY <1>2, <1>3, FoundIsNewest
<1> QED BY <1>4, <1>5 DEF T

\* A content type written to the newest document is found from then on.
LEMMA MetaEffect ==
  ASSUME NEW S, S \subseteq Doc, NEW w, w.kind = "meta", w.meta \in Meta,
         FindFile(S) # None, w.v = FindFile(S).v
  PROVE  /\ FindFile(Applied(S, w)) # None
         /\ FindFile(Applied(S, w)).meta = w.meta
<1> DEFINE T == Applied(S, w)
           changed(e) == IF e.v = w.v THEN [e EXCEPT !.meta = w.meta] ELSE e
<1>1. T = {changed(e) : e \in S}
  BY DEF Applied
<1>2. \A e \in S : /\ changed(e) \in Doc /\ changed(e).v = e.v
                   /\ (e.v = w.v => changed(e).meta = w.meta)
  BY DEF Doc
<1> HIDE DEF T, changed
<1>3. FindFile(S) \in S /\ \A e \in S : e.v <= w.v
  BY FoundIsNewest DEF Newest
<1>4. T \subseteq Doc
  BY <1>1, <1>2
<1>5. changed(FindFile(S)) \in Newest(T)
  BY <1>1, <1>2, <1>3 DEF Newest
<1>6. FindFile(T) \in Newest(T) /\ FindFile(T) # None
  BY <1>4, <1>5, FoundIsNewest
<1>7. PICK e \in S : FindFile(T) = changed(e)
  BY <1>1, <1>6 DEF Newest
<1>8. e.v = w.v
  <2>1. changed(FindFile(S)).v <= changed(e).v
    BY <1>5, <1>6, <1>7 DEF Newest
  <2>2. w.v <= e.v /\ e.v <= w.v /\ w.v \in Nat /\ e.v \in Nat
    BY <1>2, <1>3, <2>1 DEF Doc
  <2> QED BY <2>2
<1> QED BY <1>2, <1>6, <1>7, <1>8 DEF T

\* A length written to the newest document is found from then on.
LEMMA LengthEffect ==
  ASSUME NEW S, S \subseteq Doc, NEW w, w.kind = "length",
         FindFile(S) # None, w.v = FindFile(S).v
  PROVE  /\ FindFile(Applied(S, w)) # None
         /\ FindFile(Applied(S, w)).size = Empty
<1> DEFINE T == Applied(S, w)
           changed(e) == IF e.v = w.v THEN [e EXCEPT !.size = Empty] ELSE e
<1>1. T = {changed(e) : e \in S}
  BY DEF Applied
<1>2. \A e \in S : /\ changed(e) \in Doc /\ changed(e).v = e.v
                   /\ (e.v = w.v => changed(e).size = Empty)
  BY ConstantsAssumption DEF Doc
<1> HIDE DEF T, changed
<1>3. FindFile(S) \in S /\ \A e \in S : e.v <= w.v
  BY FoundIsNewest DEF Newest
<1>4. T \subseteq Doc
  BY <1>1, <1>2
<1>5. changed(FindFile(S)) \in Newest(T)
  BY <1>1, <1>2, <1>3 DEF Newest
<1>6. FindFile(T) \in Newest(T) /\ FindFile(T) # None
  BY <1>4, <1>5, FoundIsNewest
<1>7. PICK e \in S : FindFile(T) = changed(e)
  BY <1>1, <1>6 DEF Newest
<1>8. e.v = w.v
  <2>1. changed(FindFile(S)).v <= changed(e).v
    BY <1>5, <1>6, <1>7 DEF Newest
  <2>2. w.v <= e.v /\ e.v <= w.v /\ w.v \in Nat /\ e.v \in Nat
    BY <1>2, <1>3, <2>1 DEF Doc
  <2> QED BY <2>2
<1> QED BY <1>2, <1>6, <1>7, <1>8 DEF T

-----------------------------------------------------------------------------
(* Steps *)

\* A handler stays on course when neither it nor the documents of its path
\* change.
LEMMA CourseKept ==
  ASSUME TypeOK, NEW t \in Thread, OnCourse(t),
         call'[t] = call[t], pc'[t] = pc[t], doc'[t] = doc[t],
         wire'[t] = wire[t], reply'[t] = reply[t],
         crossed[t] => crossed'[t],
         ~crossed[t] /\ Op(t) \in Mutators =>
           files'[PathOf(t)] = files[PathOf(t)]
  PROVE  OnCourse(t)'
<1>1. CASE crossed'[t] \/ Op(t) \notin Mutators
  BY <1>1 DEF OnCourse, Op
<1>2. CASE ~crossed'[t] /\ Op(t) \in Mutators
  <2>1. files'[PathOf(t)] = files[PathOf(t)] /\ ~crossed[t]
    BY <1>2
  <2>2. Op(t)' = Op(t) /\ PathOf(t)' = PathOf(t)
    BY DEF Op, PathOf
  <2>3. EffectOf(t)' = EffectOf(t)
    BY <2>1, <2>2 DEF EffectOf
  <2>4. Carries(t, wire[t], files[PathOf(t)])
           => Carries(t, wire[t], files[PathOf(t)])'
    BY <2>1, <2>2 DEF Carries, Agree
  <2> QED BY <1>2, <2>1, <2>2, <2>3, <2>4 DEF OnCourse
<1> QED BY <1>1, <1>2

\* A step of a handler, or of the server for it: the others stay on course, and
\* nobody comes to be at work on a path that was not.
LEMMA OwnStep ==
  ASSUME TypeOK, EffectInv, NEW t \in Thread,
         call' = call, crossed' = crossed,
         \A u \in Thread \ {t} :
           /\ pc'[u] = pc[u] /\ doc'[u] = doc[u]
           /\ wire'[u] = wire[u] /\ reply'[u] = reply[u],
         pc[t] = "idle" /\ wire[t] = None => pc'[t] = "idle" /\ wire'[t] = None,
         clock' \in Nat, clock <= clock',
         \A q \in Path \ {PathOf(t)} : files'[q] = files[q],
         files' = files \/ (wire[t] # None /\ Dated'),
         wire'[t] # None /\ wire'[t].kind = "insert" =>
           wire'[t].doc.v <= clock',
         OnCourse(t)'
  PROVE  EffectInv'
<1> USE DEF EffectInv
<1>1. Dated'
  <2>1. CASE files' = files
    <3>1. \A p \in Path : \A e \in files[p] : e.v \in Nat
      BY DEF TypeOK, Doc
    <3> QED BY <2>1, <3>1 DEF Dated, TypeOK
  <2> QED BY <2>1
<1>2. SentDated'
  <2>1. \A u \in Thread : wire[u] # None /\ wire[u].kind = "insert" =>
          wire[u].doc.v \in Nat
    BY DEF TypeOK, Write, Doc
  <2> QED BY <2>1 DEF SentDated, TypeOK
<1>3. AloneOnPath'
  BY DEF AloneOnPath, Mutating, Op, PathOf
<1>4. ASSUME NEW u \in Thread, u # t PROVE OnCourse(u)'
  <2>1. ASSUME ~crossed[u], Op(u) \in Mutators
        PROVE  files'[PathOf(u)] = files[PathOf(u)]
    <3>1. CASE PathOf(u) # PathOf(t)
      BY <3>1 DEF TypeOK, Call, PathOf
    <3>2. CASE PathOf(u) = PathOf(t)
      <4>1. wire[t] # None => Op(t) \in Mutators
        BY DEF TypeOK, HandlerOK, Mutators, Invalidators
      <4>2. ~Mutating(t, PathOf(u))
        BY <1>4, <2>1 DEF AloneOnPath
      <4> QED BY <3>2, <4>1, <4>2 DEF Mutating
    <3> QED BY <3>1, <3>2
  <2> QED BY <1>4, <2>1, CourseKept
<1> QED BY <1>1, <1>2, <1>3, <1>4

\* A request that begins has sent nothing; the handlers at work on its path are
\* crossed from now on, and it is by them.
LEMMA BeginEffect ==
  ASSUME TypeOK, EffectInv, NEW t \in Thread, NEW p \in Path, NEW op, NEW a,
         NEW first \in {"get", "find", "send"}, Begin(t, op, p, a, first),
         first = "send" => op = "mkdir"
  PROVE  EffectInv'
<1> USE DEF EffectInv
<1>1. /\ call' = [call EXCEPT ![t] = [op |-> op, path |-> p, arg |-> a]]
      /\ pc' = [pc EXCEPT ![t] = first] /\ reply' = [reply EXCEPT ![t] = None]
      /\ UNCHANGED <<files, clock, doc, wire>>
      /\ pc[t] = "idle" /\ wire[t] = None
  BY DEF Begin
<1>2. /\ call'[t] = [op |-> op, path |-> p, arg |-> a] /\ pc'[t] = first
      /\ Op(t)' = op /\ PathOf(t)' = p
      /\ \A u \in Thread \ {t} :
           /\ call'[u] = call[u] /\ pc'[u] = pc[u] /\ reply'[u] = reply[u]
           /\ Op(u)' = Op(u) /\ PathOf(u)' = PathOf(u)
           /\ \A q : Mutating(u, q)' = Mutating(u, q)
  BY <1>1, Zenon DEF TypeOK, Op, PathOf, Mutating
<1>3. /\ ~crossed'[t] => \A u \in Thread \ {t} : ~Mutating(u, p)
      /\ \A u \in Thread \ {t} : ~crossed'[u] =>
           ~crossed[u] /\ ~(op \in Mutators /\ PathOf(u) = p)
  BY Zenon DEF Begin
<1>4. Dated' /\ SentDated'
  BY <1>1 DEF Dated, SentDated
<1>5. AloneOnPath'
  <2> SUFFICES ASSUME NEW x \in Thread, NEW u \in Thread, x # u, ~crossed'[x]
               PROVE  ~Mutating(u, PathOf(x))'
    BY DEF AloneOnPath
  <2>1. CASE x = t
    BY <1>2, <1>3, <2>1 DEF Mutating
  <2>2. CASE u = t
    BY <1>2, <1>3, <2>2 DEF Mutating
  <2>3. CASE x # t /\ u # t
    BY <1>2, <1>3, <2>3 DEF AloneOnPath, Mutating
  <2> QED BY <2>1, <2>2, <2>3
<1>6. OnCourse(t)'
  BY <1>1, <1>2 DEF OnCourse
<1>7. ASSUME NEW u \in Thread, u # t PROVE OnCourse(u)'
  BY <1>1, <1>2, <1>3, <1>7, CourseKept
<1> QED BY <1>4, <1>5, <1>6, <1>7

\* The same for each kind of request.
LEMMA RequestEffect ==
  ASSUME TypeOK, EffectInv, NEW t \in Thread, NEW p \in Path, Request(t, p)
  PROVE  EffectInv'
<1>1. CASE Getattr(t, p) \/ Open(t, p) \/ Unlink(t, p) \/ Rmdir(t, p)
  BY <1>1, BeginEffect DEF Getattr, Open, Unlink, Rmdir
<1>2. CASE Chmod(t, p) \/ Chown(t, p) \/ Utimens(t, p) \/ Truncate(t, p)
  BY <1>2, BeginEffect DEF Chmod, Chown, Utimens, Truncate
<1>3. CASE Create(t, p) \/ Mkdir(t, p) \/ Symlink(t, p) \/ ReleaseDirty(t, p)
  BY <1>3, BeginEffect DEF Create, Mkdir, Symlink, ReleaseDirty
<1> QED BY <1>1, <1>2, <1>3 DEF Request

\* A step of a handler that leaves the documents alone.
LEMMA LocalStep ==
  ASSUME TypeOK, EffectInv, NEW t \in Thread, pc[t] # "idle",
         UNCHANGED <<files, call, crossed>>,
         \A u \in Thread \ {t} :
           /\ pc'[u] = pc[u] /\ doc'[u] = doc[u]
           /\ wire'[u] = wire[u] /\ reply'[u] = reply[u],
         clock' \in Nat, clock <= clock',
         wire'[t] # None /\ wire'[t].kind = "insert" =>
           wire'[t].doc.v <= clock',
         OnCourse(t)'
  PROVE  EffectInv'
BY OwnStep

\* A change that has loaded its document holds the current one; if it does not
\* go on from there it does not report success.
LEMMA GridfileEffect ==
  ASSUME TypeOK, EffectInv, NEW t \in Thread, Gridfile(t)
  PROVE  EffectInv'
<1>1. PICK p \in Path : p = PathOf(t)
  BY DEF TypeOK, Call, PathOf
<1>2. PICK d : d = FindFile(files[p])
  OBVIOUS
<1>3. /\ Found(t, d) /\ pc[t] = "find" /\ doc' = [doc EXCEPT ![t] = d]
      /\ UNCHANGED <<files, call, clock, wire, crossed>>
  BY <1>1, <1>2 DEF Gridfile
<1>4. d \in Doc \cup {None}
  BY <1>2, FoundIsDoc
<1>5. /\ pc' = [pc EXCEPT ![t] = pc'[t]]
      /\ pc'[t] \in {"idle", "set", "list", "send"}
      /\ reply' = reply \/ \E r \in {"ok", "abort", "ENOENT", "EEXIST", "EIO"} :
                             reply' = [reply EXCEPT ![t] = r]
  BY <1>3, <1>4, FoundType
<1>6. \A u \in Thread \ {t} :
        pc'[u] = pc[u] /\ doc'[u] = doc[u] /\ reply'[u] = reply[u]
  <2>1. \A u \in Thread \ {t} : [pc EXCEPT ![t] = pc'[t]][u] = pc[u]
    BY DEF TypeOK
  <2>2. \A u \in Thread \ {t} : reply'[u] = reply[u]
    BY <1>5 DEF TypeOK
  <2> QED BY <1>3, <1>5, <2>1, <2>2 DEF TypeOK
<1>7. pc'[t] = "idle" /\ Op(t) \in Mutators => reply'[t] # "ok"
  <2>1. ASSUME Op(t) \in Mutators, NEW r, Return(t, r), r # "ok"
        PROVE  reply'[t] # "ok"
    BY <2>1 DEF TypeOK, Return
  <2>2. ASSUME NEW next, Goto(t, next) PROVE pc'[t] = next
    BY <2>2 DEF TypeOK, Goto
  <2>3. CASE Op(t) \in {"create", "symlink"}
    BY <1>3, <2>1, <2>2, <2>3 DEF Found
  <2>4. CASE Op(t) = "store"
    BY <1>3, <2>1, <2>2, <2>4 DEF Found
  <2>5. CASE Op(t) = "rmdir"
    BY <1>3, <2>1, <2>2, <2>5 DEF Found
  <2>6. CASE Op(t) = "truncate"
    BY <1>3, <2>1, <2>2, <2>6 DEF Found
  <2>7. CASE Op(t) \in {"mkdir", "chmod", "chown", "utimens", "unlink"}
    BY <1>3, <2>1, <2>2, <2>7 DEF Found
  <2> QED BY <2>3, <2>4, <2>5, <2>6, <2>7
          DEF Mutators, Creators, Invalidators, Removers
<1>8. doc'[t] = d /\ wire'[t] = None
  BY <1>3 DEF TypeOK, HandlerOK
<1>9. OnCourse(t)'
  BY <1>1, <1>2, <1>3, <1>5, <1>7, <1>8 DEF OnCourse, Op, PathOf
<1> QED BY <1>3, <1>6, <1>8, <1>9, LocalStep DEF TypeOK

\* The calls of a handler that neither load nor write a document.
LEMMA QuietHandlerEffect ==
  ASSUME TypeOK, EffectInv, NEW t \in Thread,
         \/ MemcacheGet(t) \/ IsEmpty(t) \/ SynchonizeUpdate(t)
         \/ MemcacheSet(t) \/ MemcacheRemove(t)
  PROVE  EffectInv'
<1>1. /\ UNCHANGED <<files, call, clock, doc, wire, crossed>> /\ pc[t] # "idle"
      /\ \A u \in Thread \ {t} : pc'[u] = pc[u] /\ reply'[u] = reply[u]
  BY DEF MemcacheGet, IsEmpty, SynchonizeUpdate, MemcacheSet, MemcacheRemove,
         Goto, Return, history, TypeOK
<1>2. Op(t) \in Mutators =>
        \/ pc[t] = "list" /\ pc'[t] = "send"
        \/ pc[t] = "list" /\ pc'[t] = "idle" /\ reply'[t] # "ok"
        \/ pc[t] = "sync" /\ wire[t] = None /\ pc'[t] \in {"remove", "idle"}
        \/ pc[t] = "remove" /\ pc'[t] = "idle"
  BY DEF MemcacheGet, IsEmpty, SynchonizeUpdate, MemcacheSet, MemcacheRemove,
         Goto, Return, TypeOK, HandlerOK, Mutators, Creators, Invalidators,
         Removers
<1>3. wire[t] # None => pc[t] \in {"sync", "idle"}
  BY DEF TypeOK, HandlerOK
<1>4. Op(t)' = Op(t) /\ PathOf(t)' = PathOf(t)
  BY <1>1 DEF Op, PathOf
<1>5. EffectOf(t)' = EffectOf(t)
  BY <1>1, <1>4 DEF EffectOf
<1>6. OnCourse(t)'
  BY <1>1, <1>2, <1>3, <1>4, <1>5 DEF OnCourse, EffectInv
<1> QED BY <1>1, <1>3, <1>6, LocalStep DEF TypeOK, EffectInv, SentDated

\* A write that carries the effect of its handler keeps it on course; so does
\* having nothing to write.
LEMMA SendStep ==
  ASSUME TypeOK, EffectInv, NEW t \in Thread, NEW w, Send(t, w),
         clock' \in Nat, clock <= clock',
         w # None /\ w.kind = "insert" => w.doc.v <= clock',
         ~crossed[t] =>
           IF w = None THEN EffectOf(t) ELSE Carries(t, w, files[PathOf(t)])
  PROVE  EffectInv'
<1>1. /\ UNCHANGED <<files, call, doc, crossed, reply>>
      /\ pc[t] = "send" /\ pc'[t] = "sync" /\ wire'[t] = w
      /\ \A u \in Thread \ {t} : pc'[u] = pc[u] /\ wire'[u] = wire[u]
  BY DEF Send, Goto, history, TypeOK
<1>2. Op(t)' = Op(t) /\ PathOf(t)' = PathOf(t) /\ call'[t] = call[t]
  BY <1>1 DEF Op, PathOf
<1>3. EffectOf(t)' = EffectOf(t)
  BY <1>1, <1>2 DEF EffectOf
<1>4. w # None /\ ~crossed[t] => Carries(t, wire[t], files[PathOf(t)])'
  BY <1>1, <1>2 DEF Carries, Agree
<1>5. OnCourse(t)'
  BY <1>1, <1>2, <1>3, <1>4 DEF OnCourse
<1> QED BY <1>1, <1>5, LocalStep

\* create, mkdir and symlink: the new document has the mode or size asked for.
LEMMA SendCreateEffect ==
  ASSUME TypeOK, EffectInv, NEW t \in Thread, SendCreate(t)
  PROVE  EffectInv'
<1>1. PICK w, now :
        /\ Send(t, w) /\ now \in Time
        /\ w = [kind |-> "insert",
                doc |-> [v |-> clock + 1,
                         meta |-> [mode |-> IF Op(t) = "symlink" THEN LinkMode
                                            ELSE call[t].arg,
                                   owner |-> DefaultOwner, time |-> now],
                         size |-> IF Op(t) = "symlink" THEN call[t].arg
                                  ELSE Empty]]
  BY DEF SendCreate
<1>2. /\ w.kind = "insert" /\ w.doc.v = clock + 1
      /\ Op(t) # "symlink" => w.doc.meta.mode = call[t].arg
      /\ Op(t) = "symlink" => w.doc.size = call[t].arg
  BY <1>1
<1>3. PathOf(t) \in Path /\ clock \in Nat /\ clock' = clock + 1
  BY DEF TypeOK, Call, PathOf, SendCreate
<1>4. \A e \in files[PathOf(t)] : e.v < clock + 1
  <2>1. \A e \in files[PathOf(t)] : e.v \in Nat /\ e.v <= clock
    BY <1>3 DEF TypeOK, Doc, EffectInv, Dated
  <2> QED BY <1>3, <2>1
<1>5. Carries(t, w, files[PathOf(t)])
  BY <1>2, <1>4 DEF Carries, SendCreate, Creators, Removers
<1>6. w # None
  <2>1. w \in Write
    <3>1. call[t].arg \in IF Op(t) = "symlink" THEN Size ELSE Mode
      BY DEF TypeOK, Call, Op, SendCreate, Creators
    <3> QED BY <1>1, <1>3, <3>1, ConstantsAssumption DEF Write, Doc, Meta
  <2> QED BY <2>1, ConstantsAssumption
<1>7. w.doc.v <= clock' /\ clock' \in Nat /\ clock <= clock'
  BY <1>2, <1>3
<1> QED BY <1>1, <1>5, <1>6, <1>7, SendStep

\* A store: the document loaded before is still the current one, and the new
\* one inherits its content type.
LEMMA SendStoreEffect ==
  ASSUME TypeOK, EffectInv, NEW t \in Thread, SendStore(t)
  PROVE  EffectInv'
<1>1. PICK w :
        /\ Send(t, w)
        /\ w = [kind |-> "insert",
                doc |-> [v |-> clock + 1,
                         meta |-> IF doc[t] = None THEN DefaultMeta
                                  ELSE doc[t].meta,
                         size |-> call[t].arg]]
  BY DEF SendStore
<1>2. /\ w.kind = "insert" /\ w.doc.v = clock + 1 /\ w.doc.size = call[t].arg
      /\ doc[t] # None => w.doc.meta = doc[t].meta
  BY <1>1
<1>3. PathOf(t) \in Path /\ clock \in Nat /\ clock' = clock + 1
  BY DEF TypeOK, Call, PathOf, SendStore
<1>4. \A e \in files[PathOf(t)] : e.v < clock + 1
  <2>1. \A e \in files[PathOf(t)] : e.v \in Nat /\ e.v <= clock
    BY <1>3 DEF TypeOK, Doc, EffectInv, Dated
  <2> QED BY <1>3, <2>1
<1>5. ~crossed[t] => doc[t] = FindFile(files[PathOf(t)])
  BY DEF EffectInv, OnCourse, SendStore, Send, Mutators, Invalidators
<1>6. ~crossed[t] => Carries(t, w, files[PathOf(t)])
  BY <1>2, <1>4, <1>5 DEF Carries, Agree, SendStore, Removers
<1>7. w # None
  <2>1. w \in Write
    <3>1. call[t].arg \in Size
      BY DEF TypeOK, Call, Op, SendStore
    <3>2. (IF doc[t] = None THEN DefaultMeta ELSE doc[t].meta) \in Meta
      BY ConstantsAssumption DEF TypeOK, Doc, Meta, DefaultMeta
    <3> QED BY <1>1, <1>3, <3>1, <3>2 DEF Write, Doc
  <2> QED BY <2>1, ConstantsAssumption
<1>8. w.doc.v <= clock' /\ clock' \in Nat /\ clock <= clock'
  BY <1>2, <1>3
<1> QED BY <1>1, <1>6, <1>7, <1>8, SendStep

\* chmod, chown and utimens: the content type written back differs from the
\* loaded one in the field asked for, and in no other.
LEMMA NewMetaEffect ==
  ASSUME TypeOK, NEW t \in Thread, doc[t] # None,
         Op(t) \in {"chmod", "chown", "utimens"}
  PROVE  /\ Agree(t, doc[t].meta, NewMeta(t))
         /\ Op(t) = "chmod" => NewMeta(t).mode = call[t].arg
         /\ Op(t) = "chown" => NewMeta(t).owner = call[t].arg
         /\ Op(t) = "utimens" => NewMeta(t).time = call[t].arg
<1>1. doc[t].meta \in Meta
  BY DEF TypeOK, Doc
<1>2. CASE Op(t) = "chmod"
  BY <1>1, <1>2 DEF NewMeta, Agree, Meta
<1>3. CASE Op(t) = "chown"
  BY <1>1, <1>3 DEF NewMeta, Agree, Meta
<1>4. CASE Op(t) = "utimens"
  BY <1>1, <1>4 DEF NewMeta, Agree, Meta
<1> QED BY <1>2, <1>3, <1>4

\* Their write goes to the document that is current.
LEMMA SendMetaEffect ==
  ASSUME TypeOK, EffectInv, NEW t \in Thread, SendMeta(t)
  PROVE  EffectInv'
<1>1. PICK w : /\ Send(t, w)
               /\ w = [kind |-> "meta", v |-> doc[t].v, meta |-> NewMeta(t)]
  BY DEF SendMeta
<1>2. w.kind = "meta" /\ w.v = doc[t].v /\ w.meta = NewMeta(t)
  BY <1>1
<1>3. doc[t] # None
  BY DEF TypeOK, HandlerOK, Creators, SendMeta, Send
<1>4. ~crossed[t] => doc[t] = FindFile(files[PathOf(t)])
  BY DEF EffectInv, OnCourse, SendMeta, Send, Mutators, Invalidators
<1>5. ~crossed[t] => Carries(t, w, files[PathOf(t)])
  BY <1>2, <1>3, <1>4, NewMetaEffect DEF Carries, SendMeta, Removers, Creators
<1>6. w # None
  <2>1. w \in Write
    BY <1>1, <1>3, NewMetaType DEF Write, Doc, TypeOK, SendMeta
  <2> QED BY <2>1, ConstantsAssumption
<1> QED BY <1>1, <1>2, <1>5, <1>6, SendStep DEF SendMeta, TypeOK

\* truncate: so does its write.
LEMMA SendTruncateEffect ==
  ASSUME TypeOK, EffectInv, NEW t \in Thread, SendTruncate(t)
  PROVE  EffectInv'
<1>1. PICK w : Send(t, w) /\ w = [kind |-> "length", v |-> doc[t].v]
  BY DEF SendTruncate
<1>2. w.kind = "length" /\ w.v = doc[t].v
  BY <1>1
<1>3. doc[t] # None
  BY DEF TypeOK, HandlerOK, Creators, SendTruncate, Send
<1>4. ~crossed[t] => doc[t] = FindFile(files[PathOf(t)])
  BY DEF EffectInv, OnCourse, SendTruncate, Send, Mutators, Invalidators
<1>5. ~crossed[t] => Carries(t, w, files[PathOf(t)])
  BY <1>2, <1>3, <1>4 DEF Carries, SendTruncate, Removers, Creators
<1>6. w # None
  <2>1. w \in Write
    BY <1>1, <1>3 DEF Write, Doc, TypeOK
  <2> QED BY <2>1, ConstantsAssumption
<1> QED BY <1>1, <1>2, <1>5, <1>6, SendStep DEF SendTruncate, TypeOK

\* unlink and rmdir delete every version of the path, or there is none.
LEMMA SendRemoveEffect ==
  ASSUME TypeOK, EffectInv, NEW t \in Thread, SendRemove(t)
  PROVE  EffectInv'
<1>1. PICK vs, w :
        /\ vs = {e.v : e \in files[PathOf(t)]} /\ Send(t, w)
        /\ w = IF vs = {} THEN None ELSE [kind |-> "delete", vs |-> vs]
  BY DEF SendRemove
<1>2. clock' \in Nat /\ clock <= clock'
  BY DEF SendRemove, TypeOK
<1>3. CASE vs = {}
  <2>1. files[PathOf(t)] = {} /\ w = None
    BY <1>1, <1>3
  <2>2. EffectOf(t)
    BY <2>1 DEF EffectOf, SendRemove, Removers
  <2> QED BY <1>1, <1>2, <2>1, <2>2, SendStep
<1>4. CASE vs # {}
  <2>1. w.kind = "delete" /\ w.vs = vs
    BY <1>1, <1>4
  <2>2. w # None
    <3>1. vs \in SUBSET Nat
      <4>1. PathOf(t) \in Path
        BY DEF TypeOK, Call, PathOf
      <4> QED BY <1>1, <4>1 DEF TypeOK, Doc
    <3>2. w \in Write
      BY <1>1, <1>4, <3>1 DEF Write
    <3> QED BY <3>2, ConstantsAssumption
  <2>3. Carries(t, w, files[PathOf(t)])
    BY <1>1, <2>1 DEF Carries, SendRemove, Removers, Creators
  <2> QED BY <1>1, <1>2, <2>1, <2>2, <2>3, SendStep
<1> QED BY <1>3, <1>4

\* An insert or update that is applied has the effect it carries.
LEMMA AppliedEffect ==
  ASSUME TypeOK, NEW t \in Thread, NEW S, S \subseteq Doc, Carries(t, wire[t], S),
         wire[t] \in Write, wire[t].kind # "delete", Op(t) \in Mutators \ Removers,
         call'[t] = call[t], files'[PathOf(t)] = Applied(S, wire[t])
  PROVE  EffectOf(t)'
<1> DEFINE w == wire[t]
           d == FindFile(Applied(S, wire[t]))
<1>1. /\ Op(t)' = Op(t) /\ call'[t].arg = call[t].arg
      /\ FindFile(files[PathOf(t)])' = d
  BY DEF Op, PathOf
<1>2. CASE Op(t) \in Creators \cup {"store"}
  <2>1. /\ w.kind = "insert" /\ \A e \in S : e.v < w.doc.v
        /\ Op(t) \in {"create", "mkdir"} => w.doc.meta.mode = call[t].arg
        /\ Op(t) \in {"store", "symlink"} => w.doc.size = call[t].arg
    BY <1>2 DEF Carries
  <2>2. w.doc \in Doc
    BY <2>1 DEF Write
  <2>3. d = w.doc /\ d # None
    BY <2>1, <2>2, InsertEffect, ConstantsAssumption
  <2> HIDE DEF w, d
  <2> QED BY <1>1, <1>2, <2>1, <2>3 DEF EffectOf, Creators, Removers
<1>3. CASE Op(t) \in {"chmod", "chown", "utimens"}
  <2>1. /\ w.kind = "meta" /\ FindFile(S) # None /\ w.v = FindFile(S).v
        /\ Op(t) = "chmod" => w.meta.mode = call[t].arg
        /\ Op(t) = "chown" => w.meta.owner = call[t].arg
        /\ Op(t) = "utimens" => w.meta.time = call[t].arg
    BY <1>3 DEF Carries
  <2>2. w.meta \in Meta
    BY <2>1 DEF Write
  <2>3. d # None /\ d.meta = w.meta
    BY <2>1, <2>2, MetaEffect
  <2> HIDE DEF w, d
  <2> QED BY <1>1, <1>3, <2>1, <2>3 DEF EffectOf, Removers
<1>4. CASE Op(t) = "truncate"
  <2>1. w.kind = "length" /\ FindFile(S) # None /\ w.v = FindFile(S).v
    BY <1>4 DEF Carries
  <2>2. d # None /\ d.size = Empty
    BY <2>1, LengthEffect
  <2> HIDE DEF w, d
  <2> QED BY <1>1, <1>4, <2>2 DEF EffectOf, Removers
<1> QED BY <1>2, <1>3, <1>4 DEF Mutators, Invalidators

\* No write predates the clock that dated it.
LEMMA AppliedDated ==
  ASSUME TypeOK, EffectInv, NEW t \in Thread, MongoApply(t)
  PROVE  Dated'
<1>1. PICK p \in Path : p = PathOf(t)
  BY DEF TypeOK, Call, PathOf
<1>2. PICK w \in Write : w = wire[t]
  BY DEF TypeOK, MongoApply
<1>3. /\ w.kind # "delete" /\ clock' = clock
      /\ files' = [files EXCEPT ![p] = Applied(files[p], w)]
  BY <1>1, <1>2 DEF MongoApply
<1>4. \A e \in Applied(files[p], w) : e.v <= clock
  <2>1. \A e \in files[p] : e.v <= clock /\ e \in Doc
    BY DEF EffectInv, Dated, TypeOK
  <2>2. CASE w.kind = "insert"
    <3>1. w.doc.v <= clock
      BY <1>2, <2>2, ConstantsAssumption DEF EffectInv, SentDated, MongoApply
    <3> QED BY <2>1, <2>2, <3>1 DEF Applied
  <2>3. CASE w.kind = "meta"
    BY <2>1, <2>3 DEF Applied, Doc
  <2>4. CASE w.kind = "length"
    BY <2>1, <2>4 DEF Applied, Doc
  <2> QED BY <1>3, <2>2, <2>3, <2>4 DEF Write
<1> QED BY <1>3, <1>4 DEF EffectInv, Dated, TypeOK

\* A handler whose write has been applied has made its change.
LEMMA MongoApplyEffect ==
  ASSUME TypeOK, EffectInv, NEW t \in Thread, MongoApply(t)
  PROVE  EffectInv'
<1>1. PICK p \in Path : p = PathOf(t)
  BY DEF TypeOK, Call, PathOf
<1>2. /\ wire[t] # None /\ wire[t] \in Write /\ wire[t].kind # "delete"
      /\ UNCHANGED <<clock, pc, call, doc, reply, crossed>>
      /\ wire'[t] = None /\ \A u \in Thread \ {t} : wire'[u] = wire[u]
      /\ files'[p] = Applied(files[p], wire[t])
      /\ \A q \in Path \ {p} : files'[q] = files[q]
  BY <1>1 DEF MongoApply, TypeOK
<1>3. Op(t) \in Mutators \ Removers /\ pc[t] \in {"sync", "idle"}
  BY <1>2 DEF TypeOK, HandlerOK
<1>4. Op(t)' = Op(t)
  BY <1>2 DEF Op
<1>5. ~crossed[t] => EffectOf(t)'
  <2>1. ~crossed[t] => Carries(t, wire[t], files[p])
    BY <1>1, <1>2, <1>3 DEF EffectInv, OnCourse
  <2>2. files[p] \subseteq Doc
    BY DEF TypeOK
  <2> QED BY <1>1, <1>2, <1>3, <2>1, <2>2, AppliedEffect
<1>6. OnCourse(t)'
  BY <1>2, <1>3, <1>4, <1>5 DEF OnCourse
<1>7. Dated'
  BY AppliedDated
<1> QED BY <1>1, <1>2, <1>6, <1>7, OwnStep DEF TypeOK

\* A removal gets on with the versions it saw, and has left none when it ends.
LEMMA MongoDeleteEffect ==
  ASSUME TypeOK, EffectInv, NEW t \in Thread, MongoDelete(t)
  PROVE  EffectInv'
<1>1. PICK p \in Path : p = PathOf(t)
  BY DEF TypeOK, Call, PathOf
<1>2. PICK w \in Write : w = wire[t] /\ w # None /\ w.kind = "delete"
  BY DEF TypeOK, MongoDelete
<1>3. PICK n \in w.vs :
        /\ files' = [files EXCEPT ![p] = {e \in @ : e.v # n}]
        /\ wire' = [wire EXCEPT ![t] =
                      IF w.vs = {n} THEN None
                      ELSE [kind |-> "delete", vs |-> w.vs \ {n}]]
  BY <1>1, <1>2 DEF MongoDelete
<1>4. UNCHANGED <<clock, pc, call, doc, reply, crossed>>
  BY DEF MongoDelete
<1>5. /\ wire'[t] = IF w.vs = {n} THEN None
                    ELSE [kind |-> "delete", vs |-> w.vs \ {n}]
      /\ files'[p] = {e \in files[p] : e.v # n}
      /\ \A u \in Thread \ {t} : wire'[u] = wire[u]
      /\ \A q \in Path \ {p} : files'[q] = files[q]
  BY <1>3 DEF TypeOK
<1>6. Op(t) \in Removers /\ Op(t) \in Mutators /\ pc[t] \in {"sync", "idle"}
  BY <1>2 DEF TypeOK, HandlerOK, Mutators, Invalidators
<1>7. /\ Op(t)' = Op(t) /\ PathOf(t)' = p /\ pc'[t] = pc[t]
      /\ reply'[t] = reply[t]
  BY <1>1, <1>4 DEF Op, PathOf
<1>8. ~crossed[t] => /\ \A e \in files[p] : e.v \in w.vs
                     /\ pc[t] = "idle" => reply[t] # "ok"
  BY <1>1, <1>2, <1>6 DEF EffectInv, OnCourse, Carries
<1>9. OnCourse(t)'
  <2>1. CASE w.vs = {n}
    <3>1. wire'[t] = None
      BY <1>5, <2>1
    <3>2. ~crossed[t] => files'[p] = {}
      BY <1>5, <1>8, <2>1
    <3>3. ~crossed[t] => EffectOf(t)'
      BY <1>6, <1>7, <3>2 DEF EffectOf, Removers
    <3> QED BY <1>4, <1>6, <1>7, <3>1, <3>3 DEF OnCourse
  <2>2. CASE w.vs # {n}
    <3>1. wire'[t].kind = "delete" /\ wire'[t].vs = w.vs \ {n}
      BY <1>5, <2>2
    <3>2. wire'[t] # None
      <4>1. [kind |-> "delete", vs |-> w.vs \ {n}] \in Write
        BY <1>2 DEF Write
      <4> QED BY <1>5, <2>2, <4>1, ConstantsAssumption
    <3>3. ~crossed[t] => \A e \in files'[p] : e.v \in wire'[t].vs
      BY <1>5, <1>8, <3>1
    <3>4. ~crossed[t] => Carries(t, wire[t], files[PathOf(t)])'
      BY <1>6, <1>7, <3>1, <3>3 DEF Carries, Removers, Creators
    <3> QED BY <1>4, <1>6, <1>7, <1>8, <3>2, <3>4 DEF OnCourse
  <2> QED BY <2>1, <2>2
<1>10. Dated'
  BY <1>3, <1>4 DEF EffectInv, Dated, TypeOK
<1>11. wire'[t] # None => wire'[t].kind # "insert"
  BY <1>5
<1> QED BY <1>1, <1>2, <1>4, <1>5, <1>9, <1>10, <1>11, OwnStep DEF TypeOK

\* A handler that stops short does not report success, unless all it failed to
\* do was the invalidation.
LEMMA FailureEffect ==
  ASSUME TypeOK, EffectInv, NEW t \in Thread, Failure(t)
  PROVE  EffectInv'
<1>1. /\ UNCHANGED <<files, clock, call, doc, crossed>>
      /\ pc[t] # "idle" /\ pc'[t] = "idle"
      /\ \A u \in Thread \ {t} : pc'[u] = pc[u] /\ reply'[u] = reply[u]
  BY DEF Failure, MemcacheFails, MongoThrows, Crash, Abandon, Return, TypeOK
<1>2. /\ wire'[t] \in {wire[t], None}
      /\ \A u \in Thread \ {t} : wire'[u] = wire[u]
  <2>1. wire' \in {wire, [wire EXCEPT ![t] = None]}
    BY DEF Failure, MemcacheFails, MongoThrows, Crash, Abandon
  <2> QED BY <2>1 DEF TypeOK
<1>3. \/ pc[t] \in {"set", "remove"} /\ wire'[t] = None
      \/ reply'[t] # "ok"
  BY DEF Failure, MemcacheFails, MongoThrows, Crash, Abandon, Return, TypeOK,
         HandlerOK
<1>4. Op(t)' = Op(t) /\ PathOf(t)' = PathOf(t) /\ call'[t] = call[t]
  BY <1>1 DEF Op, PathOf
<1>5. EffectOf(t)' = EffectOf(t)
  BY <1>1, <1>4 DEF EffectOf
<1>6. Carries(t, wire[t], files[PathOf(t)])
        => (wire'[t] = wire[t] => Carries(t, wire[t], files[PathOf(t)])')
  BY <1>1, <1>4 DEF Carries, Agree
<1>7. pc[t] = "set" => Op(t) \notin Mutators
  BY DEF TypeOK, HandlerOK, Mutators, Creators, Invalidators, Removers
<1>8. wire[t] # None => pc[t] \in {"sync", "idle"}
  BY DEF TypeOK, HandlerOK
<1>9. OnCourse(t)'
  BY <1>1, <1>2, <1>3, <1>4, <1>5, <1>6, <1>7, <1>8 DEF OnCourse, EffectInv
<1> QED BY <1>1, <1>2, <1>9, LocalStep DEF TypeOK, EffectInv, SentDated

\* A step of a handler.
LEMMA HandlerEffect ==
  ASSUME TypeOK, EffectInv, NEW t \in Thread, Handler(t)
  PROVE  EffectInv'
BY GridfileEffect, QuietHandlerEffect, SendCreateEffect, SendStoreEffect,
   SendMetaEffect, SendTruncateEffect, SendRemoveEffect DEF Handler

-----------------------------------------------------------------------------
(* Theorems *)

\* Every step keeps the changes on course that are alone on their paths.
LEMMA EffectStep ==
  ASSUME TypeOK, EffectInv, [Next]_vars
  PROVE  EffectInv'
<1>1. ASSUME NEW t \in Thread, NEW p \in Path, Request(t, p)
      PROVE  EffectInv'
  BY <1>1, RequestEffect
<1>2. ASSUME NEW t \in Thread, Handler(t) PROVE EffectInv'
  BY <1>2, HandlerEffect
<1>3. ASSUME NEW t \in Thread, Server(t) PROVE EffectInv'
  BY <1>3, MongoApplyEffect, MongoDeleteEffect DEF Server
<1>4. ASSUME NEW t \in Thread, Failure(t) PROVE EffectInv'
  BY <1>4, FailureEffect
<1>5. ASSUME UNCHANGED <<files, clock, pc, call, doc, wire, reply, crossed>>
      PROVE  EffectInv'
  BY <1>5, CourseKept
  DEF EffectInv, Dated, SentDated, AloneOnPath, Mutating, Op, PathOf
<1>6. CASE UNCHANGED vars
  BY <1>5, <1>6 DEF vars
<1>7. ASSUME NEW p \in Path, Evict(p) PROVE EffectInv'
  BY <1>5, <1>7 DEF Evict
<1> QED BY <1>1, <1>2, <1>3, <1>4, <1>6, <1>7 DEF Next

\* The handlers start with no change under way.
LEMMA StartEffect ==
  ASSUME NEW documents \in [Path -> SUBSET Doc], NEW uploads \in Nat,
         StartsFrom(documents, uploads),
         \A p \in Path : \A d \in documents[p] : d.v <= uploads
  PROVE  EffectInv
BY DEF StartsFrom, EffectInv, Dated, SentDated, AloneOnPath, Mutating,
       OnCourse, Op, Mutators, Creators, Invalidators, Removers

\* The invariant is inductive, given the types.
THEOREM EffectInductive == Spec => []EffectInv
<1>1. Init => EffectInv
  BY StartEffect DEF Init
<1>2. TypeOK /\ EffectInv /\ [Next]_vars => EffectInv'
  BY EffectStep
<1> QED BY <1>1, <1>2, TypeCorrect, PTL DEF Spec

\* A change that reported success, and that no other change of its path
\* crossed, has had its effect: the answer never overtakes the write, and no
\* version that was there survives a removal.
THEOREM ChangesTakeEffect == Spec => []UncrossedCallTakesEffect
<1>1. TypeOK /\ EffectInv => UncrossedCallTakesEffect
  BY DEF EffectInv, OnCourse, UncrossedCallTakesEffect
<1> QED BY <1>1, EffectInductive, TypeCorrect, PTL

\* The content type is written back whole, and still a change that is alone on
\* its path overwrites nothing that it did not mean to.
THEOREM NothingElseIsLost == Spec => []RestLeftUnchanged
<1>1. TypeOK /\ EffectInv => RestLeftUnchanged
  <2> SUFFICES ASSUME TypeOK, EffectInv, NEW t \in Thread,
                      wire[t] # None, ~crossed[t],
                      FindFile(files[PathOf(t)]) # None,
                      Op(t) \in {"chmod", "chown", "utimens", "store"}
               PROVE  Agree(t, FindFile(files[PathOf(t)]).meta,
                            IF wire[t].kind = "insert" THEN wire[t].doc.meta
                            ELSE wire[t].meta)
    BY DEF RestLeftUnchanged
  <2>1. Carries(t, wire[t], files[PathOf(t)])
    BY DEF EffectInv, OnCourse, Mutators, Invalidators
  <2> QED BY <2>1 DEF Carries
<1> QED BY <1>1, EffectInductive, TypeCorrect, PTL

=============================================================================
