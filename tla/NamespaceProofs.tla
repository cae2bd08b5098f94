--------------------------- MODULE NamespaceProofs ---------------------------
(***************************************************************************)
(* What keeps the tree of directories together, for every set of mounts,   *)
(* handlers, paths and values: an entry loses its directory, and a path    *)
(* changes from a directory to something else, only in the races that      *)
(* Namespace lists.  The two listings of the code, the lookup before       *)
(* create and mkdir and the isEmpty in rmdir, are all that is needed, and  *)
(* chmod(), which writes a type with the permissions, writes the one that  *)
(* is there.                                                               *)
(* And of one mount, that its kernel leaves no room for such a race as     *)
(* long as nothing fails and no lookup misleads it.                        *)
(***************************************************************************)
EXTENDS Namespace, AttrEffectProofs, WellFoundedInduction

-----------------------------------------------------------------------------
(* Where a system call can be *)

\* A handler that is at work serves a system call, and the call is as the
\* kernel serves it; only between its lookup and its handler does a call that
\* makes a name have no handler at work.
SysOK(t) ==
  /\ Op(t) \in {"none", "getattr", "create", "mkdir", "store", "chmod"} \cup Removers
  /\ pc[t] # "idle" => sys[t] # "none"
  /\ sys[t] # "none" =>
       \/ pc[t] # "idle"
       \/ sys[t] \in Creators /\ Op(t) = "getattr"
  /\ sys[t] = "stat" => Op(t) = "getattr"
  /\ sys[t] \in Creators => Op(t) \in {"getattr", sys[t]}
  /\ sys[t] \in Removers => Op(t) = sys[t]
  /\ sys[t] = "release" => Op(t) = "store"
  /\ sys[t] = "chmod" => Op(t) = "chmod"

\* The kernel's locks exclude each other within a mount.
LocksHeld ==
  \A t, u \in Thread :
    t # u /\ mountOf[t] = mountOf[u] /\ sys[t] # "none" /\ sys[u] # "none"
      => Locks(sys[t], PathOf(t)) \cap Locks(sys[u], PathOf(u)) = {}

\* A path is stored for a handle, and once at a time, and is not removed while
\* it has one.
HandlesHeld ==
  /\ \A t \in Thread :
       /\ sys[t] = "release" => PathOf(t) \in opened[mountOf[t]]
       /\ sys[t] \in Removers => PathOf(t) \notin opened[mountOf[t]]
  /\ \A t, u \in Thread :
       t # u /\ mountOf[t] = mountOf[u] /\ sys[t] = "release" /\ sys[u] = "release"
         => PathOf(t) # PathOf(u)

\* Every race is on record.
RacesNoted == \A p \in Path : Racing(p) => p \in raced

\* mkdir makes directories and create none; a store makes what it has loaded, and
\* chmod what it has been sent.
MakesOK(t) ==
  /\ Op(t) = "create" => call[t].arg \notin DirMode
  /\ Op(t) = "mkdir" => call[t].arg \in DirMode
  /\ wire[t] # None /\ Op(t) = "chmod" =>
       wire[t].kind = "meta" /\ wire[t].meta.mode = call[t].arg
  /\ wire[t] # None /\ Op(t) \notin Removers \cup {"chmod"} =>
       /\ wire[t].kind = "insert"
       /\ Op(t) = "create" => Kind(wire[t].doc) = "other"
       /\ Op(t) = "mkdir" => Kind(wire[t].doc) = "dir"
       /\ Op(t) = "store" => (Kind(wire[t].doc) = "dir") = (Kind(doc[t]) = "dir")

\* No upload has the date of another one.
FreshDates ==
  \A t \in Thread : wire[t] # None /\ wire[t].kind = "insert" =>
    /\ \A d \in files[PathOf(t)] : d.v # wire[t].doc.v
    /\ \A u \in Thread \ {t} :
         wire[u] # None /\ wire[u].kind = "insert"
           => wire[u].doc.v # wire[t].doc.v

DatesDiffer == \A p \in Path : \A d, e \in files[p] : d.v = e.v => d = e

CallsInv ==
  /\ \A t \in Thread : SysOK(t) /\ MakesOK(t)
  /\ LocksHeld
  /\ HandlesHeld
  /\ RacesNoted
  /\ FreshDates
  /\ DatesDiffer

-----------------------------------------------------------------------------
(* The tree *)

\* t may give p a document.
Growth(t, p) == Mutating(t, p) /\ Op(t) \in {"create", "mkdir", "store"}

\* t is giving p another mode, and with it a type.
Retyping(t, p) == Mutating(t, p) /\ Op(t) = "chmod"

SentKind(t) == IF call[t].arg \in DirMode THEN "dir" ELSE "other"

\* t has decided on something by which p ceases to be a directory, if it is one.
Threat(t, p) ==
  /\ Mutating(t, p)
  /\ \/ Op(t) = "unlink"
     \/ Op(t) = "rmdir" /\ pc[t] \notin {"find", "list"}
     \/ Op(t) = "create" /\ pc[t] # "find"
     \/ Op(t) = "store" /\ pc[t] # "find" /\ Kind(doc[t]) # "dir"
     \/ Op(t) = "chmod" /\ call[t].arg \notin DirMode

\* t has looked p up, found nothing, and is going to make it.
Making(t, p) ==
  /\ PathOf(t) = p
  /\ \/ sys[t] \in Creators /\ Op(t) = "getattr" /\ pc[t] = "idle"
     \/ Op(t) \in Creators /\ (pc[t] \in {"find", "send"} \/ wire[t] # None)

\* All that is said of a path here is said of those that no race has touched.

\* What grows has its directory.
GrowthHasParent ==
  \A t \in Thread, p \in Path \ raced : Growth(t, p) =>
    \A q \in ParentOf(p) : KindOf(q) = "dir"

\* Nothing is below what is about to cease to be a directory, and nothing is on
\* its way there.
ThreatIsEmpty ==
  \A t, u \in Thread, q \in Path : Threat(u, q) =>
    \A p \in Children[q] \ raced : files[p] = {} /\ ~Growth(t, p)

\* A store finds the file that its handle was opened for.
StoreHasFile ==
  \A t \in Thread, p \in Path \ raced : Growth(t, p) /\ Op(t) = "store" =>
    KindOf(p) = "other" /\ (pc[t] # "find" => Kind(doc[t]) = "other")

\* chmod sends the type that the path has.
SendsItsKind ==
  \A t \in Thread, p \in Path \ raced : Retyping(t, p) => KindOf(p) = SentKind(t)

\* What is made is not there.
MakingIsNew ==
  \A t \in Thread, p \in Path \ raced : Making(t, p) => files[p] = {}

\* All versions of a path are directories, or none is.
OneKind ==
  \A p \in Path \ raced : \A d, e \in files[p] : Kind(d) = Kind(e)

\* What is there has its directory.
HasParent ==
  \A p \in Path \ raced : files[p] # {} => \A q \in ParentOf(p) : KindOf(q) = "dir"

TreeInv ==
  /\ GrowthHasParent
  /\ ThreatIsEmpty
  /\ StoreHasFile
  /\ SendsItsKind
  /\ MakingIsNew
  /\ OneKind
  /\ HasParent

-----------------------------------------------------------------------------
(* The handlers under the kernels *)

\* A step of the name space is a step of its handlers, or none.
LEMMA HandlersStep ==
  ASSUME TypeOK, [NSNext]_nsvars
  PROVE  [Next]_vars
<1>1. ASSUME NEW t \in Thread, System(t) PROVE \E p \in Path : Request(t, p)
  <2>1. ASSUME SysCreateFree(t) PROVE \E p \in Path : Request(t, p)
    <3>1. PICK p \in Path : p = PathOf(t)
      BY DEF TypeOK, Call, PathOf
    <3>2. Create(t, p) \/ Mkdir(t, p)
      BY <2>1, <3>1 DEF SysCreateFree
    <3> QED BY <3>2 DEF Request
  <2> QED
    BY <1>1, <2>1 DEF System, SysStat, SysCreate, SysRemove, SysChmod, SysRelease, Request
<1>2. CASE NSNext
  BY <1>1, <1>2 DEF NSNext, Next, Failure, Forget
<1> QED BY <1>2 DEF nsvars

\* A kernel's variables keep their types.
LEMMA NoteRacesType ==
  ASSUME NSTypeOK, NEW also, also \subseteq Path, NoteRaces(also)
  PROVE  raced' \subseteq Path
BY DEF NSTypeOK, NoteRaces

\* The system calls keep the types.
LEMMA SystemType ==
  ASSUME NSTypeOK, NEW t \in Thread, System(t), TypeOK'
  PROVE  NSTypeOK'
<1>1. \A p \in Path, S \in SUBSET Path : p \in Path /\ {p} \cup Children[p] \subseteq Path
  BY ConstantsAssumption
<1>2. ASSUME NEW p \in Path,
             NEW op \in {"stat", "create", "mkdir", "chmod"} \cup Removers,
             Enter(t, op, p), raced' \subseteq Path
      PROVE  NSTypeOK'
  BY <1>2 DEF NSTypeOK, Enter
<1>3. ASSUME NEW p \in Path, SysStat(t, p) PROVE NSTypeOK'
  BY <1>2, <1>3, NoteRacesType DEF SysStat
<1>4. ASSUME NEW p \in Path, NEW op \in {"create", "mkdir"}, SysCreate(t, p, op)
      PROVE  NSTypeOK'
  BY <1>2, <1>4, NoteRacesType DEF SysCreate
<1>5. CASE SysCreateFree(t)
  <2>1. PathOf(t) \in Path
    BY DEF NSTypeOK, TypeOK, Call, PathOf
  <2>2. raced' \subseteq Path
    BY <1>5, <2>1, NoteRacesType DEF SysCreateFree
  <2> QED BY <1>5, <2>2 DEF SysCreateFree, NSTypeOK
<1>6. ASSUME NEW p \in Path, NEW op \in Removers, SysRemove(t, p, op)
      PROVE  NSTypeOK'
  <2>1. raced' \subseteq Path
    BY <1>1, <1>6, NoteRacesType DEF SysRemove
  <2> QED BY <1>2, <1>6, <2>1 DEF SysRemove
<1>7. ASSUME NEW p \in Path, SysRelease(t, p) PROVE NSTypeOK'
  <2>1. raced' \subseteq Path
    BY <1>7, NoteRacesType DEF SysRelease
  <2> QED BY <1>7, <2>1 DEF SysRelease, NSTypeOK
<1>8. ASSUME NEW p \in Path, SysChmod(t, p) PROVE NSTypeOK'
  <2>1. raced' \subseteq Path
    BY <1>1, <1>8, NoteRacesType DEF SysChmod
  <2> QED BY <1>2, <1>8, <2>1 DEF SysChmod
<1> QED BY <1>3, <1>4, <1>5, <1>6, <1>7, <1>8 DEF System

\* So does the kernel's part in a step of a handler.
LEMMA KernelType ==
  ASSUME NSTypeOK, NEW t \in Thread, Kernel(t), TypeOK'
  PROVE  NSTypeOK'
<1>1. PathOf(t) \in Path /\ mountOf[t] \in Mount
  BY DEF NSTypeOK, TypeOK, Call, PathOf
<1>2. raced' \subseteq Path
  BY NoteRacesType DEF Kernel
<1>3. Seen(t) \in {"none", "dir", "other"}
  BY <1>1 DEF Seen, Kind, NSTypeOK
<1>4. dentry' \in [Mount -> [Path -> {"none", "dir", "other"}]]
  <2>1. [dentry EXCEPT ![mountOf[t]][PathOf(t)] = Seen(t)]
          \in [Mount -> [Path -> {"none", "dir", "other"}]]
    BY <1>1, <1>3 DEF NSTypeOK
  <2> QED BY <2>1 DEF Kernel, NSTypeOK
<1>5. opened' \in [Mount -> SUBSET Path]
  BY <1>1 DEF Kernel, NSTypeOK
<1>6. sys' \in [Thread -> {"none", "stat", "release", "create", "mkdir", "chmod"}
                           \cup Removers]
  BY DEF Kernel, NSTypeOK
<1>7. misled' \in BOOLEAN /\ mountOf' = mountOf
  BY DEF Kernel, NSTypeOK
<1> QED BY <1>2, <1>4, <1>5, <1>6, <1>7 DEF NSTypeOK

\* Every step of the name space keeps the types.
LEMMA TreeTypeStep ==
  ASSUME NSTypeOK, [NSNext]_nsvars
  PROVE  NSTypeOK'
<1>1. TypeOK'
  BY HandlersStep, TypeStep DEF NSTypeOK
<1>2. ASSUME NEW t \in Thread, System(t) PROVE NSTypeOK'
  BY <1>1, <1>2, SystemType
<1>3. ASSUME NEW t \in Thread, Kernel(t) PROVE NSTypeOK'
  BY <1>1, <1>3, KernelType
<1>4. ASSUME UNCHANGED <<mountOf, dentry, opened, sys, misled>>,
             raced' = raced \/ NoteRaces({})
      PROVE  NSTypeOK'
  BY <1>1, <1>4, NoteRacesType DEF NSTypeOK
<1>5. ASSUME NEW m \in Mount, NEW p \in Path, Forget(m, p) PROVE NSTypeOK'
  BY <1>1, <1>5 DEF Forget, NSTypeOK
<1>6. CASE UNCHANGED nsvars
  BY <1>4, <1>6 DEF nsvars, kernel
<1> QED BY <1>2, <1>3, <1>4, <1>5, <1>6 DEF NSNext, kernel

\* The directories that the database has at first are documents.
LEMMA TreeStart ==
  ASSUME NSInit
  PROVE  /\ NSTypeOK /\ EffectInv
         /\ \A p \in Path : files[p] # {} => ParentOf(p) = {}
         /\ \A p \in Path : \A d, e \in files[p] : d = e
<1>1. PICK D \in SUBSET {p \in Path : ParentOf(p) = {}}, m \in DirMode, now \in Time :
        LET made == [v |-> 1, size |-> Empty,
                     meta |-> [mode |-> m, owner |-> DefaultOwner, time |-> now]]
        IN  /\ StartsFrom([p \in Path |-> IF p \in D THEN {made} ELSE {}], 1)
            /\ dentry \in [Mount -> {[p \in Path |-> "none"],
                                     [p \in Path |-> IF p \in D THEN "dir" ELSE "none"]}]
  BY DEF NSInit
<1> DEFINE made == [v |-> 1, size |-> Empty,
                    meta |-> [mode |-> m, owner |-> DefaultOwner, time |-> now]]
           documents == [p \in Path |-> IF p \in D THEN {made} ELSE {}]
<1>2. made \in Doc /\ made.v = 1
  BY ConstantsAssumption DEF Doc, Meta
<1>3. StartsFrom(documents, 1)
  BY <1>1
<1> HIDE DEF made
<1>4. /\ documents \in [Path -> SUBSET Doc]
      /\ \A p \in Path : \A d \in documents[p] : d.v <= 1
  BY <1>2
<1> HIDE DEF documents
<1>5. TypeOK /\ EffectInv
  BY <1>3, <1>4, StartType, StartEffect
<1>6. dentry \in [Mount -> [Path -> {"none", "dir", "other"}]]
  BY <1>1
<1>7. NSTypeOK
  BY <1>5, <1>6 DEF NSInit, NSTypeOK
<1>8. files = documents
  BY <1>3 DEF StartsFrom
<1> QED BY <1>5, <1>7, <1>8 DEF documents

\* The name space keeps its types.
THEOREM TreeTypeCorrect == NSSpec => []NSTypeOK
<1>1. NSInit => NSTypeOK
  BY TreeStart
<1>2. NSTypeOK /\ [NSNext]_nsvars => NSTypeOK'
  BY TreeTypeStep
<1> QED BY <1>1, <1>2, PTL DEF NSSpec

-----------------------------------------------------------------------------
(* Steps, as far as they matter to the tree *)

\* A request that begins.
LEMMA BeginShape ==
  ASSUME NSTypeOK, NEW t \in Thread, NEW p \in Path, NEW op, NEW a, NEW first,
         Begin(t, op, p, a, first)
  PROVE  /\ pc[t] = "idle" /\ wire[t] = None
         /\ pc'[t] = first /\ Op(t)' = op /\ PathOf(t)' = p /\ call'[t].arg = a
         /\ UNCHANGED <<files, wire, doc>>
         /\ \A u \in Thread \ {t} :
              /\ pc'[u] = pc[u] /\ call'[u] = call[u]
              /\ Op(u)' = Op(u) /\ PathOf(u)' = PathOf(u)
BY DEF Begin, NSTypeOK, TypeOK, Op, PathOf

\* A step of a handler, or its failure: it changes no document.
LEMMA LocalShape ==
  ASSUME NSTypeOK, NEW t \in Thread,
         Handler(t) \/ MongoThrows(t) \/ MemcacheFails(t)
  PROVE  /\ pc[t] # "idle" /\ UNCHANGED <<files, call>>
         /\ \A u \in Thread : Op(u)' = Op(u) /\ PathOf(u)' = PathOf(u)
         /\ \A u \in Thread \ {t} :
              pc'[u] = pc[u] /\ wire'[u] = wire[u] /\ doc'[u] = doc[u]
         /\ \/ Gridfile(t) /\ wire'[t] = wire[t]
            \/ /\ pc[t] = "list" /\ pc'[t] = "send" /\ doc'[t] = doc[t]
               /\ wire'[t] = wire[t]
               /\ \A q \in Children[PathOf(t)] : files[q] = {}
            \/ pc[t] = "send" /\ pc'[t] = "sync" /\ doc'[t] = doc[t]
            \/ /\ pc'[t] \in {"idle", "find", "remove"} /\ doc'[t] = doc[t]
               /\ pc'[t] = "find" => Op(t) = "getattr"
               /\ pc[t] \in {"find", "list"} => pc'[t] = "idle"
               /\ wire'[t] \in {wire[t], None}
               /\ pc'[t] = "idle" => reply'[t] # "ENOENT"
<1>1. \A u \in Thread : call' = call => Op(u)' = Op(u) /\ PathOf(u)' = PathOf(u)
  BY DEF Op, PathOf
<1>2. CASE Gridfile(t)
  <2>1. PathOf(t) \in Path
    BY DEF NSTypeOK, TypeOK, Call, PathOf
  <2>2. pc' = [pc EXCEPT ![t] = pc'[t]]
    BY <1>2, <2>1, FoundIsDoc, FoundType DEF Gridfile, NSTypeOK
  <2>3. \A u \in Thread \ {t} : pc'[u] = pc[u]
    <3>1. \A u \in Thread \ {t} : [pc EXCEPT ![t] = pc'[t]][u] = pc[u]
      BY DEF NSTypeOK, TypeOK
    <3> QED BY <2>2, <3>1
  <2> QED BY <1>1, <1>2, <2>3 DEF Gridfile, NSTypeOK, TypeOK
<1>3. ASSUME NEW w, Send(t, w), pc[t] = "send" PROVE
        /\ UNCHANGED <<files, call>>
        /\ \A u \in Thread \ {t} :
             pc'[u] = pc[u] /\ wire'[u] = wire[u] /\ doc'[u] = doc[u]
        /\ pc'[t] = "sync" /\ doc'[t] = doc[t]
  BY <1>3 DEF Send, Goto, NSTypeOK, TypeOK
<1>4. CASE SendCreate(t) \/ SendStore(t) \/ SendMeta(t) \/ SendTruncate(t)
           \/ SendRemove(t)
  <2>1. PICK w : Send(t, w)
    BY <1>4, Zenon DEF SendCreate, SendStore, SendMeta, SendTruncate, SendRemove
  <2>2. pc[t] = "send"
    BY <2>1 DEF Send
  <2> QED BY <1>1, <1>3, <2>1, <2>2
<1>5. CASE IsEmpty(t)
  BY <1>1, <1>5 DEF IsEmpty, Goto, Return, NSTypeOK, TypeOK
<1>6. CASE MemcacheGet(t)
  BY <1>1, <1>6 DEF MemcacheGet, Goto, Return, NSTypeOK, TypeOK, HandlerOK
<1>7. CASE SynchonizeUpdate(t)
  BY <1>1, <1>7 DEF SynchonizeUpdate, Goto, Return, NSTypeOK, TypeOK
<1>8. CASE MemcacheSet(t) \/ MemcacheRemove(t)
  BY <1>1, <1>8 DEF MemcacheSet, MemcacheRemove, Return, NSTypeOK, TypeOK
<1>9. CASE MemcacheFails(t)
  BY <1>1, <1>9 DEF MemcacheFails, Return, NSTypeOK, TypeOK
<1>10. CASE MongoThrows(t)
  BY <1>1, <1>10 DEF MongoThrows, Abandon, Return, NSTypeOK, TypeOK
<1> QED BY <1>2, <1>4, <1>5, <1>6, <1>7, <1>8, <1>9, <1>10 DEF Handler

\* A step of the server: it changes the documents of one path, for a handler
\* that has sent a write there.
LEMMA ServerShape ==
  ASSUME NSTypeOK, NEW t \in Thread, Server(t)
  PROVE  /\ UNCHANGED <<pc, call, doc, clock>>
         /\ \A u \in Thread : Op(u)' = Op(u) /\ PathOf(u)' = PathOf(u)
         /\ wire[t] # None /\ pc[t] \in {"sync", "idle"} /\ Op(t) \in Mutators
         /\ \A u \in Thread \ {t} : wire'[u] = wire[u]
         /\ \A q \in Path \ {PathOf(t)} : files'[q] = files[q]
         /\ \/ /\ wire[t].kind # "delete" /\ wire'[t] = None
               /\ files'[PathOf(t)] = Applied(files[PathOf(t)], wire[t])
               /\ Op(t) \notin Removers
            \/ /\ wire[t].kind = "delete" /\ Op(t) \in Removers
               /\ wire'[t] # None => wire'[t].kind = "delete"
               /\ files'[PathOf(t)] \subseteq files[PathOf(t)]
<1>1. PathOf(t) \in Path /\ wire[t] # None
  BY DEF NSTypeOK, TypeOK, Call, PathOf, Server, MongoApply, MongoDelete
<1>2. /\ pc[t] \in {"sync", "idle"}
      /\ Op(t) \in IF wire[t].kind = "delete" THEN Removers ELSE Mutators \ Removers
      /\ Op(t) \in Mutators
  BY <1>1 DEF NSTypeOK, TypeOK, HandlerOK, Mutators, Invalidators
<1>3. CASE MongoApply(t)
  BY <1>1, <1>2, <1>3 DEF MongoApply, NSTypeOK, TypeOK, Op, PathOf
<1>4. CASE MongoDelete(t)
  <2>1. PICK n \in wire[t].vs :
          /\ files' = [files EXCEPT ![PathOf(t)] = {d \in @ : d.v # n}]
          /\ wire' = [wire EXCEPT ![t] =
                        IF wire[t].vs = {n} THEN None
                        ELSE [kind |-> "delete", vs |-> wire[t].vs \ {n}]]
    BY <1>4 DEF MongoDelete
  <2>2. wire[t].kind = "delete" /\ UNCHANGED <<pc, call, doc, clock>>
    BY <1>4 DEF MongoDelete
  <2>3. /\ files'[PathOf(t)] \subseteq files[PathOf(t)]
        /\ \A q \in Path \ {PathOf(t)} : files'[q] = files[q]
    BY <1>1, <2>1 DEF NSTypeOK, TypeOK
  <2>4. /\ wire'[t] # None => wire'[t].kind = "delete"
        /\ \A u \in Thread \ {t} : wire'[u] = wire[u]
    BY <2>1 DEF NSTypeOK, TypeOK
  <2> QED BY <1>1, <1>2, <2>2, <2>3, <2>4 DEF Op, PathOf
<1> QED BY <1>3, <1>4 DEF Server

-----------------------------------------------------------------------------
(* System calls take their turns *)

\* A step that says which paths race afterwards has them on record.
LEMMA RacesAreNoted ==
  ASSUME NEW also, NoteRaces(also)
  PROVE  RacesNoted' /\ raced \subseteq raced' /\ also \subseteq raced'
BY DEF NoteRaces, RacesNoted

\* op with argument a is a request by which the system call s is served.
Serves(op, a, s) ==
  /\ s \in {"stat", "release", "create", "mkdir", "chmod"} \cup Removers
  /\ op \in {"getattr", "create", "mkdir", "store", "chmod"} \cup Removers
  /\ s = "stat" => op = "getattr"
  /\ s \in Creators => op \in {"getattr", s}
  /\ s \in Removers => op = s
  /\ s = "release" => op = "store"
  /\ s = "chmod" => op = "chmod"
  /\ op = "create" => a \notin DirMode
  /\ op = "mkdir" => a \in DirMode

\* A request begins: as a new system call, which has the locks it needs and
\* handles it can use, or as the second part of one.
LEMMA BeginCalls ==
  ASSUME NSTypeOK, CallsInv, NEW t \in Thread, NEW p \in Path, NEW op, NEW a,
         NEW first \in {"get", "find", "send"}, Begin(t, op, p, a, first),
         NEW s, Serves(op, a, s), sys' = [sys EXCEPT ![t] = s], UNCHANGED <<mountOf, opened>>,
         RacesNoted',
         \/ s = sys[t] /\ p = PathOf(t)
         \/ \A u \in Thread \ {t} : mountOf[u] = mountOf[t] /\ sys[u] # "none" =>
              Locks(sys[u], PathOf(u)) \cap Locks(s, p) = {},
         s = "release" =>
           /\ p \in opened[mountOf[t]]
           /\ \A u \in Thread : mountOf[u] = mountOf[t] /\ sys[u] = "release"
                => PathOf(u) # p,
         s \in Removers => p \notin opened[mountOf[t]]
  PROVE  CallsInv'
<1>1. /\ wire[t] = None /\ pc'[t] = first /\ Op(t)' = op /\ PathOf(t)' = p
      /\ call'[t].arg = a
      /\ UNCHANGED <<files, wire, doc>>
      /\ \A u \in Thread \ {t} :
           /\ pc'[u] = pc[u] /\ call'[u] = call[u]
           /\ Op(u)' = Op(u) /\ PathOf(u)' = PathOf(u)
  BY BeginShape
<1>2. sys'[t] = s /\ \A u \in Thread \ {t} : sys'[u] = sys[u]
  BY DEF NSTypeOK
<1>3. ASSUME NEW u \in Thread PROVE SysOK(u)' /\ MakesOK(u)'
  <2>1. CASE u = t
    BY <1>1, <1>2, <2>1 DEF Serves, SysOK, MakesOK, Creators, Removers
  <2>2. CASE u # t
    BY <1>1, <1>2, <2>2 DEF CallsInv, SysOK, MakesOK
  <2> QED BY <2>1, <2>2
<1>4. LocksHeld'
  <2>1. \A u \in Thread \ {t} : mountOf[u] = mountOf[t] /\ sys[u] # "none" =>
          Locks(sys[u], PathOf(u)) \cap Locks(s, p) = {}
    <3>1. s # "none"
      BY DEF Serves, Removers
    <3> QED BY <3>1 DEF CallsInv, LocksHeld
  <2>2. \A u \in Thread : Locks(sys[u], PathOf(u))' = Locks(sys'[u], PathOf(u)')
    BY DEF Locks, ParentOf
  <2>3. ASSUME NEW x \in Thread, NEW u \in Thread, x # u, mountOf[x] = mountOf[u],
               sys'[x] # "none", sys'[u] # "none"
        PROVE  Locks(sys'[x], PathOf(x)') \cap Locks(sys'[u], PathOf(u)') = {}
    BY <1>1, <1>2, <2>1, <2>3 DEF CallsInv, LocksHeld
  <2> QED BY <2>2, <2>3 DEF LocksHeld
<1>5. HandlesHeld'
  BY <1>1, <1>2 DEF CallsInv, HandlesHeld
<1>6. FreshDates' /\ DatesDiffer'
  BY <1>1 DEF CallsInv, FreshDates, DatesDiffer
<1> QED BY <1>3, <1>4, <1>5, <1>6 DEF CallsInv

\* Every system call begins so.
LEMMA SystemCalls ==
  ASSUME NSTypeOK, CallsInv, NEW t \in Thread, System(t)
  PROVE  CallsInv'
<1>1. ASSUME NEW p \in Path, SysStat(t, p) PROVE CallsInv'
  <2>1. /\ Begin(t, "getattr", p, None, "get") /\ RacesNoted'
        /\ sys' = [sys EXCEPT ![t] = "stat"] /\ UNCHANGED <<mountOf, opened>>
    BY <1>1, RacesAreNoted DEF SysStat, Enter, Getattr
  <2>2. \A u \in Thread : Locks(sys[u], PathOf(u)) \cap Locks("stat", p) = {}
    BY DEF Locks, Creators, Removers
  <2>3. Serves("getattr", None, "stat") /\ "stat" \notin Removers
    BY DEF Serves, Creators, Removers
  <2> QED BY <2>1, <2>2, <2>3, BeginCalls
<1>2. ASSUME NEW p \in Path, NEW op \in {"create", "mkdir"}, SysCreate(t, p, op)
      PROVE  CallsInv'
  <2>1. Serves("getattr", None, op) /\ op \notin {"release"} \cup Removers
    BY DEF Serves, Creators, Removers
  <2> QED
    BY <1>2, <2>1, BeginCalls, RacesAreNoted DEF SysCreate, Enter, CanLock, Getattr
<1>3. CASE SysCreateFree(t)
  <2>1. PathOf(t) \in Path
    BY DEF NSTypeOK, TypeOK, Call, PathOf
  <2>2. RacesNoted'
    BY <1>3, RacesAreNoted DEF SysCreateFree
  <2>3. sys' = [sys EXCEPT ![t] = sys[t]]
    BY <1>3 DEF SysCreateFree, NSTypeOK
  <2>4. CASE sys[t] = "create"
    <3>1. PICK m \in Mode \ (DirMode \cup {LinkMode}) :
            Begin(t, "create", PathOf(t), m, "find")
      BY <1>3, <2>4 DEF SysCreateFree, Create
    <3>2. Serves("create", m, "create") /\ "create" \notin {"release"} \cup Removers
      BY DEF Serves, Creators, Removers
    <3> QED
      BY <1>3, <2>1, <2>2, <2>3, <2>4, <3>1, <3>2, BeginCalls DEF SysCreateFree
  <2>5. CASE sys[t] = "mkdir"
    <3>1. PICK m \in DirMode : Begin(t, "mkdir", PathOf(t), m, "send")
      BY <1>3, <2>5 DEF SysCreateFree, Mkdir
    <3>2. Serves("mkdir", m, "mkdir") /\ "mkdir" \notin {"release"} \cup Removers
      BY DEF Serves, Creators, Removers
    <3> QED
      BY <1>3, <2>1, <2>2, <2>3, <2>5, <3>1, <3>2, BeginCalls DEF SysCreateFree
  <2> QED BY <1>3, <2>4, <2>5 DEF SysCreateFree
<1>4. ASSUME NEW p \in Path, NEW op \in Removers, SysRemove(t, p, op)
      PROVE  CallsInv'
  <2>1. Serves(op, None, op) /\ op # "release"
    BY DEF Serves, Creators, Removers
  <2>2. Begin(t, op, p, None, "find")
    BY <1>4 DEF SysRemove, Unlink, Rmdir, Removers
  <2> QED
    BY <1>4, <2>1, <2>2, BeginCalls, RacesAreNoted DEF SysRemove, Enter, CanLock
<1>5. ASSUME NEW p \in Path, SysRelease(t, p) PROVE CallsInv'
  <2>1. PICK n \in Size : Begin(t, "store", p, n, "find")
    BY <1>5 DEF SysRelease, ReleaseDirty
  <2>2. \A u \in Thread : Locks(sys[u], PathOf(u)) \cap Locks("release", p) = {}
    BY DEF Locks, Creators, Removers
  <2>3. /\ RacesNoted'
        /\ sys' = [sys EXCEPT ![t] = "release"] /\ UNCHANGED <<mountOf, opened>>
        /\ p \in opened[mountOf[t]]
        /\ \A u \in Thread : mountOf[u] = mountOf[t] /\ sys[u] = "release"
             => PathOf(u) # p
    BY <1>5, RacesAreNoted DEF SysRelease
  <2>4. Serves("store", n, "release") /\ "release" \notin Removers
    BY DEF Serves, Creators, Removers
  <2> QED BY <2>1, <2>2, <2>3, <2>4, BeginCalls
<1>6. ASSUME NEW p \in Path, SysChmod(t, p) PROVE CallsInv'
  <2>1. PICK m \in Mode : Begin(t, "chmod", p, m, "find")
    BY <1>6 DEF SysChmod, Chmod
  <2>2. Serves("chmod", m, "chmod") /\ "chmod" \notin {"release"} \cup Removers
    BY DEF Serves, Creators, Removers
  <2> QED
    BY <1>6, <2>1, <2>2, BeginCalls, RacesAreNoted DEF SysChmod, Enter, CanLock
<1> QED BY <1>1, <1>2, <1>3, <1>4, <1>5, <1>6 DEF System

\* An upload that is sent now has a date that no other one has.
LEMMA SendIsFresh ==
  ASSUME NSTypeOK, CallsInv, EffectInv, NEW t \in Thread,
         wire[t] = None, UNCHANGED <<files, call>>,
         \A u \in Thread \ {t} : wire'[u] = wire[u],
         wire'[t] # None /\ wire'[t].kind = "insert" => wire'[t].doc.v = clock + 1
  PROVE  FreshDates'
<1>1. \A u \in Thread : PathOf(u)' = PathOf(u) /\ PathOf(u) \in Path
  BY DEF NSTypeOK, TypeOK, Call, PathOf
<1>2. /\ clock \in Nat
      /\ \A q \in Path : \A d \in files[q] : d.v <= clock /\ d.v \in Nat
      /\ \A u \in Thread : wire[u] # None /\ wire[u].kind = "insert" =>
           wire[u].doc.v <= clock /\ wire[u].doc.v \in Nat
  BY DEF EffectInv, Dated, SentDated, NSTypeOK, TypeOK, Doc, Write
<1>3. ASSUME NEW u \in Thread, wire'[u] # None, wire'[u].kind = "insert"
      PROVE  /\ \A d \in files'[PathOf(u)'] : d.v # wire'[u].doc.v
             /\ \A x \in Thread \ {u} :
                  wire'[x] # None /\ wire'[x].kind = "insert"
                    => wire'[x].doc.v # wire'[u].doc.v
  <2>1. CASE u = t
    BY <1>1, <1>2, <1>3, <2>1
  <2>2. CASE u # t
    BY <1>1, <1>2, <1>3, <2>2 DEF CallsInv, FreshDates
  <2> QED BY <2>1, <2>2
<1> QED BY <1>3 DEF FreshDates

\* A handler sends what its request says.
LEMMA SendMakes ==
  ASSUME NSTypeOK, CallsInv, EffectInv, NEW t \in Thread,
         \/ SendCreate(t) \/ SendStore(t) \/ SendMeta(t) \/ SendTruncate(t)
         \/ SendRemove(t)
  PROVE  MakesOK(t)' /\ FreshDates'
<1>1. /\ Op(t) \notin {"symlink", "chown", "utimens", "truncate"}
      /\ Op(t) = "create" => call[t].arg \notin DirMode
      /\ Op(t) = "mkdir" => call[t].arg \in DirMode
  BY DEF CallsInv, SysOK, MakesOK, Removers
<1>2. ASSUME NEW w, Send(t, w)
      PROVE  /\ pc[t] = "send" /\ wire[t] = None /\ UNCHANGED <<files, call, doc>>
             /\ wire'[t] = w /\ \A u \in Thread \ {t} : wire'[u] = wire[u]
             /\ Op(t)' = Op(t)
  BY <1>2 DEF Send, NSTypeOK, TypeOK, HandlerOK, Op
<1>3. CASE SendCreate(t)
  <2>1. PICK now \in Time :
          Send(t, [kind |-> "insert",
                   doc |-> [v |-> clock + 1,
                            meta |-> [mode |-> IF Op(t) = "symlink" THEN LinkMode
                                               ELSE call[t].arg,
                                      owner |-> DefaultOwner, time |-> now],
                            size |-> IF Op(t) = "symlink" THEN call[t].arg
                                     ELSE Empty]])
    BY <1>3 DEF SendCreate
  <2> DEFINE d == [v |-> clock + 1,
                   meta |-> [mode |-> call[t].arg,
                             owner |-> DefaultOwner, time |-> now],
                   size |-> Empty]
             w == [kind |-> "insert", doc |-> d]
  <2>2. Op(t) \in {"create", "mkdir"} /\ Send(t, w)
    BY <1>1, <1>3, <2>1 DEF SendCreate, Creators
  <2>3. /\ d.v = clock + 1 /\ d.meta.mode = call[t].arg /\ d \in Doc
        /\ w.kind = "insert" /\ w.doc = d
    <3>1. call[t].arg \in Mode
      BY <2>2 DEF NSTypeOK, TypeOK, Call, Op
    <3> QED BY <3>1, ConstantsAssumption DEF NSTypeOK, TypeOK, Doc, Meta
  <2> HIDE DEF d, w
  <2>4. FreshDates'
    BY <1>2, <2>2, <2>3, SendIsFresh
  <2>5. d # None
    BY <2>3, ConstantsAssumption
  <2>6. MakesOK(t)'
    BY <1>1, <1>2, <2>2, <2>3, <2>5 DEF MakesOK, Kind
  <2> QED BY <2>4, <2>6
<1>4. CASE SendStore(t)
  <2> DEFINE m == IF doc[t] = None THEN DefaultMeta ELSE doc[t].meta
             d == [v |-> clock + 1, meta |-> m, size |-> call[t].arg]
             w == [kind |-> "insert", doc |-> d]
  <2>1. Op(t) = "store" /\ Send(t, w)
    BY <1>4 DEF SendStore
  <2>2. m \in Meta /\ (m.mode \in DirMode <=> Kind(doc[t]) = "dir")
    BY ConstantsAssumption DEF NSTypeOK, TypeOK, Doc, Meta, DefaultMeta, Kind
  <2>3. /\ d.v = clock + 1 /\ d.meta = m /\ d \in Doc
        /\ w.kind = "insert" /\ w.doc = d
    <3>1. call[t].arg \in Size
      BY <2>1 DEF NSTypeOK, TypeOK, Call, Op
    <3> HIDE DEF m
    <3> QED BY <2>2, <3>1 DEF NSTypeOK, TypeOK, Doc
  <2> HIDE DEF m, d, w
  <2>4. FreshDates'
    BY <1>2, <2>1, <2>3, SendIsFresh
  <2>5. d # None
    BY <2>3, ConstantsAssumption
  <2>6. (Kind(d) = "dir") = (Kind(doc[t]) = "dir")
    BY <2>2, <2>3, <2>5 DEF Kind
  <2>7. MakesOK(t)'
    BY <1>2, <2>1, <2>3, <2>6 DEF MakesOK
  <2> QED BY <2>4, <2>7
<1>5. CASE SendMeta(t) \/ SendTruncate(t)
  <2> DEFINE m == [doc[t].meta EXCEPT !.mode = call[t].arg]
             w == [kind |-> "meta", v |-> doc[t].v, meta |-> m]
  <2>1. Op(t) = "chmod" /\ Send(t, w)
    BY <1>1, <1>5 DEF SendMeta, SendTruncate, NewMeta
  <2>2. doc[t] \in Doc
    BY <1>2, <2>1 DEF NSTypeOK, TypeOK, HandlerOK, Creators
  <2>3. m.mode = call[t].arg
    BY <2>2 DEF Doc, Meta
  <2>4. w.kind = "meta" /\ w.meta = m
    OBVIOUS
  <2> HIDE DEF m, w
  <2>5. FreshDates'
    BY <1>2, <2>1, <2>4, SendIsFresh
  <2>6. MakesOK(t)'
    BY <1>2, <2>1, <2>3, <2>4 DEF MakesOK
  <2> QED BY <2>5, <2>6
<1>6. CASE SendRemove(t)
  <2> DEFINE vs == {d.v : d \in files[PathOf(t)]}
             w == IF vs = {} THEN None ELSE [kind |-> "delete", vs |-> vs]
  <2>1. Op(t) \in Removers /\ Send(t, w)
    BY <1>6 DEF SendRemove
  <2>2. w # None => w.kind = "delete"
    OBVIOUS
  <2> HIDE DEF vs, w
  <2>3. FreshDates'
    BY <1>2, <2>1, <2>2, SendIsFresh
  <2>4. MakesOK(t)'
    BY <1>2, <2>1 DEF MakesOK, Removers
  <2> QED BY <2>3, <2>4
<1> QED BY <1>3, <1>4, <1>5, <1>6

\* The other steps of a handler send nothing.
LEMMA LocalMakes ==
  ASSUME NSTypeOK, CallsInv, EffectInv, NEW t \in Thread,
         Handler(t) \/ MongoThrows(t) \/ MemcacheFails(t)
  PROVE  MakesOK(t)' /\ FreshDates'
<1>1. /\ UNCHANGED <<files, call>> /\ Op(t)' = Op(t)
      /\ \A u \in Thread : PathOf(u)' = PathOf(u)
      /\ \A u \in Thread \ {t} : wire'[u] = wire[u]
      /\ pc[t] \notin {"find", "send"} => doc'[t] = doc[t]
  BY LocalShape DEF Gridfile
<1>2. CASE \/ SendCreate(t) \/ SendStore(t) \/ SendMeta(t) \/ SendTruncate(t)
           \/ SendRemove(t)
  BY <1>2, SendMakes
<1>3. ASSUME wire'[t] \in {wire[t], None}
      PROVE  MakesOK(t)' /\ FreshDates'
  <2>1. wire[t] # None => pc[t] \notin {"find", "send"}
    BY DEF NSTypeOK, TypeOK, HandlerOK
  <2>2. MakesOK(t)'
    BY <1>1, <1>3, <2>1 DEF CallsInv, MakesOK
  <2>3. FreshDates'
    BY <1>1, <1>3 DEF CallsInv, FreshDates
  <2> QED BY <2>2, <2>3
<1>4. CASE \/ MemcacheGet(t) \/ Gridfile(t) \/ IsEmpty(t) \/ SynchonizeUpdate(t)
           \/ MemcacheSet(t) \/ MemcacheRemove(t) \/ MemcacheFails(t)
  BY <1>3, <1>4
  DEF MemcacheGet, Gridfile, IsEmpty, SynchonizeUpdate, MemcacheSet,
      MemcacheRemove, MemcacheFails
<1>5. CASE MongoThrows(t)
  BY <1>3, <1>5 DEF MongoThrows, Abandon, NSTypeOK, TypeOK
<1> QED BY <1>2, <1>4, <1>5 DEF Handler

\* The system call ends when its handler answers, or goes on to make the name
\* that it has looked up; its handles come and go with the answer.
LEMMA KernelCalls ==
  ASSUME NSTypeOK, CallsInv, EffectInv, NEW t \in Thread,
         Handler(t) \/ MongoThrows(t) \/ MemcacheFails(t), Kernel(t)
  PROVE  CallsInv'
<1>1. /\ pc[t] # "idle" /\ UNCHANGED <<files, call>>
      /\ \A u \in Thread : Op(u)' = Op(u) /\ PathOf(u)' = PathOf(u)
      /\ \A u \in Thread \ {t} :
           pc'[u] = pc[u] /\ wire'[u] = wire[u] /\ doc'[u] = doc[u]
  BY LocalShape
<1>2. PathOf(t) \in Path /\ mountOf[t] \in Mount /\ mountOf' = mountOf
  BY DEF NSTypeOK, TypeOK, Call, PathOf, Kernel
<1>3. /\ \A u \in Thread \ {t} : sys'[u] = sys[u]
      /\ sys'[t] \in {sys[t], "none"}
      /\ pc'[t] # "idle" => sys'[t] = sys[t]
      /\ pc'[t] = "idle" /\ sys'[t] # "none" => sys[t] \in Creators /\ Op(t) = "getattr"
  BY DEF Kernel, NSTypeOK
<1>4. /\ \A m \in Mount, q \in Path : q \in opened'[m] /\ q \notin opened[m] =>
           m = mountOf[t] /\ q = PathOf(t) /\ Op(t) = "create"
      /\ \A m \in Mount, q \in Path : q \in opened[m] /\ q \notin opened'[m] =>
           /\ m = mountOf[t] /\ q = PathOf(t) /\ Op(t) = "store"
           /\ sys'[t] = "none"
  BY <1>2 DEF Kernel, NSTypeOK
<1>5. MakesOK(t)' /\ FreshDates'
  BY LocalMakes
<1>6. ASSUME NEW u \in Thread PROVE SysOK(u)' /\ MakesOK(u)'
  <2>1. CASE u = t
    <3>1. SysOK(t)
      BY DEF CallsInv
    <3>2. SysOK(t)'
      BY <1>1, <1>3, <3>1 DEF SysOK, Creators, Removers
    <3> QED BY <1>5, <2>1, <3>2
  <2>2. CASE u # t
    BY <1>1, <1>3, <2>2 DEF CallsInv, SysOK, MakesOK
  <2> QED BY <2>1, <2>2
<1>7. LocksHeld'
  <2>1. \A u \in Thread : sys'[u] # "none" =>
          sys'[u] = sys[u] /\ Locks(sys[u], PathOf(u))' = Locks(sys[u], PathOf(u))
    BY <1>1, <1>3 DEF Locks, ParentOf
  <2> QED BY <1>2, <2>1 DEF CallsInv, LocksHeld
<1>8. HandlesHeld'
  <2>1. SysOK(t) /\ sys[t] # "none"
    BY <1>1 DEF CallsInv, SysOK
  <2>2. ASSUME NEW u \in Thread, sys'[u] = "release"
        PROVE  PathOf(u) \in opened'[mountOf[u]]
    <3>1. sys[u] = "release" /\ PathOf(u) \in opened[mountOf[u]]
      BY <1>3, <2>2 DEF CallsInv, HandlesHeld
    <3>2. CASE u = t
      BY <1>3, <1>4, <2>2, <3>1, <3>2 DEF NSTypeOK, TypeOK, Call, PathOf
    <3>3. CASE u # t
      <4>1. PathOf(u) = PathOf(t) /\ mountOf[u] = mountOf[t] => sys[t] # "release"
        BY <3>1, <3>3 DEF CallsInv, HandlesHeld
      <4>2. Op(t) = "store" => sys[t] = "release"
        BY <2>1 DEF SysOK, NSTypeOK, Creators, Removers
      <4>3. PathOf(u) \in Path /\ mountOf[u] \in Mount
        BY DEF NSTypeOK, TypeOK, Call, PathOf
      <4> QED BY <1>4, <3>1, <4>1, <4>2, <4>3
    <3> QED BY <3>2, <3>3
  <2>3. ASSUME NEW u \in Thread, sys'[u] \in Removers
        PROVE  PathOf(u) \notin opened'[mountOf[u]]
    <3>1. sys[u] \in Removers /\ PathOf(u) \notin opened[mountOf[u]]
      BY <1>3, <2>3 DEF CallsInv, HandlesHeld, Removers
    <3>2. PathOf(u) \in Path /\ mountOf[u] \in Mount
      BY DEF NSTypeOK, TypeOK, Call, PathOf
    <3>3. SUFFICES ASSUME Op(t) = "create", PathOf(u) = PathOf(t), mountOf[u] = mountOf[t]
                   PROVE  FALSE
      BY <1>4, <3>1, <3>2
    <3>4. sys[t] = "create" /\ u # t
      BY <2>1, <3>1, <3>3 DEF SysOK, NSTypeOK, Creators, Removers
    <3>5. Locks(sys[t], PathOf(t)) \cap Locks(sys[u], PathOf(u)) = {}
      BY <2>1, <3>1, <3>3, <3>4 DEF CallsInv, LocksHeld, Removers
    <3>6. Locks(sys[t], PathOf(t)) \cap Locks(sys[u], PathOf(u)) # {}
      BY <3>1, <3>3, <3>4 DEF Locks, Creators, Removers
    <3> QED BY <3>5, <3>6
  <2>4. \A x, u \in Thread : x # u /\ mountOf[x] = mountOf[u]
             /\ sys'[x] = "release" /\ sys'[u] = "release" => PathOf(x) # PathOf(u)
    BY <1>3 DEF CallsInv, HandlesHeld
  <2> QED BY <1>1, <1>2, <2>2, <2>3, <2>4 DEF HandlesHeld
<1>9. RacesNoted' /\ DatesDiffer'
  BY <1>1, RacesAreNoted DEF Kernel, CallsInv, DatesDiffer
<1> QED BY <1>5, <1>6, <1>7, <1>8, <1>9 DEF CallsInv

\* A document d once the update w has been applied to it.
Changed(d, w) == IF d.v = w.v THEN [d EXCEPT !.meta = w.meta] ELSE d

LEMMA ChangedDoc ==
  ASSUME NEW d \in Doc, NEW w
  PROVE  /\ Changed(d, w).v = d.v
         /\ Changed(d, w) = d \/ Changed(d, w).meta = w.meta
BY DEF Changed, Doc

\* The server and memcached take no part in system calls.
LEMMA ServerCalls ==
  ASSUME NSTypeOK, CallsInv, NEW t \in Thread, Server(t),
         UNCHANGED <<mountOf, opened, sys>>, NoteRaces({})
  PROVE  CallsInv'
<1>1. /\ UNCHANGED <<pc, call, doc>>
      /\ \A u \in Thread : Op(u)' = Op(u) /\ PathOf(u)' = PathOf(u)
      /\ wire[t] # None
      /\ \A u \in Thread \ {t} : wire'[u] = wire[u]
      /\ \A q \in Path \ {PathOf(t)} : files'[q] = files[q]
      /\ \/ /\ wire[t].kind # "delete" /\ wire'[t] = None
            /\ files'[PathOf(t)] = Applied(files[PathOf(t)], wire[t])
            /\ Op(t) \notin Removers
         \/ /\ wire[t].kind = "delete" /\ Op(t) \in Removers
            /\ wire'[t] # None => wire'[t].kind = "delete"
            /\ files'[PathOf(t)] \subseteq files[PathOf(t)]
  BY ServerShape
<1>2. \A u \in Thread : SysOK(u)'
  BY <1>1 DEF CallsInv, SysOK
<1>3. \A u \in Thread : MakesOK(u)'
  BY <1>1 DEF CallsInv, MakesOK
<1>4. LocksHeld'
  BY <1>1 DEF CallsInv, LocksHeld, Locks, ParentOf
<1>5. HandlesHeld'
  BY <1>1 DEF CallsInv, HandlesHeld
<1>6. RacesNoted'
  BY RacesAreNoted
<1>7. \/ files'[PathOf(t)] \subseteq files[PathOf(t)]
      \/ /\ wire[t].kind = "insert"
         /\ files'[PathOf(t)] = files[PathOf(t)] \cup {wire[t].doc}
      \/ /\ wire[t].kind = "meta"
         /\ files'[PathOf(t)] = {Changed(d, wire[t]) : d \in files[PathOf(t)]}
  <2>1. wire[t].kind \in {"insert", "meta", "delete"}
    BY <1>1 DEF CallsInv, MakesOK
  <2> QED BY <1>1, <2>1 DEF Applied, Changed
<1>10. \A d \in files'[PathOf(t)] :
         \/ \E e \in files[PathOf(t)] : d.v = e.v
         \/ wire[t].kind = "insert" /\ d = wire[t].doc
  <2>1. PathOf(t) \in Path
    BY DEF NSTypeOK, TypeOK, Call, PathOf
  <2>2. files[PathOf(t)] \subseteq Doc
    BY <2>1 DEF NSTypeOK, TypeOK
  <2> QED BY <1>7, <2>2, ChangedDoc
<1>8. FreshDates'
  <2>1. \A u \in Thread : PathOf(u) \in Path
    BY DEF NSTypeOK, TypeOK, Call, PathOf
  <2>2. ASSUME NEW u \in Thread, wire'[u] # None, wire'[u].kind = "insert"
        PROVE  u # t /\ wire[u] = wire'[u]
    BY <1>1, <2>2
  <2>3. ASSUME NEW u \in Thread, u # t, wire[u] # None, wire[u].kind = "insert",
               NEW d \in files'[PathOf(u)]
        PROVE  d.v # wire[u].doc.v
    <3>1. CASE \E e \in files[PathOf(u)] : d.v = e.v
      BY <2>3, <3>1 DEF CallsInv, FreshDates
    <3>2. CASE ~\E e \in files[PathOf(u)] : d.v = e.v
      <4>1. PathOf(u) = PathOf(t)
        BY <1>1, <2>1, <2>3, <3>2
      <4>2. wire[t].kind = "insert" /\ d = wire[t].doc
        BY <1>10, <2>3, <3>2, <4>1
      <4> QED BY <1>1, <2>3, <4>2 DEF CallsInv, FreshDates
    <3> QED BY <3>1, <3>2
  <2> QED BY <1>1, <2>2, <2>3 DEF CallsInv, FreshDates
<1>9. DatesDiffer'
  <2>1. PathOf(t) \in Path /\ files[PathOf(t)] \subseteq Doc
    BY DEF NSTypeOK, TypeOK, Call, PathOf
  <2>2. \A d, e \in files[PathOf(t)] : d.v = e.v => d = e
    BY <2>1 DEF CallsInv, DatesDiffer
  <2>3. ASSUME NEW d \in files'[PathOf(t)], NEW e \in files'[PathOf(t)], d.v = e.v
        PROVE  d = e
    <3>1. CASE files'[PathOf(t)] \subseteq files[PathOf(t)]
      BY <2>2, <2>3, <3>1
    <3>2. CASE /\ wire[t].kind = "insert"
               /\ files'[PathOf(t)] = files[PathOf(t)] \cup {wire[t].doc}
      <4>1. \A f \in files[PathOf(t)] : f.v # wire[t].doc.v
        BY <1>1, <3>2 DEF CallsInv, FreshDates
      <4> QED BY <2>2, <2>3, <3>2, <4>1
    <3>3. CASE files'[PathOf(t)] = {Changed(f, wire[t]) : f \in files[PathOf(t)]}
      BY <2>1, <2>2, <2>3, <3>3, ChangedDoc
    <3> QED BY <1>7, <3>1, <3>2, <3>3
  <2> QED BY <1>1, <2>1, <2>3 DEF CallsInv, DatesDiffer
<1> QED BY <1>2, <1>3, <1>4, <1>5, <1>6, <1>8, <1>9 DEF CallsInv

\* What the kernels forget and memcached drops is nothing to the calls.
LEMMA QuietCalls ==
  ASSUME NSTypeOK, CallsInv,
         UNCHANGED <<files, pc, call, doc, wire, mountOf, opened, sys, raced>>
  PROVE  CallsInv'
<1>1. \A u \in Thread : Op(u)' = Op(u) /\ PathOf(u)' = PathOf(u)
  BY DEF Op, PathOf
<1>2. \A u \in Thread : SysOK(u)' /\ MakesOK(u)'
  BY <1>1 DEF CallsInv, SysOK, MakesOK
<1>3. LocksHeld' /\ HandlesHeld' /\ FreshDates' /\ DatesDiffer'
  BY <1>1
  DEF CallsInv, LocksHeld, Locks, ParentOf, HandlesHeld, FreshDates, DatesDiffer
<1>4. RacesNoted'
  BY <1>1
  DEF CallsInv, RacesNoted, Racing, MakesDir, Apart, Changing, Mutating, ParentOf
<1> QED BY <1>2, <1>3, <1>4 DEF CallsInv

-----------------------------------------------------------------------------
(* What a path is *)

\* A path that has documents has a newest one.
LEMMA NewestExists ==
  ASSUME NEW n \in Nat, NEW S, S \subseteq Doc, S # {}, \A d \in S : d.v <= n
  PROVE  FindFile(S) \in S /\ FindFile(S) # None
<1> DEFINE Age == {n - d.v : d \in S}
<1>1. Age \subseteq Nat /\ Age # {}
  BY DEF Doc
<1>2. PICK m \in Age : \A k \in Age : ~(<<k, m>> \in OpToRel(<, Nat))
  BY <1>1, NatLessThanWellFounded, WFMin, Zenon
<1>3. PICK d \in S : m = n - d.v
  BY <1>2
<1>4. ASSUME NEW e \in S PROVE e.v <= d.v
  <2>1. n - e.v \in Age /\ n - e.v \in Nat /\ m \in Nat
    BY <1>1, <1>2
  <2>2. ~(n - e.v < m)
    BY <1>2, <2>1 DEF OpToRel
  <2> QED BY <1>3, <2>2 DEF Doc
<1>5. d \in Newest(S)
  BY <1>4 DEF Newest
<1>6. FindFile(S) \in Newest(S) /\ FindFile(S) # None
  BY <1>5, FoundIsNewest
<1> QED BY <1>6 DEF Newest

\* An upload with a date of its own is found from then on, or changes nothing.
LEMMA InsertFound ==
  ASSUME NEW n \in Nat, NEW S, S \subseteq Doc, \A e \in S : e.v <= n,
         NEW d \in Doc, \A e \in S : e.v # d.v
  PROVE  \/ FindFile(S \cup {d}) = d
         \/ S # {} /\ FindFile(S \cup {d}) = FindFile(S)
<1>1. CASE \A e \in S : e.v < d.v
  <2> DEFINE w == [kind |-> "insert", doc |-> d]
  <2>1. w.kind = "insert" /\ w.doc = d
    OBVIOUS
  <2> HIDE DEF w
  <2>2. Applied(S, w) = S \cup {d}
    BY <2>1 DEF Applied
  <2>3. FindFile(Applied(S, w)) = d
    BY <1>1, <2>1, InsertEffect
  <2> QED BY <2>2, <2>3
<1>2. CASE \E e \in S : ~(e.v < d.v)
  <2>1. PICK later \in S : d.v < later.v
    BY <1>2 DEF Doc
  <2>2. \A x \in Newest(S \cup {d}) : x \in Newest(S)
    BY <2>1 DEF Newest, Doc
  <2>3. \A x \in Newest(S) : x \in Newest(S \cup {d})
    BY <2>1 DEF Newest, Doc
  <2>4. Newest(S \cup {d}) = Newest(S)
    BY <2>2, <2>3
  <2> DEFINE found(N) == IF N = {} THEN None ELSE CHOOSE e \in N : TRUE
  <2>5. /\ FindFile(S) = found(Newest(S))
        /\ FindFile(S \cup {d}) = found(Newest(S \cup {d}))
    BY DEF FindFile
  <2> HIDE DEF found
  <2> QED BY <2>1, <2>4, <2>5
<1> QED BY <1>1, <1>2

\* A path is something exactly if it has documents, and then what the newest is.
LEMMA KindOfFiles ==
  ASSUME NSTypeOK, EffectInv, NEW p \in Path
  PROVE  /\ KindOf(p) \in {"none", "dir", "other"}
         /\ files[p] = {} <=> KindOf(p) = "none"
         /\ files[p] # {} => \E d \in files[p] : KindOf(p) = Kind(d)
<1>1. files[p] \subseteq Doc /\ clock \in Nat /\ \A d \in files[p] : d.v <= clock
  BY DEF NSTypeOK, TypeOK, EffectInv, Dated
<1>2. CASE files[p] = {}
  BY <1>2 DEF KindOf, Kind, FindFile, Newest
<1>3. CASE files[p] # {}
  BY <1>1, <1>3, NewestExists DEF KindOf, Kind
<1> QED BY <1>2, <1>3

\* A document that a handler inserts either is what its path is from then on,
\* or leaves that as it was.
LEMMA InsertedKind ==
  ASSUME NSTypeOK, CallsInv, EffectInv, NEW t \in Thread, Server(t),
         wire[t].kind # "delete", Op(t) # "chmod", NEW p \in Path, p = PathOf(t)
  PROVE  /\ wire[t].doc \in Doc /\ wire'[t] = None
         /\ files'[p] = files[p] \cup {wire[t].doc}
         /\ \/ KindOf(p)' = Kind(wire[t].doc)
            \/ files[p] # {} /\ KindOf(p)' = KindOf(p)
<1>2. /\ wire[t] # None /\ wire'[t] = None /\ PathOf(t)' = PathOf(t)
      /\ files'[p] = Applied(files[p], wire[t]) /\ Op(t) \notin Removers
  BY ServerShape
<1>3. wire[t].kind = "insert" /\ wire[t].doc \in Doc
  <2>1. wire[t].kind = "insert"
    BY <1>2 DEF CallsInv, MakesOK
  <2> QED BY <1>2, <2>1 DEF NSTypeOK, TypeOK, Write
<1>4. files'[p] = files[p] \cup {wire[t].doc}
  BY <1>2, <1>3 DEF Applied
<1>5. /\ files[p] \subseteq Doc /\ clock \in Nat
      /\ \A e \in files[p] : e.v <= clock /\ e.v # wire[t].doc.v
  <2>1. files[p] \subseteq Doc /\ clock \in Nat
    BY DEF NSTypeOK, TypeOK
  <2>2. \A e \in files[p] : e.v <= clock
    BY DEF EffectInv, Dated
  <2>3. \A e \in files[p] : e.v # wire[t].doc.v
    BY <1>2, <1>3 DEF CallsInv, FreshDates
  <2> QED BY <2>1, <2>2, <2>3
<1>6. \/ FindFile(files'[p]) = wire[t].doc
      \/ files[p] # {} /\ FindFile(files'[p]) = FindFile(files[p])
  BY <1>3, <1>4, <1>5, InsertFound
<1>7. KindOf(p)' = Kind(FindFile(files'[p]))
  BY DEF KindOf, Kind
<1> QED BY <1>2, <1>3, <1>4, <1>6, <1>7 DEF KindOf

\* A mode that the server sets makes of a document, and of its path, what chmod
\* has sent, or leaves it what it was.
LEMMA RetypedKind ==
  ASSUME NSTypeOK, CallsInv, EffectInv, NEW t \in Thread, Server(t),
         Op(t) = "chmod", NEW p \in Path, p = PathOf(t)
  PROVE  /\ files[p] = {} => files'[p] = {}
         /\ \A d \in files'[p] : Kind(d) = SentKind(t) \/ \E e \in files[p] : Kind(d) = Kind(e)
         /\ KindOf(p)' \in {KindOf(p), SentKind(t)}
         /\ KindOf(p) = "none" => KindOf(p)' = "none"
<1> DEFINE S == files[p]
           T == files'[p]
           w == wire[t]
<1>1. /\ w # None /\ T = Applied(S, w) /\ Op(t) \notin Removers
  BY ServerShape DEF Removers
<1>2. w.kind = "meta" /\ w.meta.mode = call[t].arg
  BY <1>1 DEF CallsInv, MakesOK
<1>3. T = {Changed(d, w) : d \in S}
  BY <1>1, <1>2 DEF Applied, Changed
<1>4. S \subseteq Doc /\ clock \in Nat /\ \A d \in S : d.v <= clock
  BY DEF NSTypeOK, TypeOK, EffectInv, Dated
<1>5. \A d, e \in S : d.v = e.v => d = e
  BY DEF CallsInv, DatesDiffer
<1>6. w.meta \in Meta
  BY <1>1, <1>2 DEF NSTypeOK, TypeOK, Write
<1>7. \A d \in S : Changed(d, w) \in Doc
  BY <1>4, <1>6 DEF Changed, Doc
<1>8. \A d \in S : Kind(Changed(d, w)) \in {Kind(d), SentKind(t)}
  <2> SUFFICES ASSUME NEW d \in S PROVE Kind(Changed(d, w)) \in {Kind(d), SentKind(t)}
    OBVIOUS
  <2>1. Changed(d, w) # None
    BY <1>7, ConstantsAssumption
  <2>2. Changed(d, w) = d \/ Changed(d, w).meta = w.meta
    BY <1>4, ChangedDoc
  <2> QED BY <1>2, <2>1, <2>2 DEF Kind, SentKind
<1>9. KindOf(p) = Kind(FindFile(S)) /\ KindOf(p)' = Kind(FindFile(T))
  BY DEF KindOf, Kind
<1> HIDE DEF S, T, w
<1>10. CASE S = {}
  <2>1. T = {}
    BY <1>3, <1>10
  <2> QED BY <1>9, <1>10, <2>1 DEF S, T
<1>11. CASE S # {}
  <2>1. T # {} /\ T \subseteq Doc /\ \A d \in T : d.v <= clock
    <3>1. \A d \in S : Changed(d, w).v = d.v
      BY <1>4, ChangedDoc
    <3> QED BY <1>3, <1>4, <1>7, <1>11, <3>1
  <2>2. /\ FindFile(S) \in S /\ FindFile(S) \in Newest(S) /\ FindFile(S) # None
        /\ FindFile(T) \in T /\ FindFile(T) \in Newest(T)
    BY <1>4, <1>11, <2>1, NewestExists, FoundIsNewest
  <2>3. PICK e \in S : FindFile(T) = Changed(e, w)
    BY <1>3, <2>2
  <2>4. e = FindFile(S)
    <3>1. e.v <= FindFile(S).v /\ e.v \in Nat /\ FindFile(S).v \in Nat
      BY <1>4, <2>2 DEF Newest, Doc
    <3>2. /\ Changed(e, w).v = e.v /\ Changed(FindFile(S), w).v = FindFile(S).v
          /\ Changed(FindFile(S), w) \in T
      BY <1>3, <1>4, <2>2, ChangedDoc
    <3>3. FindFile(S).v <= e.v
      BY <2>2, <2>3, <3>2 DEF Newest
    <3> QED BY <1>5, <2>2, <3>1, <3>3
  <2>5. Kind(FindFile(S)) # "none"
    BY <2>2 DEF Kind
  <2>6. \A d \in T : Kind(d) = SentKind(t) \/ \E f \in S : Kind(d) = Kind(f)
    BY <1>3, <1>8
  <2> QED BY <1>8, <1>9, <1>11, <2>2, <2>3, <2>4, <2>5, <2>6 DEF S, T
<1> QED BY <1>10, <1>11

-----------------------------------------------------------------------------
(* Steps that change no document *)

\* Who grows, threatens, retypes or makes a path is changing it, and who threatens
\* it does not make it a directory.
LEMMA WorkIsChange ==
  ASSUME NSTypeOK, NEW t \in Thread, NEW p \in Path,
         Growth(t, p) \/ Threat(t, p) \/ Retyping(t, p) \/ Making(t, p)
  PROVE  /\ PathOf(t) = p /\ Changing(t, p)
         /\ Threat(t, p) => Mutating(t, p) /\ ~MakesDir(t)
BY DEF Growth, Threat, Retyping, Making, Changing, Mutating, Mutators, MakesDir

\* Two that change a path, or one that does while the other one threatens its
\* parent, and that nothing keeps apart in time, race.
LEMMA ApartIsRace ==
  ASSUME NSTypeOK, CallsInv, NEW t \in Thread, NEW u \in Thread, t # u,
         Apart(t, u), NEW p \in Path, Changing(t, p),
         \/ Changing(u, p)
         \/ \E q \in ParentOf(p) : Mutating(u, q) /\ ~MakesDir(u)
  PROVE  p \in raced
BY DEF CallsInv, RacesNoted, Racing

\* Two that do not, work for one mount, one system call each.
LEMMA TogetherIsLocked ==
  ASSUME NSTypeOK, CallsInv, NEW t \in Thread, NEW u \in Thread, t # u,
         ~Apart(t, u)
  PROVE  /\ mountOf[t] = mountOf[u] /\ pc[t] # "idle" /\ pc[u] # "idle"
         /\ sys[t] # "none" /\ sys[u] # "none"
         /\ Locks(sys[t], PathOf(t)) \cap Locks(sys[u], PathOf(u)) = {}
         /\ \A x \in {t, u} :
              /\ Op(x) \in {"create", "mkdir", "chmod"} \cup Removers => sys[x] = Op(x)
              /\ Op(x) = "store" => sys[x] = "release"
<1>1. mountOf[t] = mountOf[u] /\ pc[t] # "idle" /\ pc[u] # "idle"
  BY DEF Apart
<1>2. sys[t] # "none" /\ sys[u] # "none" /\ SysOK(t) /\ SysOK(u)
  BY <1>1 DEF CallsInv, SysOK
<1>3. Locks(sys[t], PathOf(t)) \cap Locks(sys[u], PathOf(u)) = {}
  BY <1>1, <1>2 DEF CallsInv, LocksHeld
<1>4. ASSUME NEW x \in Thread, SysOK(x), sys[x] # "none"
      PROVE  /\ Op(x) \in {"create", "mkdir", "chmod"} \cup Removers => sys[x] = Op(x)
             /\ Op(x) = "store" => sys[x] = "release"
  BY <1>4 DEF SysOK, NSTypeOK, Creators, Removers
<1> QED BY <1>1, <1>2, <1>3, <1>4

\* No path is below itself.
LEMMA ParentIsOther ==
  ASSUME NEW p \in Path, NEW q \in ParentOf(p)
  PROVE  q \in Path /\ q # p /\ p \in Children[q]
BY NSAssumption DEF ParentOf

\* A step that changes no document keeps the tree if what it starts is as the
\* invariant wants it.
LEMMA QuietTree ==
  ASSUME NSTypeOK, TreeInv, UNCHANGED files, raced \subseteq raced',
         \A u \in Thread, p \in Path \ raced' : Growth(u, p)' =>
           \/ Growth(u, p)
           \/ \A q \in ParentOf(p) :
                KindOf(q) = "dir" /\ \A x \in Thread : ~Threat(x, q)',
         \A u \in Thread, q \in Path : Threat(u, q)' =>
           \/ Threat(u, q)
           \/ \A p \in Children[q] \ raced' :
                files[p] = {} /\ \A x \in Thread : ~Growth(x, p)',
         \A u \in Thread, p \in Path \ raced' : Growth(u, p)' /\ Op(u)' = "store" =>
           /\ KindOf(p) = "other"
           /\ pc'[u] # "find" => Kind(doc'[u]) = "other",
         \A u \in Thread, p \in Path \ raced' : Retyping(u, p)' =>
           \/ Retyping(u, p) /\ SentKind(u)' = SentKind(u)
           \/ KindOf(p) = SentKind(u)',
         \A u \in Thread, p \in Path \ raced' : Making(u, p)' =>
           Making(u, p) \/ files[p] = {}
  PROVE  TreeInv'
<1>1. /\ \A p : KindOf(p)' = KindOf(p) /\ ParentOf(p)' = ParentOf(p)
      /\ \A d : Kind(d)' = Kind(d)
  BY DEF KindOf, ParentOf, Kind
<1>2. GrowthHasParent'
  BY <1>1 DEF TreeInv, GrowthHasParent
<1>3. ThreatIsEmpty'
  <2> SUFFICES ASSUME NEW x \in Thread, NEW u \in Thread, NEW q \in Path,
                      Threat(u, q)', NEW p \in Children[q] \ raced'
               PROVE  files[p] = {} /\ ~Growth(x, p)'
    BY DEF ThreatIsEmpty
  <2>1. p \in Path /\ q \in ParentOf(p)
    BY ConstantsAssumption DEF ParentOf
  <2>2. CASE Threat(u, q)
    BY <2>1, <2>2 DEF TreeInv, ThreatIsEmpty
  <2>3. CASE ~Threat(u, q)
    BY <2>3
  <2> QED BY <2>2, <2>3
<1>4. StoreHasFile' /\ SendsItsKind'
  BY <1>1 DEF StoreHasFile, Kind, TreeInv, SendsItsKind
<1>5. MakingIsNew'
  BY DEF TreeInv, MakingIsNew
<1>6. OneKind' /\ HasParent'
  BY <1>1 DEF TreeInv, OneKind, HasParent
<1> QED BY <1>2, <1>3, <1>4, <1>5, <1>6 DEF TreeInv

\* What the other slots do is not touched by a request that begins.
LEMMA BeginTree ==
  ASSUME NSTypeOK, NEW t \in Thread, NEW p \in Path, NEW op, NEW a, NEW first,
         Begin(t, op, p, a, first), \A u \in Thread \ {t} : sys'[u] = sys[u]
  PROVE  /\ UNCHANGED <<files, doc>>
         /\ \A q : ~Growth(t, q) /\ ~Threat(t, q)
         /\ \A u \in Thread \ {t}, q \in Path :
              (Retyping(u, q)' <=> Retyping(u, q)) /\ SentKind(u)' = SentKind(u)
         /\ \A q \in Path : Retyping(t, q)' => q = p /\ op = "chmod"
         /\ call'[t].arg = a
         /\ \A u \in Thread \ {t}, q \in Path :
              /\ (Growth(u, q)' <=> Growth(u, q))
              /\ (Threat(u, q)' <=> Threat(u, q))
              /\ (Making(u, q)' <=> Making(u, q))
              /\ Op(u)' = Op(u) /\ pc'[u] = pc[u]
         /\ \A q \in Path :
              /\ Growth(t, q)' => q = p /\ op \in {"create", "mkdir", "store"}
              /\ Threat(t, q)' =>
                   /\ q = p
                   /\ \/ op = "unlink"
                      \/ first # "find" /\ op \in {"rmdir", "create", "store"}
                      \/ op = "chmod" /\ a \notin DirMode
              /\ Making(t, q)' => q = p /\ (op \in Creators \/ first = "idle")
         /\ Op(t)' = op /\ pc'[t] = first
<1>1. /\ pc[t] = "idle" /\ wire[t] = None
      /\ pc'[t] = first /\ Op(t)' = op /\ PathOf(t)' = p /\ call'[t].arg = a
      /\ UNCHANGED <<files, wire, doc>>
      /\ \A u \in Thread \ {t} :
           /\ pc'[u] = pc[u] /\ call'[u] = call[u]
           /\ Op(u)' = Op(u) /\ PathOf(u)' = PathOf(u)
  BY BeginShape
<1>2. \A d : Kind(d)' = Kind(d)
  BY DEF Kind
<1>3. \A q : ~Growth(t, q) /\ ~Threat(t, q)
  BY <1>1 DEF Growth, Threat, Mutating
<1>4. ASSUME NEW u \in Thread \ {t}, NEW q \in Path
      PROVE  /\ (Growth(u, q)' <=> Growth(u, q))
             /\ (Threat(u, q)' <=> Threat(u, q))
             /\ (Making(u, q)' <=> Making(u, q))
             /\ (Retyping(u, q)' <=> Retyping(u, q)) /\ SentKind(u)' = SentKind(u)
  <2>1. Mutating(u, q)' <=> Mutating(u, q)
    BY <1>1 DEF Mutating
  <2> QED BY <1>1, <1>2, <2>1 DEF Growth, Threat, Making, Retyping, SentKind
<1>5. ASSUME NEW q \in Path
      PROVE  /\ Growth(t, q)' => q = p /\ op \in {"create", "mkdir", "store"}
             /\ Threat(t, q)' =>
                  /\ q = p
                  /\ \/ op = "unlink"
                     \/ first # "find" /\ op \in {"rmdir", "create", "store"}
                     \/ op = "chmod" /\ a \notin DirMode
             /\ Making(t, q)' => q = p /\ (op \in Creators \/ first = "idle")
             /\ Retyping(t, q)' => q = p /\ op = "chmod"
  BY <1>1 DEF Growth, Threat, Making, Retyping, Mutating
<1> QED BY <1>1, <1>3, <1>4, <1>5

\* The lookup of a path does nothing to the tree.
LEMMA LookupTree ==
  ASSUME NSTypeOK, TreeInv, NEW t \in Thread, NEW p \in Path, Getattr(t, p),
         \A u \in Thread \ {t} : sys'[u] = sys[u], raced \subseteq raced'
  PROVE  TreeInv'
<1>1. Begin(t, "getattr", p, None, "get")
  BY DEF Getattr
<1>2. /\ \A q \in Path :
           ~Growth(t, q)' /\ ~Threat(t, q)' /\ ~Making(t, q)' /\ ~Retyping(t, q)'
      /\ UNCHANGED <<files, doc>>
  BY <1>1, BeginTree DEF Creators
<1>3. \A u \in Thread, q \in Path :
        /\ Growth(u, q)' => Growth(u, q) /\ Op(u)' = Op(u) /\ pc'[u] = pc[u]
        /\ Threat(u, q)' => Threat(u, q)
        /\ Making(u, q)' => Making(u, q)
        /\ Retyping(u, q)' => Retyping(u, q) /\ SentKind(u)' = SentKind(u)
  BY <1>1, <1>2, BeginTree
<1>4. \A u \in Thread, q \in Path \ raced' : Growth(u, q)' /\ Op(u)' = "store" =>
        KindOf(q) = "other" /\ (pc'[u] # "find" => Kind(doc'[u]) = "other")
  BY <1>2, <1>3 DEF TreeInv, StoreHasFile
<1> QED BY <1>2, <1>3, <1>4, QuietTree

\* A creating handler begins where the lookup found nothing, in a directory.
\* (Whatever threatens that directory by now has raced with the system call.)
LEMMA CreateFreeTree ==
  ASSUME NSTypeOK, CallsInv, TreeInv, NEW t \in Thread, SysCreateFree(t)
  PROVE  TreeInv'
<1>1. PICK p \in Path : p = PathOf(t)
  BY DEF NSTypeOK, TypeOK, Call, PathOf
<1>2. PICK op \in {"create", "mkdir"} : sys[t] = op
  BY DEF SysCreateFree
<1>3. PICK a, first : /\ Begin(t, op, p, a, first) /\ first \in {"find", "send"}
                      /\ op = "create" => first = "find"
  BY <1>1, <1>2 DEF SysCreateFree, Create, Mkdir
<1>4. /\ Op(t) = "getattr" /\ raced \subseteq raced'
      /\ p \notin raced' => \A q \in ParentOf(p) : KindOf(q) = "dir"
      /\ \A u \in Thread : sys'[u] = sys[u]
  BY <1>1, <1>2, RacesAreNoted DEF SysCreateFree
<1>5. /\ UNCHANGED <<files, doc>> /\ pc[t] = "idle"
      /\ \A u \in Thread \ {t}, q \in Path :
           /\ (Growth(u, q)' <=> Growth(u, q))
           /\ (Threat(u, q)' <=> Threat(u, q))
           /\ (Making(u, q)' <=> Making(u, q))
           /\ Op(u)' = Op(u) /\ pc'[u] = pc[u]
      /\ \A q \in Path :
           /\ Growth(t, q)' => q = p
           /\ ~Threat(t, q)'
           /\ Making(t, q)' => q = p
      /\ Op(t)' = op
  <2>1. Begin(t, op, p, a, first)
    BY <1>3
  <2>2. /\ pc[t] = "idle" /\ Op(t)' = op
        /\ \A q \in Path :
             /\ Growth(t, q)' => q = p
             /\ ~Threat(t, q)'
             /\ Making(t, q)' => q = p
    BY <1>3, <1>4, <2>1, BeginShape, BeginTree
  <2> QED BY <1>4, <2>1, <2>2, BeginTree
<1>6. Making(t, p) /\ Changing(t, p)
  BY <1>1, <1>2, <1>4, <1>5 DEF Making, Changing, Creators
<1>12. \A u \in Thread, q \in Path :
         Retyping(u, q)' => Retyping(u, q) /\ SentKind(u)' = SentKind(u)
  BY <1>3, <1>4, BeginTree
<1>7. ASSUME NEW x \in Thread, NEW q \in ParentOf(p), Threat(x, q)'
      PROVE  p \in raced
  <2>1. q \in Path /\ x # t /\ Threat(x, q)
    BY <1>5, <1>7, ParentIsOther
  <2>2. Mutating(x, q) /\ ~MakesDir(x)
    BY <2>1, WorkIsChange
  <2>3. Apart(t, x)
    BY <1>5 DEF Apart
  <2> QED BY <1>1, <1>6, <2>1, <2>2, <2>3, ApartIsRace
<1>8. \A u \in Thread, c \in Path \ raced' : Growth(u, c)' =>
        \/ Growth(u, c)
        \/ \A q \in ParentOf(c) :
             KindOf(q) = "dir" /\ \A x \in Thread : ~Threat(x, q)'
  BY <1>4, <1>5, <1>7
<1>9. \A u \in Thread, q \in Path : Threat(u, q)' => Threat(u, q)
  BY <1>5
<1>10. \A u \in Thread, c \in Path \ raced' : Growth(u, c)' /\ Op(u)' = "store" =>
         KindOf(c) = "other" /\ (pc'[u] # "find" => Kind(doc'[u]) = "other")
  <2> SUFFICES ASSUME NEW u \in Thread, NEW c \in Path \ raced',
                      Growth(u, c)', Op(u)' = "store"
               PROVE  /\ KindOf(c) = "other"
                      /\ pc'[u] # "find" => Kind(doc'[u]) = "other"
    OBVIOUS
  <2>1. u # t
    BY <1>5
  <2> QED BY <1>4, <1>5, <2>1 DEF TreeInv, StoreHasFile
<1>11. \A u \in Thread, c \in Path \ raced' : Making(u, c)' => Making(u, c)
  BY <1>5, <1>6
<1> QED BY <1>4, <1>5, <1>8, <1>9, <1>10, <1>11, <1>12, QuietTree

\* rmdir() begins by looking the directory up; unlink() begins with a file,
\* unless the kernel is wrong about it.
LEMMA RemoveTree ==
  ASSUME NSTypeOK, EffectInv, TreeInv, NEW t \in Thread, NEW p \in Path,
         NEW op \in Removers, SysRemove(t, p, op)
  PROVE  TreeInv'
<1>1. Begin(t, op, p, None, "find")
  BY DEF SysRemove, Unlink, Rmdir, Removers
<1>2. /\ raced \subseteq raced'
      /\ \A u \in Thread \ {t} : sys'[u] = sys[u]
      /\ op = "unlink" /\ KindOf(p) = "dir" => Children[p] \subseteq raced'
  <2>1. dentry[mountOf[t]][p] = IF op = "rmdir" THEN "dir" ELSE "other"
    BY DEF SysRemove
  <2>2. \A u \in Thread \ {t} : sys'[u] = sys[u]
    BY DEF SysRemove, Enter, NSTypeOK
  <2>3. NoteRaces(IF (KindOf(p) = "dir") # (op = "rmdir") THEN {p} \cup Children[p]
                  ELSE {})
    BY DEF SysRemove
  <2> QED BY <2>1, <2>2, <2>3, RacesAreNoted
<1>3. /\ UNCHANGED <<files, doc>>
      /\ \A u \in Thread, q \in Path :
           /\ Growth(u, q)' => Growth(u, q) /\ Op(u)' = Op(u) /\ pc'[u] = pc[u]
           /\ Threat(u, q)' => Threat(u, q) \/ (q = p /\ op = "unlink")
           /\ Making(u, q)' => Making(u, q)
           /\ Retyping(u, q)' => Retyping(u, q) /\ SentKind(u)' = SentKind(u)
  <2>1. \A q \in Path : /\ ~Growth(t, q)' /\ ~Making(t, q)' /\ ~Retyping(t, q)'
                        /\ Threat(t, q)' => q = p /\ op = "unlink"
    BY <1>1, <1>2, BeginTree DEF Removers, Creators
  <2> QED BY <1>1, <1>2, <2>1, BeginTree
<1>4. ASSUME op = "unlink", NEW c \in Children[p] \ raced'
      PROVE  files[c] = {} /\ \A x \in Thread : ~Growth(x, c)'
  <2>1. KindOf(p) # "dir" /\ c \in Path \ raced /\ p \in ParentOf(c)
    BY <1>2, <1>4, ConstantsAssumption DEF ParentOf
  <2> QED BY <1>3, <2>1 DEF TreeInv, HasParent, GrowthHasParent
<1>5. \A u \in Thread, q \in Path \ raced' : Growth(u, q)' /\ Op(u)' = "store" =>
        KindOf(q) = "other" /\ (pc'[u] # "find" => Kind(doc'[u]) = "other")
  BY <1>2, <1>3 DEF TreeInv, StoreHasFile
<1> QED BY <1>2, <1>3, <1>4, <1>5, QuietTree

\* A store begins with the file that the handle was opened for.
LEMMA ReleaseTree ==
  ASSUME NSTypeOK, EffectInv, TreeInv, NEW t \in Thread, NEW p \in Path,
         SysRelease(t, p)
  PROVE  TreeInv'
<1>1. PICK n \in Size : Begin(t, "store", p, n, "find")
  BY DEF SysRelease, ReleaseDirty
<1>2. /\ raced \subseteq raced'
      /\ \A u \in Thread \ {t} : sys'[u] = sys[u]
      /\ p \notin raced' => KindOf(p) = "other"
  BY RacesAreNoted DEF SysRelease, NSTypeOK
<1>3. /\ UNCHANGED <<files, doc>> /\ pc'[t] = "find"
      /\ \A u \in Thread, q \in Path :
           /\ u # t /\ Growth(u, q)' => Growth(u, q) /\ Op(u)' = Op(u) /\ pc'[u] = pc[u]
           /\ Growth(t, q)' => q = p
           /\ Threat(u, q)' => Threat(u, q)
           /\ Making(u, q)' => Making(u, q)
           /\ Retyping(u, q)' => Retyping(u, q) /\ SentKind(u)' = SentKind(u)
  <2>1. \A q \in Path : /\ Growth(t, q)' => q = p
                        /\ ~Making(t, q)' /\ ~Threat(t, q)' /\ ~Retyping(t, q)'
    BY <1>1, <1>2, BeginTree DEF Creators
  <2> QED BY <1>1, <1>2, <2>1, BeginTree
<1>4. ASSUME p \notin raced', NEW q \in ParentOf(p)
      PROVE  KindOf(q) = "dir" /\ \A x \in Thread : ~Threat(x, q)'
  <2>1. files[p] # {} /\ p \notin raced
    BY <1>2, <1>4, KindOfFiles
  <2>2. q \in Path /\ p \in Children[q]
    BY ParentIsOther
  <2> QED BY <1>3, <1>4, <2>1, <2>2 DEF TreeInv, HasParent, ThreatIsEmpty
<1>5. \A u \in Thread, c \in Path \ raced' : Growth(u, c)' =>
        \/ Growth(u, c)
        \/ \A q \in ParentOf(c) :
             KindOf(q) = "dir" /\ \A x \in Thread : ~Threat(x, q)'
  BY <1>3, <1>4
<1>6. \A u \in Thread, q \in Path \ raced' : Growth(u, q)' /\ Op(u)' = "store" =>
        KindOf(q) = "other" /\ (pc'[u] # "find" => Kind(doc'[u]) = "other")
  <2> SUFFICES ASSUME NEW u \in Thread, NEW q \in Path \ raced',
                      Growth(u, q)', Op(u)' = "store"
               PROVE  /\ KindOf(q) = "other"
                      /\ pc'[u] # "find" => Kind(doc'[u]) = "other"
    OBVIOUS
  <2>1. CASE u = t
    BY <1>2, <1>3, <2>1
  <2>2. CASE u # t
    BY <1>2, <1>3, <2>2 DEF TreeInv, StoreHasFile
  <2> QED BY <2>1, <2>2
<1> QED BY <1>2, <1>3, <1>5, <1>6, QuietTree

\* chmod() begins with the type that the path has, unless the kernel is wrong
\* about it: and nothing is below what has another one than a directory's.
LEMMA ChmodTree ==
  ASSUME NSTypeOK, TreeInv, NEW t \in Thread, NEW p \in Path, SysChmod(t, p)
  PROVE  TreeInv'
<1> DEFINE known == dentry[mountOf[t]][p]
<1>1. PICK m \in Mode : Begin(t, "chmod", p, m, "find")
  BY DEF SysChmod, Chmod
<1>2. call'[t].arg = m /\ (m \in DirMode <=> known = "dir")
  BY <1>1, BeginShape DEF SysChmod
<1>3. known \in {"dir", "other"}
  BY DEF SysChmod, NSTypeOK
<1>4. SentKind(t)' = known
  BY <1>2, <1>3 DEF SentKind
<1>5. /\ \A u \in Thread \ {t} : sys'[u] = sys[u]
      /\ NoteRaces(IF KindOf(p) # known THEN {p} \cup Children[p] ELSE {})
  BY DEF SysChmod, Enter, NSTypeOK
<1> HIDE DEF known
<1>6. /\ raced \subseteq raced'
      /\ KindOf(p) # known => {p} \cup Children[p] \subseteq raced'
  BY <1>5, RacesAreNoted
<1>7. /\ UNCHANGED <<files, doc>>
      /\ \A u \in Thread, q \in Path :
           /\ Growth(u, q)' => Growth(u, q) /\ Op(u)' = Op(u) /\ pc'[u] = pc[u]
           /\ Threat(u, q)' => Threat(u, q) \/ (q = p /\ known # "dir")
           /\ Making(u, q)' => Making(u, q)
           /\ Retyping(u, q)' =>
                \/ Retyping(u, q) /\ SentKind(u)' = SentKind(u)
                \/ u = t /\ q = p
  <2>1. \A q \in Path : /\ ~Growth(t, q)' /\ ~Making(t, q)'
                        /\ Retyping(t, q)' => q = p
                        /\ Threat(t, q)' => q = p /\ m \notin DirMode
    BY <1>1, <1>5, BeginTree DEF Creators
  <2> QED BY <1>1, <1>2, <1>5, <2>1, BeginTree
<1>8. ASSUME known # "dir", NEW c \in Children[p] \ raced'
      PROVE  files[c] = {} /\ \A x \in Thread : ~Growth(x, c)'
  <2>1. KindOf(p) # "dir" /\ c \in Path \ raced /\ p \in ParentOf(c)
    BY <1>6, <1>8, ConstantsAssumption DEF ParentOf
  <2> QED BY <1>7, <2>1 DEF TreeInv, HasParent, GrowthHasParent
<1>9. \A u \in Thread, q \in Path \ raced' : Growth(u, q)' /\ Op(u)' = "store" =>
        KindOf(q) = "other" /\ (pc'[u] # "find" => Kind(doc'[u]) = "other")
  BY <1>6, <1>7 DEF TreeInv, StoreHasFile
<1>10. \A u \in Thread, q \in Path \ raced' : Retyping(u, q)' =>
         \/ Retyping(u, q) /\ SentKind(u)' = SentKind(u)
         \/ KindOf(q) = SentKind(u)'
  BY <1>4, <1>6, <1>7
<1> QED BY <1>6, <1>7, <1>8, <1>9, <1>10, QuietTree

\* Every system call keeps the tree as it begins.
LEMMA SystemTree ==
  ASSUME NSTypeOK, CallsInv, EffectInv, TreeInv, NEW t \in Thread, System(t)
  PROVE  TreeInv'
<1>1. ASSUME NEW p \in Path, SysStat(t, p) PROVE TreeInv'
  BY <1>1, LookupTree, RacesAreNoted DEF SysStat, Enter, NSTypeOK
<1>2. ASSUME NEW p \in Path, NEW op \in {"create", "mkdir"}, SysCreate(t, p, op)
      PROVE  TreeInv'
  BY <1>2, LookupTree, RacesAreNoted DEF SysCreate, Enter, NSTypeOK
<1> QED
  BY <1>1, <1>2, CreateFreeTree, RemoveTree, ReleaseTree, ChmodTree DEF System

\* What a handler at work threatens after a step it threatened before, or it has
\* just seen that it is no directory, or that nothing is below it.
LEMMA LocalThreat ==
  ASSUME NSTypeOK, NEW t \in Thread,
         Handler(t) \/ MongoThrows(t) \/ MemcacheFails(t),
         NEW q \in Path, Threat(t, q)'
  PROVE  \/ Threat(t, q)
         \/ KindOf(q) # "dir"
         \/ /\ pc[t] = "list" /\ PathOf(t) = q
            /\ \A p \in Children[q] : files[p] = {}
<1>1. /\ pc[t] # "idle" /\ Op(t)' = Op(t) /\ PathOf(t)' = PathOf(t)
      /\ PathOf(t) = q /\ Op(t) \in Mutators /\ Mutating(t, q) /\ call' = call
  BY LocalShape DEF Threat, Mutating
<1>2. \/ Gridfile(t) /\ wire'[t] = wire[t]
      \/ /\ pc[t] = "list" /\ pc'[t] = "send" /\ doc'[t] = doc[t]
         /\ wire'[t] = wire[t]
         /\ \A p \in Children[PathOf(t)] : files[p] = {}
      \/ pc[t] = "send" /\ pc'[t] = "sync" /\ doc'[t] = doc[t]
      \/ /\ pc'[t] \in {"idle", "find", "remove"} /\ doc'[t] = doc[t]
         /\ pc'[t] = "find" => Op(t) = "getattr"
         /\ pc[t] \in {"find", "list"} => pc'[t] = "idle"
         /\ wire'[t] \in {wire[t], None}
         /\ pc'[t] = "idle" => reply'[t] # "ENOENT"
  BY LocalShape
<1>3. CASE Gridfile(t) /\ wire'[t] = wire[t]
  <2> DEFINE d == FindFile(files[q])
  <2>1. /\ pc[t] = "find" /\ Found(t, d) /\ doc'[t] = d
        /\ wire'[t] = None
    BY <1>1, <1>3 DEF Gridfile, NSTypeOK, TypeOK, HandlerOK
  <2>2. KindOf(q) = Kind(d)
    BY DEF KindOf
  <2> HIDE DEF d
  <2>3. /\ Op(t) \in {"create", "symlink"} /\ d # None => pc'[t] = "idle"
        /\ Op(t) = "rmdir" => pc'[t] \in {"idle", "list"}
    BY <2>1 DEF Found, Goto, Return, NSTypeOK, TypeOK
  <2>4. pc'[t] # "idle"
    BY <2>1 DEF Threat, Mutating
  <2>5. Op(t) \in {"unlink", "chmod"} => Threat(t, q)
    BY <1>1 DEF Threat
  <2>6. Op(t) = "create" => KindOf(q) # "dir"
    BY <2>2, <2>3, <2>4 DEF Kind
  <2>7. Op(t) = "store" => Kind(doc'[t]) # "dir"
    BY <1>1 DEF Threat, Kind
  <2> QED BY <1>1, <2>1, <2>2, <2>3, <2>4, <2>5, <2>6, <2>7 DEF Threat
<1>4. CASE pc[t] = "list" /\ \A p \in Children[PathOf(t)] : files[p] = {}
  BY <1>1, <1>4
<1>5. CASE pc[t] = "send" /\ pc'[t] = "sync" /\ doc'[t] = doc[t]
  BY <1>1, <1>5 DEF Threat, Kind
<1>6. CASE /\ pc'[t] \in {"idle", "find", "remove"} /\ doc'[t] = doc[t]
           /\ pc'[t] = "find" => Op(t) = "getattr"
           /\ pc[t] \in {"find", "list"} => pc'[t] = "idle"
           /\ wire'[t] \in {wire[t], None}
  <2>1. pc[t] \in {"find", "list"} => wire[t] = None
    BY DEF NSTypeOK, TypeOK, HandlerOK
  <2>2. pc[t] \notin {"find", "list"}
    BY <1>6, <2>1 DEF Threat, Mutating
  <2> QED BY <1>1, <1>6, <2>2 DEF Threat, Kind
<1> QED BY <1>2, <1>3, <1>4, <1>5, <1>6

\* What is being made is being made already, or has just been looked up.
LEMMA LocalMaking ==
  ASSUME NSTypeOK, NEW t \in Thread,
         Handler(t) \/ MongoThrows(t) \/ MemcacheFails(t), Kernel(t),
         NEW p \in Path, Making(t, p)'
  PROVE  Making(t, p) \/ KindOf(p) = "none"
<1>1. /\ pc[t] # "idle" /\ Op(t)' = Op(t) /\ PathOf(t)' = PathOf(t)
      /\ PathOf(t) = p
  BY LocalShape DEF Making
<1>2. /\ sys'[t] \in {sys[t], "none"}
      /\ pc'[t] = "idle" /\ sys'[t] # "none" => reply'[t] = "ENOENT"
  BY DEF Kernel, NSTypeOK
<1>3. \/ Gridfile(t) /\ wire'[t] = wire[t]
      \/ pc[t] = "list"
      \/ pc[t] = "send" /\ pc'[t] = "sync"
      \/ /\ pc'[t] \in {"idle", "find", "remove"}
         /\ pc'[t] = "find" => Op(t) = "getattr"
         /\ wire'[t] \in {wire[t], None}
         /\ pc'[t] = "idle" => reply'[t] # "ENOENT"
  BY LocalShape
<1>4. CASE sys'[t] \in Creators /\ Op(t) = "getattr" /\ pc'[t] = "idle"
  <2>1. reply'[t] = "ENOENT"
    BY <1>2, <1>4 DEF Creators
  <2>2. Gridfile(t)
    BY <1>3, <1>4, <2>1 DEF NSTypeOK, TypeOK, HandlerOK, Mutators, Creators,
                            Invalidators, Removers
  <2> DEFINE d == FindFile(files[p])
  <2>3. Found(t, d) /\ KindOf(p) = Kind(d)
    BY <1>1, <2>2 DEF Gridfile, KindOf
  <2> HIDE DEF d
  <2>4. d = None
    BY <1>4, <2>3 DEF Found, Goto, NSTypeOK, TypeOK
  <2> QED BY <2>3, <2>4 DEF Kind
<1>5. CASE Op(t) \in Creators /\ (pc'[t] \in {"find", "send"} \/ wire'[t] # None)
  <2>1. pc[t] \in {"find", "send"} \/ wire[t] # None
    BY <1>3, <1>5
    DEF Gridfile, NSTypeOK, TypeOK, HandlerOK, Creators
  <2> QED BY <1>1, <1>5, <2>1 DEF Making
<1> QED BY <1>1, <1>4, <1>5 DEF Making

\* A step of a handler keeps the tree: a directory that it has listed as empty
\* has nothing on its way below it, and a name it has not found is free.
LEMMA LocalTree ==
  ASSUME NSTypeOK, CallsInv, EffectInv, TreeInv, NEW t \in Thread,
         Handler(t) \/ MongoThrows(t) \/ MemcacheFails(t), Kernel(t)
  PROVE  TreeInv'
<1>1. /\ pc[t] # "idle" /\ UNCHANGED <<files, call>>
      /\ \A u \in Thread : Op(u)' = Op(u) /\ PathOf(u)' = PathOf(u)
      /\ \A u \in Thread \ {t} :
           pc'[u] = pc[u] /\ wire'[u] = wire[u] /\ doc'[u] = doc[u]
  BY LocalShape
<1>2. raced \subseteq raced' /\ \A u \in Thread \ {t} : sys'[u] = sys[u]
  BY RacesAreNoted DEF Kernel, NSTypeOK
<1>3. \A u \in Thread \ {t}, q \in Path :
        /\ (Threat(u, q)' <=> Threat(u, q))
        /\ (Making(u, q)' <=> Making(u, q))
  BY <1>1, <1>2 DEF Threat, Making, Mutating, Kind
<1>4. \A u \in Thread, q \in Path :
        /\ Growth(u, q)' => Growth(u, q)
        /\ Retyping(u, q)' => Retyping(u, q) /\ SentKind(u)' = SentKind(u)
  BY <1>1 DEF Growth, Retyping, Mutating, SentKind
<1>5. ASSUME NEW q \in Path, Threat(t, q)', ~Threat(t, q),
             NEW p \in Children[q] \ raced'
      PROVE  files[p] = {} /\ \A x \in Thread : ~Growth(x, p)
  <2>1. p \in Path \ raced /\ q \in ParentOf(p)
    BY <1>2, <1>5, ConstantsAssumption DEF ParentOf
  <2>2. CASE KindOf(q) # "dir"
    BY <2>1, <2>2 DEF TreeInv, HasParent, GrowthHasParent
  <2>3. CASE /\ pc[t] = "list" /\ PathOf(t) = q
             /\ \A c \in Children[q] : files[c] = {}
    <3>1. files[p] = {} /\ KindOf(p) = "none"
      BY <1>5, <2>1, <2>3, KindOfFiles
    <3>2. Op(t) = "rmdir" /\ Mutating(t, q) /\ ~MakesDir(t)
      BY <2>3 DEF NSTypeOK, TypeOK, HandlerOK, Mutating, Mutators, Invalidators,
                  Removers, MakesDir
    <3>3. ASSUME NEW x \in Thread, Growth(x, p) PROVE FALSE
      <4>1. PathOf(x) = p /\ Changing(x, p) /\ x # t
        BY <2>1, <2>3, <3>3, WorkIsChange, ParentIsOther
      <4>2. ~Apart(x, t)
        BY <2>1, <2>3, <3>2, <4>1, ApartIsRace
      <4>3. /\ Locks(sys[x], p) \cap Locks(sys[t], q) = {}
            /\ sys[t] = "rmdir"
            /\ Op(x) \in {"create", "mkdir"} => sys[x] = Op(x)
        BY <2>3, <3>2, <4>1, <4>2, TogetherIsLocked DEF Removers
      <4>4. Op(x) # "store"
        BY <2>1, <3>1, <3>3 DEF TreeInv, StoreHasFile
      <4>5. q \in Locks(sys[x], p)
        BY <2>1, <3>3, <4>3, <4>4 DEF Growth, Locks, Creators
      <4>6. q \in Locks(sys[t], q)
        BY <4>3 DEF Locks, Removers
      <4> QED BY <4>3, <4>5, <4>6
    <3> QED BY <3>1, <3>3
  <2> QED BY <1>5, <2>2, <2>3, LocalThreat
<1>6. \A u \in Thread, q \in Path : Threat(u, q)' =>
        \/ Threat(u, q)
        \/ \A p \in Children[q] \ raced' :
             files[p] = {} /\ \A x \in Thread : ~Growth(x, p)'
  <2> SUFFICES ASSUME NEW u \in Thread, NEW q \in Path, Threat(u, q)',
                      ~Threat(u, q), NEW p \in Children[q] \ raced'
               PROVE  files[p] = {} /\ \A x \in Thread : ~Growth(x, p)'
    OBVIOUS
  <2>1. u = t /\ p \in Path
    BY <1>3, ConstantsAssumption
  <2> QED BY <1>4, <1>5, <2>1
<1>7. ASSUME NEW u \in Thread, NEW p \in Path \ raced', Growth(u, p)',
             Op(u)' = "store"
      PROVE  KindOf(p) = "other" /\ (pc'[u] # "find" => Kind(doc'[u]) = "other")
  <2>1. /\ Growth(u, p) /\ Op(u) = "store" /\ PathOf(u) = p
        /\ KindOf(p) = "other"
        /\ pc[u] # "find" => Kind(doc[u]) = "other"
    BY <1>1, <1>2, <1>4, <1>7 DEF TreeInv, StoreHasFile, Growth, Mutating
  <2>2. CASE u # t
    BY <1>1, <2>1, <2>2
  <2>3. CASE u = t /\ Gridfile(t)
    <3>1. doc'[t] = FindFile(files[p])
      BY <2>1, <2>3 DEF Gridfile, NSTypeOK, TypeOK
    <3> QED BY <2>1, <2>3, <3>1 DEF KindOf
  <2>4. CASE u = t /\ ~Gridfile(t)
    <3>1. /\ doc'[t] = doc[t]
          /\ pc[t] = "find" => pc'[t] = "idle" /\ wire'[t] \in {wire[t], None}
      BY <2>4, LocalShape
    <3>2. pc[t] = "find" => wire[t] = None
      BY DEF NSTypeOK, TypeOK, HandlerOK
    <3>3. pc[t] # "find"
      BY <1>7, <2>4, <3>1, <3>2 DEF Growth, Mutating
    <3> QED BY <2>1, <2>4, <3>1, <3>3
  <2> QED BY <2>2, <2>3, <2>4
<1>8. \A u \in Thread, p \in Path \ raced' : Making(u, p)' =>
        Making(u, p) \/ files[p] = {}
  BY <1>3, LocalMaking, KindOfFiles
<1> QED BY <1>1, <1>2, <1>4, <1>6, <1>7, <1>8, QuietTree

-----------------------------------------------------------------------------
(* Steps that change documents *)

\* The server applies and deletes: no slot takes up or drops anything by it but
\* the one whose write it is.
LEMMA ServerWork ==
  ASSUME NSTypeOK, NEW t \in Thread, Server(t), UNCHANGED sys
  PROVE  \A u \in Thread, q \in Path :
           /\ Growth(u, q)' => Growth(u, q) /\ Op(u)' = Op(u) /\ PathOf(u) = q
           /\ Threat(u, q)' => Threat(u, q)
           /\ Making(u, q)' => Making(u, q)
           /\ Retyping(u, q)' => Retyping(u, q)
<1>1. /\ UNCHANGED <<pc, call, doc>> /\ wire[t] # None
      /\ \A u \in Thread : Op(u)' = Op(u) /\ PathOf(u)' = PathOf(u)
      /\ \A u \in Thread \ {t} : wire'[u] = wire[u]
  BY ServerShape
<1>2. \A u \in Thread, q \in Path : Mutating(u, q)' => Mutating(u, q) /\ PathOf(u) = q
  BY <1>1 DEF Mutating
<1>3. \A u \in Thread : wire'[u] # None => wire[u] # None
  BY <1>1
<1> QED BY <1>1, <1>2, <1>3 DEF Growth, Threat, Making, Retyping, Kind

\* What the tree loses or gets at one path keeps the rest if that path stays a
\* directory for all that need it, and is in place itself.
LEMMA ChangedTree ==
  ASSUME NSTypeOK, TreeInv, NEW P \in Path, raced \subseteq raced',
         \A q \in Path \ {P} : files'[q] = files[q],
         \A u \in Thread, q \in Path :
           /\ Growth(u, q)' => Growth(u, q) /\ Op(u)' = Op(u)
           /\ Threat(u, q)' => Threat(u, q)
           /\ Making(u, q)' => Making(u, q)
           /\ Retyping(u, q)' => Retyping(u, q),
         UNCHANGED <<pc, doc, call>>,
         \A p \in Children[P] \ raced' :
           (files[p] # {} \/ \E u \in Thread : Growth(u, p)) /\ KindOf(P) = "dir"
             => KindOf(P)' = "dir",
         P \notin raced' =>
           /\ files'[P] # {} => files[P] # {} \/ \E u \in Thread : Growth(u, P)
           /\ \A u \in Thread : Growth(u, P)' /\ Op(u) = "store" => KindOf(P)' = "other"
           /\ \A u \in Thread : Retyping(u, P)' => KindOf(P)' = SentKind(u)
           /\ \A u \in Thread : Making(u, P)' => files'[P] = {}
           /\ \A d, e \in files'[P] : Kind(d) = Kind(e)
  PROVE  TreeInv'
<1>1. /\ \A q \in Path \ {P} : KindOf(q)' = KindOf(q)
      /\ \A q : ParentOf(q)' = ParentOf(q)
      /\ \A d : Kind(d)' = Kind(d)
  BY DEF KindOf, ParentOf, Kind
<1>2. ASSUME NEW p \in Path \ raced', NEW q \in ParentOf(p), KindOf(q) = "dir",
             files[p] # {} \/ \E u \in Thread : Growth(u, p)
      PROVE  KindOf(q)' = "dir"
  <2>1. q \in Path /\ p \in Children[q]
    BY ParentIsOther
  <2> QED BY <1>1, <1>2, <2>1
<1>3. GrowthHasParent'
  <2> SUFFICES ASSUME NEW u \in Thread, NEW p \in Path \ raced', Growth(u, p)',
                      NEW q \in ParentOf(p)
               PROVE  KindOf(q)' = "dir"
    BY <1>1 DEF GrowthHasParent
  <2>1. Growth(u, p) /\ KindOf(q) = "dir"
    BY DEF TreeInv, GrowthHasParent
  <2> QED BY <1>2, <2>1
<1>4. ThreatIsEmpty'
  <2> SUFFICES ASSUME NEW x \in Thread, NEW u \in Thread, NEW q \in Path,
                      Threat(u, q)', NEW p \in Children[q] \ raced'
               PROVE  files'[p] = {} /\ ~Growth(x, p)'
    BY DEF ThreatIsEmpty
  <2>1. p \in Path
    BY ConstantsAssumption
  <2>2. files[p] = {} /\ \A y \in Thread : ~Growth(y, p)
    BY <2>1 DEF TreeInv, ThreatIsEmpty
  <2> QED BY <2>1, <2>2
<1>5. StoreHasFile'
  <2> SUFFICES ASSUME NEW u \in Thread, NEW p \in Path \ raced', Growth(u, p)',
                      Op(u)' = "store"
               PROVE  /\ KindOf(p)' = "other"
                      /\ pc[u] # "find" => Kind(doc[u]) = "other"
    BY <1>1 DEF StoreHasFile
  <2>1. /\ KindOf(p) = "other" /\ Op(u) = "store"
        /\ pc[u] # "find" => Kind(doc[u]) = "other"
    BY DEF TreeInv, StoreHasFile
  <2> QED BY <1>1, <2>1
<1>9. SendsItsKind'
  <2> SUFFICES ASSUME NEW u \in Thread, NEW p \in Path \ raced', Retyping(u, p)'
               PROVE  KindOf(p)' = SentKind(u)
    BY DEF SendsItsKind, SentKind
  <2> QED BY <1>1 DEF TreeInv, SendsItsKind
<1>6. MakingIsNew'
  BY DEF TreeInv, MakingIsNew
<1>7. OneKind'
  <2> SUFFICES ASSUME NEW p \in Path \ raced', NEW d \in files'[p], NEW e \in files'[p]
               PROVE  Kind(d) = Kind(e)
    BY <1>1 DEF OneKind
  <2> QED BY DEF TreeInv, OneKind
<1>8. HasParent'
  <2> SUFFICES ASSUME NEW p \in Path \ raced', files'[p] # {}, NEW q \in ParentOf(p)
               PROVE  KindOf(q)' = "dir"
    BY <1>1 DEF HasParent
  <2>1. files[p] # {} \/ \E u \in Thread : Growth(u, p)
    OBVIOUS
  <2>2. KindOf(q) = "dir"
    BY <2>1 DEF TreeInv, HasParent, GrowthHasParent
  <2> QED BY <1>2, <2>1, <2>2
<1> QED BY <1>3, <1>4, <1>5, <1>6, <1>7, <1>8, <1>9 DEF TreeInv

\* Two that make or store one path that no race has touched do so one by one.
LEMMA GrowthIsAlone ==
  ASSUME NSTypeOK, CallsInv, EffectInv, TreeInv, NEW p \in Path \ raced,
         NEW t \in Thread, NEW u \in Thread, t # u, Growth(t, p), Making(u, p)
  PROVE  FALSE
<1>1. PathOf(t) = p /\ PathOf(u) = p /\ ~Apart(t, u)
  BY WorkIsChange, ApartIsRace
<1>2. /\ Locks(sys[t], p) \cap Locks(sys[u], p) = {}
      /\ Op(t) \in {"create", "mkdir"} => sys[t] = Op(t)
      /\ pc[u] # "idle"
  BY <1>1, TogetherIsLocked
<1>3. Op(u) \in Creators
  BY <1>2 DEF Making
<1>4. sys[u] \in {"create", "mkdir"}
  <2>1. Op(u) \in {"create", "mkdir"}
    BY <1>3 DEF CallsInv, SysOK, Creators, Removers
  <2> QED BY <1>1, <2>1, TogetherIsLocked
<1>5. Op(t) # "store"
  <2>1. files[p] = {}
    BY DEF TreeInv, MakingIsNew
  <2>2. KindOf(p) = "none"
    BY <2>1, KindOfFiles
  <2> QED BY <2>2 DEF TreeInv, StoreHasFile
<1>6. sys[t] \in {"create", "mkdir"}
  BY <1>2, <1>5 DEF Growth
<1>7. Locks(sys[t], p) \cap Locks(sys[u], p) # {}
  BY <1>4, <1>6 DEF Locks, Creators
<1> QED BY <1>2, <1>7

\* A document that the server inserts is where it belongs, and what its path was.
LEMMA InsertTree ==
  ASSUME NSTypeOK, CallsInv, EffectInv, TreeInv, NEW t \in Thread, Server(t),
         wire[t].kind # "delete", Op(t) # "chmod", UNCHANGED sys, raced \subseteq raced'
  PROVE  TreeInv'
<1>1. PICK P \in Path : P = PathOf(t)
  BY DEF NSTypeOK, TypeOK, Call, PathOf
<1>2. PICK d \in Doc : d = wire[t].doc
  BY <1>1, InsertedKind
<1>3. /\ files'[P] = files[P] \cup {d} /\ wire'[t] = None
      /\ KindOf(P)' = Kind(d) \/ (files[P] # {} /\ KindOf(P)' = KindOf(P))
  BY <1>1, <1>2, InsertedKind
<1>4. /\ UNCHANGED <<pc, call, doc>> /\ wire[t] # None
      /\ pc[t] \in {"sync", "idle"} /\ Op(t) \in Mutators \ Removers
      /\ Op(t)' = Op(t)
      /\ \A q \in Path \ {P} : files'[q] = files[q]
  BY <1>1, ServerShape
<1>5. /\ Op(t) \in {"create", "mkdir", "store"} /\ Growth(t, P)
      /\ Op(t) = "create" => Kind(d) = "other"
      /\ Op(t) = "mkdir" => Kind(d) = "dir"
      /\ Op(t) = "store" => (Kind(d) = "dir") = (Kind(doc[t]) = "dir")
  <2>1. Op(t) \in {"create", "mkdir", "store"}
    BY <1>4 DEF CallsInv, SysOK, Mutators, Creators, Invalidators, Removers
  <2> QED
    BY <1>1, <1>2, <1>4, <2>1
    DEF CallsInv, MakesOK, Growth, Mutating
<1>6. Kind(d) \in {"dir", "other"}
  BY ConstantsAssumption DEF Kind
<1>7. Kind(d) # "dir" => Threat(t, P)
  BY <1>4, <1>5 DEF Threat, Growth
<1>8. \A p \in Children[P] \ raced' :
        (files[p] # {} \/ \E u \in Thread : Growth(u, p)) /\ KindOf(P) = "dir"
          => KindOf(P)' = "dir"
  BY <1>3, <1>6, <1>7 DEF TreeInv, ThreatIsEmpty
<1>9. Op(t) \in Creators => Making(t, P)
  BY <1>1, <1>4 DEF Making
<1>10. P \notin raced /\ Op(t) # "store" => files[P] = {}
  BY <1>5, <1>9 DEF TreeInv, MakingIsNew, Creators
<1>11. P \notin raced /\ Op(t) = "store" =>
         KindOf(P) = "other" /\ Kind(d) = "other"
  BY <1>4, <1>5, <1>6 DEF TreeInv, StoreHasFile
<1>12. ASSUME P \notin raced' PROVE
         /\ files'[P] # {} => files[P] # {} \/ \E u \in Thread : Growth(u, P)
         /\ \A u \in Thread : Growth(u, P)' /\ Op(u) = "store" => KindOf(P)' = "other"
         /\ \A u \in Thread : Retyping(u, P)' => KindOf(P)' = SentKind(u)
         /\ \A u \in Thread : Making(u, P)' => files'[P] = {}
         /\ \A e, f \in files'[P] : Kind(e) = Kind(f)
  <2>1. P \in Path \ raced
    BY <1>12
  <2>5. ASSUME NEW u \in Thread, Retyping(u, P)' PROVE KindOf(P)' = SentKind(u)
    <3>1. KindOf(P) = SentKind(u)
      BY <2>1, <2>5, ServerWork DEF TreeInv, SendsItsKind
    <3>2. files[P] # {}
      BY <3>1, KindOfFiles DEF SentKind
    <3> QED BY <1>3, <1>10, <1>11, <2>1, <3>1, <3>2
  <2>2. ASSUME NEW u \in Thread, Growth(u, P)', Op(u) = "store"
        PROVE  KindOf(P)' = "other"
    <3>1. KindOf(P) = "other" /\ files[P] # {}
      BY <2>1, <2>2, ServerWork, KindOfFiles DEF TreeInv, StoreHasFile
    <3> QED BY <1>3, <1>10, <1>11, <2>1, <3>1
  <2>3. ASSUME NEW u \in Thread, Making(u, P)' PROVE FALSE
    <3>1. Making(u, P)
      BY <2>3, ServerWork
    <3>2. u = t
      BY <1>5, <2>1, <3>1, GrowthIsAlone
    <3> QED BY <1>3, <1>4, <1>5, <2>3, <3>2 DEF Making
  <2>4. \A e \in files'[P] : Kind(e) = Kind(d)
    <3>1. CASE Op(t) = "store"
      <4>1. PICK f \in files[P] : Kind(f) = "other"
        BY <1>11, <2>1, <3>1, KindOfFiles
      <4> QED BY <1>3, <1>11, <2>1, <3>1, <4>1 DEF TreeInv, OneKind
    <3>2. CASE Op(t) # "store"
      BY <1>3, <1>10, <2>1, <3>2
    <3> QED BY <3>1, <3>2
  <2> QED BY <1>5, <2>2, <2>3, <2>4, <2>5
<1> QED BY <1>4, <1>8, <1>12, ChangedTree, ServerWork

\* A document that the server deletes leaves nothing below it without a
\* directory, and no store without its file.
LEMMA DeleteTree ==
  ASSUME NSTypeOK, CallsInv, EffectInv, TreeInv, NEW t \in Thread, Server(t),
         wire[t].kind = "delete", UNCHANGED sys, raced \subseteq raced'
  PROVE  TreeInv'
<1>1. PICK P \in Path : P = PathOf(t)
  BY DEF NSTypeOK, TypeOK, Call, PathOf
<1>2. /\ UNCHANGED <<pc, call, doc>> /\ wire[t] # None
      /\ pc[t] \in {"sync", "idle"} /\ Op(t) \in Removers /\ Op(t) \in Mutators
      /\ files'[P] \subseteq files[P]
      /\ \A q \in Path \ {P} : files'[q] = files[q]
  BY <1>1, ServerShape
<1>3. Threat(t, P) /\ Changing(t, P)
  BY <1>1, <1>2 DEF Threat, Mutating, Changing, Removers
<1>7. ASSUME P \notin raced, NEW u \in Thread, Retyping(u, P)
      PROVE  FALSE
  <2>1. PathOf(u) = P /\ Changing(u, P) /\ u # t /\ Op(u) = "chmod"
    BY <1>2, <1>7, WorkIsChange DEF Retyping, Removers
  <2>2. ~Apart(u, t)
    BY <1>1, <1>3, <1>7, <2>1, ApartIsRace
  <2>3. /\ sys[u] = "chmod" /\ sys[t] \in Removers
        /\ Locks(sys[u], P) \cap Locks(sys[t], P) = {}
    BY <1>1, <1>2, <2>1, <2>2, TogetherIsLocked
  <2> QED BY <2>3 DEF Locks
<1>4. \A p \in Children[P] \ raced' :
        files[p] = {} /\ \A u \in Thread : ~Growth(u, p)
  BY <1>3 DEF TreeInv, ThreatIsEmpty
<1>5. ASSUME P \notin raced, NEW u \in Thread, Growth(u, P), Op(u) = "store"
      PROVE  FALSE
  <2>1. PathOf(u) = P /\ Changing(u, P) /\ u # t
    BY <1>2, <1>5, WorkIsChange DEF Removers
  <2>2. ~Apart(u, t)
    BY <1>1, <1>3, <1>5, <2>1, ApartIsRace
  <2>3. mountOf[u] = mountOf[t] /\ sys[u] = "release" /\ sys[t] \in Removers
    BY <1>2, <1>5, <2>1, <2>2, TogetherIsLocked
  <2> QED BY <1>1, <2>1, <2>3 DEF CallsInv, HandlesHeld
<1>6. ASSUME P \notin raced' PROVE
        /\ files'[P] # {} => files[P] # {} \/ \E u \in Thread : Growth(u, P)
        /\ \A u \in Thread : Growth(u, P)' /\ Op(u) = "store" => KindOf(P)' = "other"
        /\ \A u \in Thread : Retyping(u, P)' => KindOf(P)' = SentKind(u)
        /\ \A u \in Thread : Making(u, P)' => files'[P] = {}
        /\ \A e, f \in files'[P] : Kind(e) = Kind(f)
  <2>1. P \in Path \ raced
    BY <1>6
  <2>2. \A u \in Thread : Growth(u, P)' /\ Op(u) = "store" => KindOf(P)' = "other"
    BY <1>5, <2>1, ServerWork
  <2>3. \A u \in Thread : Making(u, P)' => files'[P] = {}
    BY <1>2, <2>1, ServerWork DEF TreeInv, MakingIsNew
  <2>4. \A e, f \in files'[P] : Kind(e) = Kind(f)
    BY <1>2, <2>1 DEF TreeInv, OneKind
  <2>5. \A u \in Thread : Retyping(u, P)' => KindOf(P)' = SentKind(u)
    BY <1>7, <2>1, ServerWork
  <2> QED BY <1>2, <2>2, <2>3, <2>4, <2>5
<1> QED BY <1>2, <1>4, <1>6, ChangedTree, ServerWork

\* A mode that the server sets is of the type that its path has, unless there was a
\* race, and then it takes no directory from anything.
LEMMA RetypeTree ==
  ASSUME NSTypeOK, CallsInv, EffectInv, TreeInv, NEW t \in Thread, Server(t),
         Op(t) = "chmod", UNCHANGED sys, raced \subseteq raced'
  PROVE  TreeInv'
<1>1. PICK P \in Path : P = PathOf(t)
  BY DEF NSTypeOK, TypeOK, Call, PathOf
<1>2. /\ UNCHANGED <<pc, call, doc>> /\ wire[t] # None /\ Op(t) \in Mutators
      /\ \A q \in Path \ {P} : files'[q] = files[q]
  BY <1>1, ServerShape
<1>3. /\ files[P] = {} => files'[P] = {}
      /\ \A d \in files'[P] :
           Kind(d) = SentKind(t) \/ \E e \in files[P] : Kind(d) = Kind(e)
      /\ KindOf(P)' \in {KindOf(P), SentKind(t)}
  BY <1>1, RetypedKind
<1>4. Retyping(t, P)
  BY <1>1, <1>2 DEF Retyping, Mutating
<1>5. SentKind(t) # "dir" => Threat(t, P)
  BY <1>4 DEF Retyping, Threat, SentKind
<1>6. \A p \in Children[P] \ raced' :
        (files[p] # {} \/ \E u \in Thread : Growth(u, p)) /\ KindOf(P) = "dir"
          => KindOf(P)' = "dir"
  BY <1>3, <1>5 DEF TreeInv, ThreatIsEmpty
<1>7. ASSUME P \notin raced' PROVE
        /\ files'[P] # {} => files[P] # {} \/ \E u \in Thread : Growth(u, P)
        /\ \A u \in Thread : Growth(u, P)' /\ Op(u) = "store" => KindOf(P)' = "other"
        /\ \A u \in Thread : Retyping(u, P)' => KindOf(P)' = SentKind(u)
        /\ \A u \in Thread : Making(u, P)' => files'[P] = {}
        /\ \A e, f \in files'[P] : Kind(e) = Kind(f)
  <2>1. P \in Path \ raced
    BY <1>7
  <2>2. KindOf(P) = SentKind(t) /\ KindOf(P)' = KindOf(P)
    BY <1>3, <1>4, <2>1 DEF TreeInv, SendsItsKind
  <2>3. \A u \in Thread : Growth(u, P)' /\ Op(u) = "store" => KindOf(P)' = "other"
    BY <2>1, <2>2, ServerWork DEF TreeInv, StoreHasFile
  <2>4. \A u \in Thread : Retyping(u, P)' => KindOf(P)' = SentKind(u)
    BY <2>1, <2>2, ServerWork DEF TreeInv, SendsItsKind
  <2>5. \A u \in Thread : Making(u, P)' => files'[P] = {}
    BY <1>3, <2>1, ServerWork DEF TreeInv, MakingIsNew
  <2>6. \A d, e \in files[P] : Kind(d) = Kind(e)
    BY <2>1 DEF TreeInv, OneKind
  <2>7. \A d \in files[P] : Kind(d) = SentKind(t)
    BY <2>2, <2>6, KindOfFiles
  <2> QED BY <1>3, <2>3, <2>4, <2>5, <2>7
<1> QED BY <1>2, <1>6, <1>7, ChangedTree, ServerWork

-----------------------------------------------------------------------------
(* Theorems *)

\* What all of the proof stands on.
NSInv == NSTypeOK /\ EffectInv /\ CallsInv /\ TreeInv

\* Every step keeps all of it.
LEMMA NSStep ==
  ASSUME NSInv, [NSNext]_nsvars
  PROVE  NSInv'
<1>0. NSTypeOK /\ EffectInv /\ CallsInv /\ TreeInv
  BY DEF NSInv
<1> USE <1>0
<1>1. NSTypeOK' /\ EffectInv'
  BY TreeTypeStep, HandlersStep, EffectStep DEF NSTypeOK
<1>2. ASSUME NEW t \in Thread, System(t) PROVE CallsInv' /\ TreeInv'
  BY <1>2, SystemCalls, SystemTree
<1>3. ASSUME NEW t \in Thread, Handler(t) \/ MongoThrows(t) \/ MemcacheFails(t),
             Kernel(t)
      PROVE  CallsInv' /\ TreeInv'
  BY <1>3, KernelCalls, LocalTree
<1>4. ASSUME NEW t \in Thread, Server(t), NoteRaces({}),
             UNCHANGED <<mountOf, dentry, opened, sys, misled>>
      PROVE  CallsInv' /\ TreeInv'
  <2>1. raced \subseteq raced'
    BY <1>4, RacesAreNoted
  <2> QED BY <1>4, <2>1, ServerCalls, InsertTree, RetypeTree, DeleteTree
<1>5. ASSUME UNCHANGED <<files, pc, call, doc, wire, mountOf, opened, sys, raced>>
      PROVE  CallsInv' /\ TreeInv'
  <2>1. \A u \in Thread, q \in Path :
          /\ (Growth(u, q)' <=> Growth(u, q))
          /\ (Threat(u, q)' <=> Threat(u, q))
          /\ (Making(u, q)' <=> Making(u, q))
          /\ (Retyping(u, q)' <=> Retyping(u, q)) /\ SentKind(u)' = SentKind(u)
          /\ Op(u)' = Op(u)
    BY <1>5 DEF Growth, Threat, Making, Retyping, SentKind, Mutating, Op, PathOf, Kind
  <2>2. \A u \in Thread, q \in Path \ raced' : Growth(u, q)' /\ Op(u)' = "store" =>
          KindOf(q) = "other" /\ (pc'[u] # "find" => Kind(doc'[u]) = "other")
    BY <1>5, <2>1 DEF TreeInv, StoreHasFile
  <2> QED BY <1>5, <2>1, <2>2, QuietCalls, QuietTree
<1>6. ASSUME UNCHANGED nsvars PROVE CallsInv' /\ TreeInv'
  BY <1>5, <1>6 DEF nsvars, vars, kernel
<1>7. ASSUME NEW p \in Path, Evict(p), UNCHANGED kernel
      PROVE  CallsInv' /\ TreeInv'
  BY <1>5, <1>7 DEF Evict, kernel
<1>8. ASSUME NEW m \in Mount, NEW p \in Path, Forget(m, p)
      PROVE  CallsInv' /\ TreeInv'
  BY <1>5, <1>8 DEF Forget, vars
<1>9. ASSUME NSNext PROVE CallsInv' /\ TreeInv'
  BY <1>2, <1>3, <1>4, <1>7, <1>8, <1>9 DEF NSNext
<1>10. CallsInv' /\ TreeInv'
  BY <1>6, <1>9
<1> QED BY <1>1, <1>10 DEF NSInv

\* No race has happened when the kernels start, and the only paths that there
\* are have no parent.
LEMMA NSStart ==
  ASSUME NSInit
  PROVE  NSInv
<1>1. /\ NSTypeOK /\ EffectInv
      /\ \A p \in Path : files[p] # {} => ParentOf(p) = {}
      /\ \A p \in Path : \A d, e \in files[p] : d = e
  BY TreeStart
<1>2. /\ pc = [t \in Thread |-> "idle"] /\ wire = [t \in Thread |-> None]
      /\ sys = [t \in Thread |-> "none"]
      /\ \A t \in Thread : Op(t) = "none"
  BY DEF NSInit, StartsFrom, Op
<1>3. \A t \in Thread, p \in Path :
        ~Mutating(t, p) /\ ~Changing(t, p) /\ ~Making(t, p)
  BY <1>2 DEF Mutating, Changing, Making, Creators
<1>4. CallsInv
  <2>1. \A t \in Thread : SysOK(t) /\ MakesOK(t)
    BY <1>2 DEF SysOK, MakesOK, Creators, Removers
  <2>2. LocksHeld /\ HandlesHeld /\ FreshDates /\ DatesDiffer
    BY <1>1, <1>2 DEF LocksHeld, HandlesHeld, FreshDates, DatesDiffer, Removers
  <2>3. RacesNoted
    <3>1. \A t \in Thread : PathOf(t) \in Path
      BY <1>1 DEF NSTypeOK, TypeOK, Call, PathOf
    <3> QED BY <1>3, <3>1 DEF RacesNoted, Racing
  <2> QED BY <2>1, <2>2, <2>3 DEF CallsInv
<1>5. TreeInv
  BY <1>1, <1>3
  DEF TreeInv, GrowthHasParent, ThreatIsEmpty, StoreHasFile, SendsItsKind, MakingIsNew,
      OneKind, HasParent, Growth, Threat, Retyping
<1> QED BY <1>1, <1>4, <1>5 DEF NSInv

\* The invariant is inductive.
THEOREM TreeInductive == NSSpec => []NSInv
<1>1. NSInit => NSInv
  BY NSStart
<1>2. NSInv /\ [NSNext]_nsvars => NSInv'
  BY NSStep
<1> QED BY <1>1, <1>2, PTL DEF NSSpec

\* An entry loses its directory only in the races that Namespace lists, whatever
\* fails, and however many mounts, threads and paths there are.
THEOREM OrphansWereRaced == NSSpec => []OrphanOnlyIfRaced
<1>1. NSInv => OrphanOnlyIfRaced
  <2> SUFFICES ASSUME NSInv, NEW p \in Path \ raced PROVE ~Orphan(p)
    BY DEF OrphanOnlyIfRaced
  <2> QED BY KindOfFiles DEF NSInv, TreeInv, HasParent, Orphan
<1> QED BY <1>1, TreeInductive, PTL

\* Only in such a race does a directory become a file, or a file a directory: no
\* version of another kind is uploaded, and no chmod sends another one.
THEOREM KindChangesWereRaced == NSSpec => KindChangesOnlyIfRaced
<1>1. NSInv /\ NSInv' /\ [NSNext]_nsvars =>
        [\A p \in Path :
           KindOf(p) # KindOf(p)' /\ "none" \notin {KindOf(p), KindOf(p)'}
             => p \in raced']_nsvars
  <2> SUFFICES ASSUME NSInv, NSInv', NSNext, NEW p \in Path,
                      KindOf(p) # KindOf(p)', KindOf(p) # "none",
                      KindOf(p)' # "none"
               PROVE  p \in raced'
    OBVIOUS
  <2> SUFFICES ASSUME p \notin raced' PROVE FALSE
    OBVIOUS
  <2> DEFINE d == FindFile(files[p])
             e == FindFile(files[p])'
  <2>1. KindOf(p) = Kind(d) /\ KindOf(p)' = Kind(e)
    BY DEF KindOf, Kind
  <2>2. d \in files[p]
    BY <2>1, FindFileType DEF NSInv, NSTypeOK, TypeOK, Kind
  <2>3. e \in files'[p]
    BY <2>1, FindFileType DEF NSInv, NSTypeOK, TypeOK, Kind
  <2>4. Kind(d) # Kind(e) /\ files'[p] # files[p]
    BY <2>1
  <2> HIDE DEF d, e
  <2>5. PICK t \in Thread : Server(t) /\ NoteRaces({})
    <3>1. ASSUME NEW t \in Thread, System(t) PROVE files' = files
      BY <3>1 DEF System, SysStat, SysCreate, SysCreateFree, SysRemove, SysRelease,
                  SysChmod, Getattr, Create, Mkdir, Unlink, Rmdir, ReleaseDirty, Chmod,
                  Begin
    <3>2. ASSUME NEW t \in Thread, Handler(t) \/ MongoThrows(t) \/ MemcacheFails(t)
          PROVE  files' = files
      BY <3>2, LocalShape DEF NSInv
    <3> QED BY <2>4, <3>1, <3>2 DEF NSNext, Evict, Forget, vars
  <2>6. p \in Path \ raced
    BY <2>5, RacesAreNoted
  <2>10. p = PathOf(t)
    BY <2>4, <2>5, ServerShape DEF NSInv
  <2>11. Op(t) # "chmod"
    <3> SUFFICES ASSUME Op(t) = "chmod" PROVE FALSE
      OBVIOUS
    <3>1. KindOf(p)' \in {KindOf(p), SentKind(t)}
      BY <2>5, <2>10, RetypedKind DEF NSInv
    <3>2. Retyping(t, p)
      BY <2>5, <2>10, ServerShape DEF NSInv, Retyping, Mutating
    <3> QED BY <2>6, <3>1, <3>2 DEF NSInv, TreeInv, SendsItsKind
  <2>7. \/ files[p] \subseteq files'[p]
        \/ files'[p] \subseteq files[p]
    BY <2>5, <2>10, <2>11, InsertedKind, ServerShape DEF NSInv
  <2>8. \A x, y \in files'[p] : Kind(x) = Kind(y)
    BY DEF NSInv, TreeInv, OneKind, Kind
  <2>9. \A x, y \in files[p] : Kind(x) = Kind(y)
    BY <2>6 DEF NSInv, TreeInv, OneKind
  <2> QED BY <2>2, <2>3, <2>4, <2>7, <2>8, <2>9
<1> QED BY <1>1, TreeInductive, PTL DEF NSSpec, KindChangesOnlyIfRaced

-----------------------------------------------------------------------------
(* One mount *)

\* What OneMountKeepsTree is about: one mount, no failure, and no lookup whose
\* answer was wrong about a directory.
Undisturbed ==
  (\A t, u \in Thread : mountOf[t] = mountOf[u]) /\ faults = 0 /\ ~misled

\* t has looked up the name it makes, and not found it.
LookedUp(t) == sys[t] \in Creators /\ (Op(t) # "getattr" \/ pc[t] = "idle")

\* No handler leaves a write behind.
WritesAwaited == \A t \in Thread : wire[t] # None => pc[t] = "sync"

\* What unlink() removes and create() makes is no directory.
NotOnDir ==
  \A t \in Thread : pc[t] # "idle" /\ Op(t) \in {"unlink", "create"} =>
    KindOf(PathOf(t)) # "dir"

\* rmdir() has begun with a directory.
OnDir ==
  \A t \in Thread : Op(t) = "rmdir" /\ pc[t] \in {"find", "list"} =>
    KindOf(PathOf(t)) = "dir"

\* A system call makes a name in a directory.
InDir ==
  \A t \in Thread : sys[t] \in Creators =>
    \A q \in ParentOf(PathOf(t)) : KindOf(q) = "dir"

\* What is made is there when the answer is due.
MadeIsThere ==
  \A t \in Thread : pc[t] = "sync" /\ wire[t] = None =>
    /\ Op(t) = "create" => KindOf(PathOf(t)) = "other"
    /\ Op(t) = "mkdir" => KindOf(PathOf(t)) = "dir"

\* A handle is one of a file, and not of one that is yet to be made.
OpenIsFile == \A t \in Thread : \A q \in opened[mountOf[t]] : KindOf(q) = "other"

NewIsClosed == \A t \in Thread : LookedUp(t) => PathOf(t) \notin opened[mountOf[t]]

\* What the kernel takes for a directory is one, unless it is removing it ...
DirIsDir ==
  \A t \in Thread, q \in Path : dentry[mountOf[t]][q] = "dir" =>
    KindOf(q) = "dir" \/ \E u \in Thread : sys[u] = "rmdir" /\ PathOf(u) = q

\* ... and what it takes for something else is none, unless it is making it.
OtherIsOther ==
  \A t \in Thread, q \in Path : dentry[mountOf[t]][q] = "other" =>
    KindOf(q) # "dir" \/ \E u \in Thread : sys[u] = "mkdir" /\ PathOf(u) = q

\* What chmod is sent is of the type that is there.
SendsRightKind ==
  \A t \in Thread : pc[t] # "idle" /\ Op(t) = "chmod" => KindOf(PathOf(t)) = SentKind(t)

\* What the kernel has looked up and not found, and will make, is not there.
NewIsNone ==
  \A t \in Thread : sys[t] \in Creators /\ Op(t) = "getattr" /\ pc[t] = "idle" =>
    KindOf(PathOf(t)) = "none"

KernelRight ==
  /\ WritesAwaited
  /\ NotOnDir
  /\ OnDir
  /\ InDir
  /\ MadeIsThere
  /\ OpenIsFile
  /\ NewIsClosed
  /\ DirIsDir
  /\ OtherIsOther
  /\ SendsRightKind
  /\ NewIsNone

Unraced == raced = {}

NoRace == \A p \in Path : ~Racing(p)

\* The kernel of an undisturbed mount knows what it does, and nothing races.
KeptInv == Undisturbed => KernelRight /\ Unraced

\* Two system calls of one mount do not both change the entry of a path, nor does
\* one remove the directory in which another one makes a name.
LEMMA LockedOut ==
  ASSUME NSTypeOK, CallsInv, NEW t \in Thread, NEW u \in Thread, t # u,
         mountOf[t] = mountOf[u], sys[t] \in {"create", "mkdir"} \cup Removers,
         sys[u] \in {"create", "mkdir"} \cup Removers
  PROVE  /\ PathOf(t) # PathOf(u)
         /\ ~(sys[u] = "rmdir" /\ PathOf(u) \in ParentOf(PathOf(t)))
<1>1. Locks(sys[t], PathOf(t)) \cap Locks(sys[u], PathOf(u)) = {}
  BY DEF CallsInv, LocksHeld, Removers
<1>2. PathOf(t) = PathOf(u) => Locks(sys[t], PathOf(t)) \cap Locks(sys[u], PathOf(u)) # {}
  BY DEF Locks, Creators, Removers
<1>3. sys[u] = "rmdir" /\ PathOf(u) \in ParentOf(PathOf(t)) =>
        PathOf(u) \in Locks(sys[t], PathOf(t)) /\ PathOf(u) \in Locks(sys[u], PathOf(u))
  BY DEF Locks, Creators, Removers
<1> QED BY <1>1, <1>2, <1>3

\* Nor does one remove what another one changes the mode of.
LEMMA ChmodLocksOut ==
  ASSUME NSTypeOK, CallsInv, NEW t \in Thread, NEW u \in Thread, t # u,
         mountOf[t] = mountOf[u], sys[t] = "chmod", sys[u] \in Removers
  PROVE  PathOf(t) # PathOf(u)
<1>1. Locks(sys[t], PathOf(t)) \cap Locks(sys[u], PathOf(u)) = {}
  BY DEF CallsInv, LocksHeld, Removers
<1>2. PathOf(t) \in Locks(sys[t], PathOf(t)) /\ PathOf(u) \in Locks(sys[u], PathOf(u))
  BY DEF Locks
<1> QED BY <1>1, <1>2

\* A handler at work serves the system call it belongs to.
LEMMA BusyServes ==
  ASSUME NSTypeOK, CallsInv, NEW t \in Thread, pc[t] # "idle"
  PROVE  /\ Op(t) \in {"create", "mkdir", "chmod"} \cup Removers => sys[t] = Op(t)
         /\ Op(t) = "store" => sys[t] = "release" /\ PathOf(t) \in opened[mountOf[t]]
         /\ Op(t) \in Mutators =>
              Op(t) \in {"create", "mkdir", "store", "chmod"} \cup Removers
         /\ sys[t] # "none"
<1>1. SysOK(t) /\ sys[t] # "none"
  BY DEF CallsInv, SysOK
<1>2. /\ Op(t) \in {"create", "mkdir", "chmod"} \cup Removers => sys[t] = Op(t)
      /\ Op(t) = "store" => sys[t] = "release"
      /\ Op(t) \in Mutators =>
           Op(t) \in {"create", "mkdir", "store", "chmod"} \cup Removers
  BY <1>1 DEF SysOK, NSTypeOK, Mutators, Creators, Invalidators, Removers
<1> QED BY <1>1, <1>2 DEF CallsInv, HandlesHeld

\* Nothing races when the kernel is right.
LEMMA RightIsRaceless ==
  ASSUME NSInv, Undisturbed, KernelRight
  PROVE  NoRace
<1> USE DEF NSInv
<1>1. ASSUME NEW x \in Thread, NEW c \in Path, Mutating(x, c)
      PROVE  /\ pc[x] # "idle" /\ PathOf(x) = c
             /\ \/ Op(x) \in {"create", "mkdir"} \cup Removers /\ sys[x] = Op(x)
                \/ Op(x) = "store" /\ c \in opened[mountOf[x]]
                \/ Op(x) = "chmod" /\ KindOf(c) = SentKind(x)
  <2>1. pc[x] # "idle" /\ PathOf(x) = c /\ Op(x) \in Mutators
    BY <1>1 DEF Mutating, KernelRight, WritesAwaited
  <2>2. Op(x) = "chmod" => KindOf(c) = SentKind(x)
    BY <2>1 DEF KernelRight, SendsRightKind
  <2> QED BY <2>1, <2>2, BusyServes
<1>2. ASSUME NEW x \in Thread, NEW c \in Path, Changing(x, c), pc[x] = "idle"
      PROVE  PathOf(x) = c /\ LookedUp(x) /\ sys[x] \in {"create", "mkdir"}
  <2>1. PathOf(x) = c /\ sys[x] \in Creators
    BY <1>1, <1>2 DEF Changing
  <2> QED BY <1>2, <2>1 DEF LookedUp, NSTypeOK, Creators, Removers
<1>3. ASSUME NEW x \in Thread, NEW y \in Thread, x # y, NEW c \in Path,
             Changing(x, c), pc[x] = "idle", Changing(y, c)
      PROVE  FALSE
  <2>1. PathOf(x) = c /\ LookedUp(x) /\ sys[x] \in {"create", "mkdir"}
    BY <1>2, <1>3
  <2>2. PathOf(y) = c
    BY <1>3 DEF Changing, Mutating
  <2>3. mountOf[x] = mountOf[y]
    BY DEF Undisturbed
  <2>4. sys[y] \notin {"create", "mkdir"} \cup Removers
    BY <1>3, <2>1, <2>2, <2>3, LockedOut
  <2>5. Mutating(y, c)
    BY <1>3, <2>4 DEF Changing, NSTypeOK, Creators, Removers
  <2>6. c \in opened[mountOf[y]] \/ KindOf(c) = SentKind(y)
    BY <1>1, <2>4, <2>5
  <2>7. c \notin opened[mountOf[y]]
    BY <2>1, <2>3 DEF KernelRight, NewIsClosed
  <2>8. KindOf(c) = "none"
    <3>1. Op(x) = "getattr" /\ sys[x] \in Creators
      BY <1>3, <2>1 DEF CallsInv, SysOK, Creators
    <3> QED BY <1>3, <2>1, <3>1 DEF KernelRight, NewIsNone
  <2> QED BY <2>6, <2>7, <2>8 DEF SentKind
<1>4. ASSUME NEW x \in Thread, NEW y \in Thread, x # y, NEW c \in Path,
             Changing(x, c), pc[x] = "idle", NEW q \in ParentOf(c), Mutating(y, q),
             ~MakesDir(y)
      PROVE  FALSE
  <2>1. PathOf(x) = c /\ sys[x] \in {"create", "mkdir"} /\ mountOf[x] = mountOf[y]
    BY <1>2, <1>4 DEF Undisturbed
  <2>2. KindOf(q) = "dir"
    BY <1>4, <2>1 DEF KernelRight, InDir, Creators
  <2>3. /\ pc[y] # "idle" /\ PathOf(y) = q
        /\ \/ Op(y) \in {"create", "mkdir"} \cup Removers /\ sys[y] = Op(y)
           \/ Op(y) = "store" /\ q \in opened[mountOf[y]]
           \/ Op(y) = "chmod" /\ KindOf(q) = SentKind(y)
    BY <1>1, <1>4, ParentIsOther
  <2>7. Op(y) # "mkdir"
    BY <1>4 DEF MakesDir, CallsInv, MakesOK
  <2>8. CASE Op(y) = "chmod" /\ KindOf(q) = SentKind(y)
    BY <1>4, <2>2, <2>8 DEF MakesDir, SentKind
  <2>4. CASE Op(y) = "store" /\ q \in opened[mountOf[y]]
    BY <2>2, <2>4 DEF KernelRight, OpenIsFile
  <2>5. CASE Op(y) \in {"unlink", "create"}
    BY <2>2, <2>3, <2>5 DEF KernelRight, NotOnDir
  <2>6. CASE Op(y) = "rmdir"
    BY <1>4, <2>1, <2>3, <2>6, LockedOut DEF Removers
  <2> QED BY <2>3, <2>4, <2>5, <2>6, <2>7, <2>8 DEF Removers
<1> SUFFICES ASSUME NEW p \in Path, Racing(p) PROVE FALSE
  BY DEF NoRace
<1>5. PICK t \in Thread, u \in Thread :
        /\ t # u /\ Apart(t, u) /\ Changing(t, p)
        /\ \/ Changing(u, p)
           \/ \E q \in ParentOf(p) : Mutating(u, q) /\ ~MakesDir(u)
  BY DEF Racing
<1>6. pc[t] = "idle" \/ pc[u] = "idle"
  BY <1>5 DEF Apart, Undisturbed
<1>7. CASE Changing(u, p)
  BY <1>3, <1>5, <1>6, <1>7
<1>8. ASSUME NEW q \in ParentOf(p), Mutating(u, q), ~MakesDir(u) PROVE FALSE
  <2>1. pc[u] # "idle"
    BY <1>1, <1>8, ParentIsOther
  <2> QED BY <1>4, <1>5, <1>6, <1>8, <2>1
<1> QED BY <1>5, <1>7, <1>8

\* What has not been disturbed was not disturbed before.
LEMMA UndisturbedBefore ==
  ASSUME NSTypeOK, [NSNext]_nsvars, Undisturbed'
  PROVE  Undisturbed /\ faults' = faults
<1>1. faults \in Nat /\ misled \in BOOLEAN
  BY DEF NSTypeOK, TypeOK
<1>2. ASSUME NEW t \in Thread, System(t)
      PROVE  UNCHANGED <<mountOf, faults>> /\ (misled => misled')
  <2>1. ASSUME NEW p \in Path, SysChmod(t, p) PROVE UNCHANGED <<mountOf, faults>>
    BY <2>1 DEF SysChmod, Enter, Chmod, Begin
  <2>2. ASSUME NEW p \in Path, SysChmod(t, p) PROVE misled => misled'
    BY <2>2, Zenon DEF SysChmod, Enter
  <2>3. CASE SysCreateFree(t)
    BY <2>3 DEF SysCreateFree, Create, Mkdir, Begin
  <2>4. ASSUME NEW p \in Path, SysStat(t, p) \/ SysRelease(t, p)
        PROVE  UNCHANGED <<mountOf, faults>> /\ (misled => misled')
    <3>1. CASE SysStat(t, p)
      BY <3>1 DEF SysStat, Enter, Getattr, Begin
    <3>2. CASE SysRelease(t, p)
      BY <3>2 DEF SysRelease, ReleaseDirty, Begin
    <3> QED BY <2>4, <3>1, <3>2
  <2>5. ASSUME NEW p \in Path, NEW op, SysCreate(t, p, op) \/ SysRemove(t, p, op)
        PROVE  UNCHANGED <<mountOf, faults>> /\ (misled => misled')
    BY <2>5 DEF SysCreate, SysRemove, Enter, Getattr, Unlink, Rmdir, Begin
  <2> QED BY <1>2, <2>1, <2>2, <2>3, <2>4, <2>5 DEF System
<1>3. ASSUME NEW t \in Thread, Handler(t) \/ MongoThrows(t) \/ MemcacheFails(t)
      PROVE  faults' \in {faults, faults + 1}
  BY <1>3 DEF Handler, MemcacheGet, Gridfile, IsEmpty, SendCreate, SendStore, SendMeta,
              SendTruncate, SendRemove, Send, SynchonizeUpdate, MemcacheSet,
              MemcacheRemove, MongoThrows, MemcacheFails, Abandon, Fault
<1>4. ASSUME NEW t \in Thread, Kernel(t) PROVE mountOf' = mountOf /\ (misled => misled')
  BY <1>4 DEF Kernel
<1>5. ASSUME NEW t \in Thread, Server(t) PROVE faults' = faults
  BY <1>5 DEF Server, MongoApply, MongoDelete
<1>6. /\ mountOf' = mountOf /\ (misled => misled')
      /\ faults' \in {faults, faults + 1}
  BY <1>2, <1>3, <1>4, <1>5 DEF NSNext, Evict, Forget, nsvars, vars, kernel
<1> QED BY <1>1, <1>6 DEF Undisturbed

\* The kernel should let t begin with op and argument a at p, in the system call s.
Granted(t, op, a, p, s) ==
  /\ sys[t] = "none" \/ (s = sys[t] /\ p = PathOf(t))
  /\ op \in {"unlink", "create"} => KindOf(p) # "dir"
  /\ op = "rmdir" => KindOf(p) = "dir"
  /\ op = "chmod" => KindOf(p) = IF a \in DirMode THEN "dir" ELSE "other"
  /\ s \in Creators => \A q \in ParentOf(p) : KindOf(q) = "dir"
  /\ s \in Creators /\ op # "getattr" => p \notin opened[mountOf[t]]

\* A request that begins as the kernel should let it leaves the kernel right.
LEMMA BeginRight ==
  ASSUME NSTypeOK, KernelRight, NEW t \in Thread, NEW p \in Path, NEW op, NEW a,
         NEW first \in {"get", "find", "send"}, Begin(t, op, p, a, first),
         NEW s, sys' = [sys EXCEPT ![t] = s], UNCHANGED <<mountOf, dentry, opened>>,
         Granted(t, op, a, p, s)
  PROVE  KernelRight'
<1> USE DEF Granted
<1>1. /\ pc[t] = "idle" /\ wire[t] = None
      /\ pc'[t] = first /\ Op(t)' = op /\ PathOf(t)' = p /\ call'[t].arg = a
      /\ UNCHANGED <<files, wire>>
      /\ \A u \in Thread \ {t} :
           /\ pc'[u] = pc[u] /\ call'[u] = call[u]
           /\ Op(u)' = Op(u) /\ PathOf(u)' = PathOf(u)
  BY BeginShape
<1>2. sys'[t] = s /\ \A u \in Thread \ {t} : sys'[u] = sys[u]
  BY DEF NSTypeOK
<1>3. \A q : KindOf(q)' = KindOf(q) /\ ParentOf(q)' = ParentOf(q)
  BY <1>1 DEF KindOf, Kind, ParentOf
<1>4. WritesAwaited'
  BY <1>1 DEF KernelRight, WritesAwaited
<1>5. NotOnDir' /\ OnDir'
  BY <1>1, <1>3 DEF KernelRight, NotOnDir, OnDir
<1>6. InDir'
  BY <1>1, <1>2, <1>3 DEF KernelRight, InDir
<1>7. MadeIsThere'
  BY <1>1, <1>3 DEF KernelRight, MadeIsThere
<1>8. OpenIsFile'
  BY <1>3 DEF KernelRight, OpenIsFile
<1>9. NewIsClosed'
  BY <1>1, <1>2 DEF KernelRight, NewIsClosed, LookedUp
<1>10. \A u \in Thread : sys[u] # "none" => sys'[u] = sys[u] /\ PathOf(u)' = PathOf(u)
  BY <1>1, <1>2
<1>11. DirIsDir' /\ OtherIsOther'
  BY <1>3, <1>10 DEF KernelRight, DirIsDir, OtherIsOther
<1>12. SendsRightKind'
  BY <1>1, <1>3 DEF KernelRight, SendsRightKind, SentKind
<1>13. NewIsNone'
  BY <1>1, <1>2, <1>3 DEF KernelRight, NewIsNone
<1> QED BY <1>4, <1>5, <1>6, <1>7, <1>8, <1>9, <1>11, <1>12, <1>13 DEF KernelRight

\* So every system call begins: what the kernel believes and the locks it takes
\* are enough to know what the call will work on.
LEMMA SystemRight ==
  ASSUME NSInv, Undisturbed, KernelRight, Unraced, NEW t \in Thread, System(t), ~misled'
  PROVE  KernelRight' /\ NoteRaces({})
<1>0. NSTypeOK /\ EffectInv /\ CallsInv /\ TreeInv
  BY DEF NSInv
<1> USE <1>0
<1>1. \A u \in Thread : mountOf[u] = mountOf[t]
  BY DEF Undisturbed
<1>2. ASSUME NEW p \in Path, SysStat(t, p) PROVE KernelRight' /\ NoteRaces({})
  <2>1. /\ Begin(t, "getattr", p, None, "get") /\ NoteRaces({}) /\ sys[t] = "none"
        /\ sys' = [sys EXCEPT ![t] = "stat"] /\ UNCHANGED <<mountOf, dentry, opened>>
    BY <1>2 DEF SysStat, Enter, Getattr
  <2>2. Granted(t, "getattr", None, p, "stat")
    BY <2>1 DEF Granted, Creators
  <2>3. KernelRight'
    BY <2>1, <2>2, BeginRight
  <2> QED BY <2>1, <2>3
<1>3. ASSUME NEW p \in Path, NEW op \in {"create", "mkdir"}, SysCreate(t, p, op)
      PROVE  KernelRight' /\ NoteRaces({})
  <2>1. /\ Begin(t, "getattr", p, None, "get") /\ NoteRaces({}) /\ sys[t] = "none"
        /\ Reached(mountOf[t], p) /\ CanLock(t, op, p)
        /\ sys' = [sys EXCEPT ![t] = op] /\ UNCHANGED <<mountOf, dentry, opened>>
    BY <1>3 DEF SysCreate, Enter, Getattr
  <2>2. ASSUME NEW q \in ParentOf(p) PROVE KindOf(q) = "dir"
    <3>1. dentry[mountOf[t]][q] = "dir" /\ q \in Path
      BY <2>1, ParentIsOther DEF Reached
    <3>2. ASSUME NEW u \in Thread, sys[u] = "rmdir", PathOf(u) = q PROVE FALSE
      <4>1. Locks("rmdir", q) \cap Locks(op, p) = {}
        BY <1>1, <2>1, <3>2 DEF CanLock
      <4> QED BY <2>2, <4>1 DEF Locks, Creators, Removers
    <3> QED BY <3>1, <3>2 DEF KernelRight, DirIsDir
  <2>3. Granted(t, "getattr", None, p, op)
    BY <2>1, <2>2 DEF Granted
  <2>4. KernelRight'
    BY <2>1, <2>3, BeginRight
  <2> QED BY <2>1, <2>4
<1>4. CASE SysCreateFree(t)
  <2>1. PICK p \in Path : p = PathOf(t)
    BY DEF NSTypeOK, TypeOK, Call, PathOf
  <2>2. PICK op \in {"create", "mkdir"} : sys[t] = op
    BY <1>4 DEF SysCreateFree
  <2>3. PICK a, first : Begin(t, op, p, a, first) /\ first \in {"find", "send"}
    BY <1>4, <2>1, <2>2 DEF SysCreateFree, Create, Mkdir
  <2>4. Op(t) = "getattr" /\ pc[t] = "idle" /\ op \in Creators
    BY <1>4, <2>3 DEF SysCreateFree, Begin, Creators
  <2>5. KindOf(p) = "none"
    <3>1. Making(t, p) /\ p \notin raced
      BY <2>1, <2>2, <2>4 DEF Making, Unraced
    <3> QED BY <3>1, KindOfFiles DEF TreeInv, MakingIsNew
  <2>6. \A q \in ParentOf(p) : KindOf(q) = "dir"
    BY <2>1, <2>2, <2>4 DEF KernelRight, InDir
  <2>7. p \notin opened[mountOf[t]]
    BY <2>1, <2>2, <2>4 DEF KernelRight, NewIsClosed, LookedUp
  <2>8. sys' = [sys EXCEPT ![t] = op]
    BY <1>4, <2>2 DEF SysCreateFree, NSTypeOK
  <2>9. KernelRight'
    <3>1. UNCHANGED <<mountOf, dentry, opened>>
      BY <1>4 DEF SysCreateFree
    <3>2. Granted(t, op, a, p, op)
      BY <2>1, <2>2, <2>5, <2>6, <2>7 DEF Granted
    <3> QED BY <2>3, <2>8, <3>1, <3>2, BeginRight
  <2>10. NoteRaces({})
    BY <1>4, <2>1, <2>6 DEF SysCreateFree
  <2> QED BY <2>9, <2>10
<1>5. ASSUME NEW p \in Path, NEW op \in Removers, SysRemove(t, p, op)
      PROVE  KernelRight' /\ NoteRaces({})
  <2>1. /\ Begin(t, op, p, None, "find") /\ sys[t] = "none" /\ CanLock(t, op, p)
        /\ sys' = [sys EXCEPT ![t] = op] /\ UNCHANGED <<mountOf, dentry, opened>>
        /\ dentry[mountOf[t]][p] = IF op = "rmdir" THEN "dir" ELSE "other"
    BY <1>5 DEF SysRemove, Enter, Unlink, Rmdir, Removers
  <2>2. ASSUME NEW u \in Thread, sys[u] \in {"mkdir", "rmdir"}, PathOf(u) = p
        PROVE  FALSE
    <3>1. Locks(sys[u], p) \cap Locks(op, p) = {}
      BY <1>1, <2>1, <2>2 DEF CanLock
    <3> QED BY <2>2, <3>1 DEF Locks, Creators, Removers
  <2>3. (KindOf(p) = "dir") = (op = "rmdir")
    BY <2>1, <2>2 DEF KernelRight, DirIsDir, OtherIsOther
  <2>4. NoteRaces({})
    BY <1>5, <2>3 DEF SysRemove
  <2>5. Granted(t, op, None, p, op)
    BY <2>1, <2>3 DEF Granted, Creators, Removers
  <2> QED BY <2>1, <2>4, <2>5, BeginRight
<1>6. ASSUME NEW p \in Path, SysRelease(t, p) PROVE KernelRight' /\ NoteRaces({})
  <2>1. PICK n \in Size : Begin(t, "store", p, n, "find")
    BY <1>6 DEF SysRelease, ReleaseDirty
  <2>2. KindOf(p) = "other"
    BY <1>6 DEF SysRelease, KernelRight, OpenIsFile
  <2>3. /\ NoteRaces({}) /\ sys[t] = "none" /\ sys' = [sys EXCEPT ![t] = "release"]
        /\ UNCHANGED <<mountOf, dentry, opened>>
    BY <1>6, <2>2 DEF SysRelease
  <2>4. Granted(t, "store", n, p, "release")
    BY <2>3 DEF Granted, Creators
  <2>5. KernelRight'
    BY <2>1, <2>3, <2>4, BeginRight
  <2> QED BY <2>3, <2>5
<1>7. ASSUME NEW p \in Path, SysChmod(t, p) PROVE KernelRight' /\ NoteRaces({})
  <2> DEFINE known == dentry[mountOf[t]][p]
  <2>1. PICK m \in Mode : Begin(t, "chmod", p, m, "find")
    BY <1>7 DEF SysChmod, Chmod
  <2>2. call'[t].arg = m
    BY <2>1, BeginShape
  <2>3. /\ (m \in DirMode) = (known = "dir") /\ known \in {"dir", "other"}
        /\ KindOf(p) = known
        /\ sys[t] = "none" /\ sys' = [sys EXCEPT ![t] = "chmod"]
        /\ UNCHANGED <<mountOf, dentry, opened>>
    <3>1. misled' = (misled \/ KindOf(p) # known)
      BY <1>7 DEF SysChmod, Enter
    <3>2. KindOf(p) = known
      BY <3>1, Zenon DEF Undisturbed
    <3>3. known \in {"none", "dir", "other"}
      BY DEF NSTypeOK
    <3>4. known # "none" /\ (call'[t].arg \in DirMode) = (known = "dir")
      BY <1>7 DEF SysChmod
    <3>5. /\ sys[t] = "none" /\ sys' = [sys EXCEPT ![t] = "chmod"]
          /\ UNCHANGED <<mountOf, dentry, opened>>
      BY <1>7 DEF SysChmod, Enter
    <3> QED BY <2>2, <3>2, <3>3, <3>4, <3>5
  <2>4. NoteRaces({})
    BY <1>7, <2>3 DEF SysChmod
  <2>5. KindOf(p) = IF m \in DirMode THEN "dir" ELSE "other"
    BY <2>3
  <2>6. Granted(t, "chmod", m, p, "chmod")
    BY <2>3, <2>5 DEF Granted, Creators
  <2>7. KernelRight'
    BY <2>1, <2>3, <2>6, BeginRight
  <2> QED BY <2>4, <2>7
<1> QED BY <1>2, <1>3, <1>4, <1>5, <1>6, <1>7 DEF System

\* What a handler's step without a failure leads to, and from where it answers.
LEMMA CalmShape ==
  ASSUME NSTypeOK, CallsInv, NEW t \in Thread, Handler(t), faults' = faults
  PROVE  /\ wire[t] = None
         /\ wire'[t] # None => pc'[t] = "sync"
         /\ pc'[t] = "sync" /\ Op(t) \in Creators => wire'[t] # None
         /\ Op(t) = "rmdir" /\ pc'[t] \in {"find", "list"} => pc[t] = "find"
         /\ pc'[t] = "idle" =>
              /\ Op(t) = "getattr" =>
                   reply'[t] = "ok" \/ (reply'[t] = "ENOENT" /\ KindOf(PathOf(t)) = "none")
              /\ Op(t) = "create" =>
                   (reply'[t] = "ok" /\ pc[t] = "sync") \/ reply'[t] = "EEXIST"
              /\ Op(t) = "mkdir" => reply'[t] = "ok" /\ pc[t] = "sync"
              /\ Op(t) = "rmdir" => reply'[t] = "ok" \/ pc[t] \in {"find", "list"}
<1>1. /\ HandlerOK(t) /\ SysOK(t) /\ faults \in Nat /\ PathOf(t) \in Path
      /\ pc \in [Thread -> PC] /\ wire \in [Thread -> Write \cup {None}]
      /\ reply \in [Thread -> {None, "ok", "abort", "dead", "ENOENT", "EEXIST",
                               "ENOTEMPTY", "EIO"}]
  BY DEF CallsInv, NSTypeOK, TypeOK, Call, PathOf
<1>2. pc[t] # "sync" => wire[t] = None
  BY <1>1, LocalShape DEF HandlerOK
<1>3. CASE MemcacheGet(t)
  BY <1>1, <1>2, <1>3 DEF MemcacheGet, Goto, Return, Fault, HandlerOK
<1>4. CASE Gridfile(t)
  <2> DEFINE d == FindFile(files[PathOf(t)])
  <2>1. /\ pc[t] = "find" /\ Found(t, d) /\ wire' = wire /\ KindOf(PathOf(t)) = Kind(d)
        /\ Op(t) # "mkdir"
    BY <1>1, <1>4 DEF Gridfile, KindOf, HandlerOK
  <2>2. Op(t) \in {"getattr", "create", "store", "chmod"} \cup Removers
    BY <1>1, <2>1 DEF SysOK, HandlerOK
  <2> HIDE DEF d
  <2> QED BY <1>1, <1>2, <2>1, <2>2 DEF Found, Goto, Return, Removers, Kind
<1>5. CASE IsEmpty(t)
  BY <1>1, <1>2, <1>5 DEF IsEmpty, Goto, Return, HandlerOK
<1>6. CASE SendCreate(t) \/ SendStore(t) \/ SendMeta(t) \/ SendTruncate(t) \/ SendRemove(t)
  <2>1. PICK w : Send(t, w)
    BY <1>6, Zenon DEF SendCreate, SendStore, SendMeta, SendTruncate, SendRemove
  <2>2. /\ pc[t] = "send" /\ pc'[t] = "sync" /\ wire'[t] = w
    BY <1>1, <2>1 DEF Send, Goto
  <2>3. Op(t) \in Creators => w # None
    <3>1. SUFFICES ASSUME Op(t) \in Creators PROVE wire'[t] # None
      BY <2>2
    <3>2. SendCreate(t) /\ Op(t) \in {"create", "mkdir"}
      BY <1>1, <1>6, <3>1 DEF SendStore, SendMeta, SendTruncate, SendRemove, Creators,
                              Removers, SysOK
    <3>3. PICK now \in Time :
            Send(t, [kind |-> "insert",
                     doc |-> [v |-> clock + 1,
                              meta |-> [mode |-> IF Op(t) = "symlink" THEN LinkMode
                                                 ELSE call[t].arg,
                                        owner |-> DefaultOwner, time |-> now],
                              size |-> IF Op(t) = "symlink" THEN call[t].arg
                                       ELSE Empty]])
      BY <3>2 DEF SendCreate
    <3> DEFINE d == [v |-> clock + 1,
                     meta |-> [mode |-> call[t].arg, owner |-> DefaultOwner,
                               time |-> now],
                     size |-> Empty]
    <3>4. wire'[t] = [kind |-> "insert", doc |-> d]
      BY <1>1, <3>2, <3>3 DEF Send
    <3>5. d \in Doc
      <4>1. call[t].arg \in Mode /\ clock \in Nat
        BY <3>2 DEF NSTypeOK, TypeOK, Call, Op
      <4> QED BY <4>1, ConstantsAssumption DEF Doc, Meta
    <3> HIDE DEF d
    <3>6. [kind |-> "insert", doc |-> d] \in Write
      BY <3>5 DEF Write
    <3> QED BY <3>4, <3>6, ConstantsAssumption
  <2> QED BY <1>2, <2>2, <2>3
<1>7. CASE SynchonizeUpdate(t)
  BY <1>1, <1>7 DEF SynchonizeUpdate, Goto, Return, HandlerOK, Creators
<1>8. CASE MemcacheSet(t) \/ MemcacheRemove(t)
  BY <1>1, <1>2, <1>8 DEF MemcacheSet, MemcacheRemove, Return, HandlerOK, Invalidators,
                          Removers
<1> QED BY <1>3, <1>4, <1>5, <1>6, <1>7, <1>8 DEF Handler

\* What a write that the server applies makes of its path.
LEMMA ServerKind ==
  ASSUME NSInv, NSInv', Undisturbed, KernelRight, Unraced, NEW t \in Thread, Server(t),
         NEW P \in Path, P = PathOf(t)
  PROVE  /\ pc[t] = "sync"
         /\ \/ /\ Op(t) = "create" /\ KindOf(P) = "none" /\ KindOf(P)' = "other"
               /\ sys[t] = "create"
            \/ /\ Op(t) = "mkdir" /\ KindOf(P) = "none" /\ KindOf(P)' = "dir"
               /\ sys[t] = "mkdir"
            \/ Op(t) = "store" /\ KindOf(P) = "other" /\ KindOf(P)' = "other"
            \/ Op(t) = "chmod" /\ KindOf(P) # "none" /\ KindOf(P)' = KindOf(P)
            \/ /\ Op(t) \in Removers /\ KindOf(P)' \in {"none", KindOf(P)}
               /\ sys[t] = Op(t)
<1>0. NSTypeOK /\ EffectInv /\ CallsInv /\ TreeInv
  BY DEF NSInv
<1> USE <1>0
<1>1. /\ wire[t] # None /\ Op(t) \in Mutators
      /\ \/ wire[t].kind # "delete" /\ Op(t) \notin Removers
         \/ /\ wire[t].kind = "delete" /\ Op(t) \in Removers
            /\ files'[P] \subseteq files[P]
  BY ServerShape
<1>2. /\ pc[t] = "sync" /\ P \notin raced
      /\ Op(t) \in {"create", "mkdir", "store", "chmod"} \cup Removers
      /\ Op(t) \in {"create", "mkdir"} \cup Removers => sys[t] = Op(t)
  <2>1. pc[t] = "sync"
    BY <1>1 DEF KernelRight, WritesAwaited
  <2> QED BY <1>1, <2>1, BusyServes DEF Unraced
<1>5. CASE Op(t) = "chmod"
  <2>1. KindOf(P) = SentKind(t)
    BY <1>2, <1>5 DEF KernelRight, SendsRightKind
  <2>2. KindOf(P)' \in {KindOf(P), SentKind(t)}
    BY <1>5, RetypedKind
  <2> QED BY <1>2, <1>5, <2>1, <2>2 DEF SentKind
<1>3. CASE wire[t].kind # "delete" /\ Op(t) # "chmod"
  <2>1. /\ wire[t].doc \in Doc
        /\ \/ KindOf(P)' = Kind(wire[t].doc)
           \/ files[P] # {} /\ KindOf(P)' = KindOf(P)
    BY <1>3, InsertedKind
  <2>2. CASE Op(t) \in {"create", "mkdir"}
    <3>1. Making(t, P)
      BY <1>1, <2>2 DEF Making, Creators
    <3>2. files[P] = {} /\ KindOf(P) = "none"
      BY <1>2, <3>1, KindOfFiles DEF TreeInv, MakingIsNew
    <3>3. Kind(wire[t].doc) = IF Op(t) = "create" THEN "other" ELSE "dir"
      BY <1>1, <1>3, <2>2 DEF CallsInv, MakesOK
    <3> QED BY <1>2, <2>1, <2>2, <3>2, <3>3
  <2>3. CASE Op(t) = "store"
    <3>1. Growth(t, P)
      BY <1>1, <2>3 DEF Growth, Mutating
    <3>2. KindOf(P) = "other" /\ Kind(doc[t]) = "other"
      BY <1>2, <2>3, <3>1 DEF TreeInv, StoreHasFile
    <3>3. Kind(wire[t].doc) # "dir"
      BY <1>1, <2>3, <3>2 DEF CallsInv, MakesOK, Removers
    <3>4. Kind(wire[t].doc) = "other"
      BY <2>1, <3>3, ConstantsAssumption DEF Kind
    <3> QED BY <1>2, <2>1, <2>3, <3>2, <3>4
  <2> QED BY <1>1, <1>2, <1>3, <2>2, <2>3
<1>4. CASE wire[t].kind = "delete" /\ Op(t) \in Removers /\ files'[P] \subseteq files[P]
  <2>1. /\ files'[P] = {} <=> KindOf(P)' = "none"
        /\ files'[P] # {} => \E d \in files'[P] : KindOf(P)' = Kind(d)
    <3>1. NSTypeOK' /\ EffectInv'
      BY DEF NSInv
    <3>2. /\ files'[P] \subseteq Doc /\ clock' \in Nat
          /\ \A d \in files'[P] : d.v <= clock'
      BY <3>1 DEF NSTypeOK, TypeOK, EffectInv, Dated
    <3>3. KindOf(P)' = Kind(FindFile(files'[P]))
      BY DEF KindOf, Kind
    <3>4. CASE files'[P] = {}
      BY <3>3, <3>4 DEF Kind, FindFile, Newest
    <3>5. CASE files'[P] # {}
      BY <3>2, <3>3, <3>5, NewestExists DEF Kind
    <3> QED BY <3>4, <3>5
  <2>2. files[P] # {} => \E d \in files[P] : KindOf(P) = Kind(d)
    BY KindOfFiles
  <2>3. \A d, e \in files[P] : Kind(d) = Kind(e)
    BY <1>2 DEF TreeInv, OneKind
  <2>4. KindOf(P)' \in {"none", KindOf(P)}
    BY <1>4, <2>1, <2>2, <2>3
  <2> QED BY <1>2, <1>4, <2>4 DEF Removers
<1> QED BY <1>1, <1>3, <1>4, <1>5

\* The server does to a path what the kernel expects it to.
LEMMA ServerRight ==
  ASSUME NSInv, NSInv', Undisturbed, KernelRight, Unraced, NEW t \in Thread, Server(t),
         UNCHANGED <<mountOf, dentry, opened, sys>>
  PROVE  KernelRight'
<1>0. NSTypeOK /\ EffectInv /\ CallsInv /\ TreeInv
  BY DEF NSInv
<1> USE <1>0
<1>1. PICK P \in Path : P = PathOf(t)
  BY DEF NSTypeOK, TypeOK, Call, PathOf
<1>2. /\ UNCHANGED <<pc, call>>
      /\ \A u \in Thread : Op(u)' = Op(u) /\ PathOf(u)' = PathOf(u)
      /\ \A u \in Thread \ {t} : wire'[u] = wire[u]
      /\ \A q \in Path \ {P} : KindOf(q)' = KindOf(q)
      /\ \A q \in Path : ParentOf(q)' = ParentOf(q)
  BY <1>1, ServerShape DEF KindOf, Kind, ParentOf
<1>3. /\ pc[t] = "sync"
      /\ \/ /\ Op(t) = "create" /\ KindOf(P) = "none" /\ KindOf(P)' = "other"
            /\ sys[t] = "create"
         \/ /\ Op(t) = "mkdir" /\ KindOf(P) = "none" /\ KindOf(P)' = "dir"
            /\ sys[t] = "mkdir"
         \/ Op(t) = "store" /\ KindOf(P) = "other" /\ KindOf(P)' = "other"
         \/ Op(t) = "chmod" /\ KindOf(P) # "none" /\ KindOf(P)' = KindOf(P)
         \/ /\ Op(t) \in Removers /\ KindOf(P)' \in {"none", KindOf(P)}
            /\ sys[t] = Op(t)
  BY <1>1, ServerKind
<1>4. \A u \in Thread : PathOf(u) \in Path /\ mountOf[u] = mountOf[t]
  BY DEF NSTypeOK, TypeOK, Call, PathOf, Undisturbed
<1>5. ASSUME NEW u \in Thread, u # t, sys[u] \in {"create", "mkdir"} \cup Removers,
             PathOf(u) = P
      PROVE  Op(t) \in {"store", "chmod"} /\ KindOf(P) # "none" /\ KindOf(P)' = KindOf(P)
  <2>1. sys[t] \notin {"create", "mkdir"} \cup Removers
    BY <1>1, <1>4, <1>5, LockedOut
  <2> QED BY <1>3, <2>1
<1>6. \A u \in Thread : sys[u] \in Creators => sys[u] \in {"create", "mkdir"}
  BY DEF NSTypeOK, Creators, Removers
<1>7. WritesAwaited'
  BY <1>2, <1>3 DEF KernelRight, WritesAwaited
<1>8. NotOnDir'
  <2> SUFFICES ASSUME NEW u \in Thread, pc[u] # "idle", Op(u) \in {"unlink", "create"}
               PROVE  KindOf(PathOf(u))' # "dir"
    BY <1>2 DEF NotOnDir
  <2>1. KindOf(PathOf(u)) # "dir" /\ sys[u] = Op(u)
    BY BusyServes DEF KernelRight, NotOnDir, Removers
  <2>2. CASE PathOf(u) # P
    BY <1>2, <1>4, <2>1, <2>2 DEF KindOf
  <2>3. CASE PathOf(u) = P /\ u # t
    BY <1>2, <1>5, <2>1, <2>3 DEF KindOf, Removers
  <2>4. CASE u = t
    BY <1>1, <1>2, <1>3, <2>1, <2>4 DEF KindOf, Removers
  <2> QED BY <2>2, <2>3, <2>4
<1>9. OnDir'
  <2> SUFFICES ASSUME NEW u \in Thread, pc[u] \in {"find", "list"}, Op(u) = "rmdir"
               PROVE  KindOf(PathOf(u))' = "dir"
    BY <1>2 DEF OnDir
  <2>1. KindOf(PathOf(u)) = "dir" /\ sys[u] = "rmdir" /\ u # t
    BY <1>3, BusyServes DEF KernelRight, OnDir, Removers
  <2>2. CASE PathOf(u) # P
    BY <1>2, <1>4, <2>1, <2>2 DEF KindOf
  <2>3. CASE PathOf(u) = P
    <3>1. KindOf(P)' = KindOf(P)
      BY <1>5, <2>1, <2>3 DEF Removers
    <3> QED BY <1>2, <2>1, <2>3, <3>1 DEF KindOf
  <2> QED BY <2>2, <2>3
<1>10. InDir'
  <2> SUFFICES ASSUME NEW u \in Thread, sys[u] \in Creators, NEW q \in ParentOf(PathOf(u))
               PROVE  KindOf(q)' = "dir"
    BY <1>2, <1>4 DEF InDir
  <2>1. KindOf(q) = "dir" /\ q \in Path
    BY <1>4, ParentIsOther DEF KernelRight, InDir
  <2>2. ASSUME q = P, Op(t) \in Removers, sys[t] = Op(t) PROVE FALSE
    <3>1. Op(t) # "unlink"
      BY <1>1, <1>3, <2>1, <2>2 DEF KernelRight, NotOnDir
    <3>2. sys[t] = "rmdir" /\ u # t
      BY <1>6, <2>2, <3>1 DEF Removers
    <3> QED BY <1>1, <1>4, <1>6, <2>2, <3>2, LockedOut DEF Removers
  <2> QED BY <1>2, <1>3, <2>1, <2>2
<1>11. MadeIsThere'
  <2> SUFFICES ASSUME NEW u \in Thread, pc[u] = "sync", wire'[u] = None
               PROVE  /\ Op(u) = "create" => KindOf(PathOf(u))' = "other"
                      /\ Op(u) = "mkdir" => KindOf(PathOf(u))' = "dir"
    BY <1>2 DEF MadeIsThere
  <2>1. CASE u = t
    BY <1>1, <1>2, <1>3, <2>1 DEF KindOf, Removers
  <2>2. CASE u # t
    <3>1. /\ Op(u) = "create" => KindOf(PathOf(u)) = "other"
          /\ Op(u) = "mkdir" => KindOf(PathOf(u)) = "dir"
      BY <1>2, <2>2 DEF KernelRight, MadeIsThere
    <3>2. Op(u) \in {"create", "mkdir"} => sys[u] = Op(u)
      BY BusyServes
    <3>3. CASE PathOf(u) # P
      BY <1>2, <1>4, <3>1, <3>3 DEF KindOf
    <3>4. CASE PathOf(u) = P
      BY <1>2, <1>5, <2>2, <3>1, <3>2, <3>4 DEF KindOf
    <3> QED BY <3>3, <3>4
  <2> QED BY <2>1, <2>2
<1>12. OpenIsFile'
  <2> SUFFICES ASSUME NEW u \in Thread, NEW q \in opened[mountOf[u]]
               PROVE  KindOf(q)' = "other"
    BY DEF OpenIsFile
  <2>1. KindOf(q) = "other" /\ q \in Path
    BY DEF KernelRight, OpenIsFile, NSTypeOK
  <2>2. sys[t] \in Removers => q # P
    BY <1>1, <1>4 DEF CallsInv, HandlesHeld
  <2> QED BY <1>2, <1>3, <2>1, <2>2
<1>13. NewIsClosed'
  BY <1>2 DEF KernelRight, NewIsClosed, LookedUp
<1>14. DirIsDir'
  <2> SUFFICES ASSUME NEW u \in Thread, NEW q \in Path, dentry[mountOf[u]][q] = "dir",
                      KindOf(q)' # "dir"
               PROVE  \E x \in Thread : sys[x] = "rmdir" /\ PathOf(x) = q
    BY <1>2 DEF DirIsDir
  <2>1. CASE KindOf(q) = "dir"
    <3>1. q = P /\ Op(t) \in Removers /\ sys[t] = Op(t)
      BY <1>2, <1>3, <2>1
    <3>2. Op(t) # "unlink"
      BY <1>1, <1>3, <2>1, <3>1 DEF KernelRight, NotOnDir
    <3> QED BY <1>1, <3>1, <3>2 DEF Removers
  <2> QED BY <2>1 DEF KernelRight, DirIsDir
<1>15. OtherIsOther'
  <2> SUFFICES ASSUME NEW u \in Thread, NEW q \in Path, dentry[mountOf[u]][q] = "other",
                      KindOf(q)' = "dir"
               PROVE  \E x \in Thread : sys[x] = "mkdir" /\ PathOf(x) = q
    BY <1>2 DEF OtherIsOther
  <2>1. CASE KindOf(q) # "dir"
    BY <1>1, <1>2, <1>3, <2>1
  <2> QED BY <2>1 DEF KernelRight, OtherIsOther
<1>16. SendsRightKind'
  <2> SUFFICES ASSUME NEW u \in Thread, pc[u] # "idle", Op(u) = "chmod"
               PROVE  KindOf(PathOf(u))' = SentKind(u)
    BY <1>2 DEF SendsRightKind, SentKind
  <2>1. KindOf(PathOf(u)) = SentKind(u) /\ sys[u] = "chmod"
    BY BusyServes DEF KernelRight, SendsRightKind
  <2>2. CASE PathOf(u) # P
    BY <1>2, <1>4, <2>1, <2>2 DEF KindOf
  <2>3. CASE PathOf(u) = P
    <3>1. KindOf(P) # "none"
      BY <2>1, <2>3 DEF SentKind
    <3>2. sys[t] \notin Removers
      BY <1>1, <1>4, <2>1, <2>3, ChmodLocksOut DEF Removers
    <3>3. KindOf(P)' = KindOf(P)
      BY <1>3, <3>1, <3>2
    <3> QED BY <1>2, <2>1, <2>3, <3>3 DEF KindOf
  <2> QED BY <2>2, <2>3
<1>17. NewIsNone'
  <2> SUFFICES ASSUME NEW u \in Thread, sys[u] \in Creators, Op(u) = "getattr",
                      pc[u] = "idle"
               PROVE  KindOf(PathOf(u))' = "none"
    BY <1>2 DEF NewIsNone
  <2>1. KindOf(PathOf(u)) = "none" /\ u # t
    BY <1>3 DEF KernelRight, NewIsNone
  <2>2. PathOf(u) # P
    BY <1>5, <1>6, <2>1
  <2> QED BY <1>2, <1>4, <2>1, <2>2 DEF KindOf
<1> QED
  BY <1>7, <1>8, <1>9, <1>10, <1>11, <1>12, <1>13, <1>14, <1>15, <1>16, <1>17
  DEF KernelRight

\* What a kernel takes a path for once a handler has answered is what it is, or it
\* took it for that before.
LEMMA SeenIsRight ==
  ASSUME NSInv, Undisturbed, KernelRight, NEW t \in Thread, Handler(t), Kernel(t),
         faults' = faults, ~misled', pc'[t] = "idle", NEW p \in Path, p = PathOf(t)
  PROVE  /\ Seen(t) = "dir" =>
              KindOf(p) = "dir"
                \/ \E u \in Thread \ {t} : sys[u] = "rmdir" /\ PathOf(u) = p
         /\ Seen(t) = "other" =>
              KindOf(p) # "dir"
                \/ \E u \in Thread \ {t} : sys[u] = "mkdir" /\ PathOf(u) = p
<1>0. NSTypeOK /\ EffectInv /\ CallsInv /\ TreeInv
  BY DEF NSInv
<1> USE <1>0
<1>1. /\ wire[t] = None /\ SysOK(t) /\ pc[t] # "idle"
      /\ Op(t) = "getattr" => reply'[t] \in {"ok", "ENOENT"}
      /\ Op(t) = "create" => (reply'[t] = "ok" /\ pc[t] = "sync") \/ reply'[t] = "EEXIST"
      /\ Op(t) = "mkdir" => reply'[t] = "ok" /\ pc[t] = "sync"
      /\ Op(t) = "rmdir" => reply'[t] = "ok" \/ pc[t] \in {"find", "list"}
  BY CalmShape, LocalShape DEF CallsInv
<1>2. CASE Op(t) = "getattr" /\ reply'[t] = "ok"
  BY <1>2 DEF Kernel
<1>3. CASE Op(t) = "getattr" /\ reply'[t] = "ENOENT"
  BY <1>3 DEF Seen, Removers
<1>4. CASE Op(t) \in {"create", "mkdir"} /\ reply'[t] = "ok"
  <2>1. /\ Op(t) = "create" => KindOf(p) = "other"
        /\ Op(t) = "mkdir" => KindOf(p) = "dir"
    BY <1>1, <1>4 DEF KernelRight, MadeIsThere
  <2>2. Op(t) = "create" => Seen(t) = "other"
    BY <1>4 DEF Seen, Removers
  <2>3. Op(t) = "mkdir" => Seen(t) = "dir"
    BY <1>4 DEF Seen, Removers
  <2> QED BY <1>4, <2>1, <2>2, <2>3
<1>5. CASE Op(t) \in Removers /\ reply'[t] = "ok"
  BY <1>5 DEF Seen, Removers
<1>6. CASE /\ Op(t) \notin {"getattr", "mkdir"}
           /\ Op(t) \in {"create"} \cup Removers => reply'[t] # "ok"
  <2>1. Seen(t) = dentry[mountOf[t]][p]
    BY <1>6 DEF Seen
  <2>2. /\ Seen(t) = "dir" =>
             KindOf(p) = "dir" \/ \E u \in Thread : sys[u] = "rmdir" /\ PathOf(u) = p
        /\ Seen(t) = "other" =>
             KindOf(p) # "dir" \/ \E u \in Thread : sys[u] = "mkdir" /\ PathOf(u) = p
    BY <2>1 DEF KernelRight, DirIsDir, OtherIsOther
  <2>3. sys[t] = "rmdir" => KindOf(p) = "dir"
    BY <1>1, <1>6 DEF SysOK, KernelRight, OnDir, Removers
  <2>4. sys[t] # "mkdir"
    BY <1>1, <1>6 DEF SysOK, Creators
  <2> QED BY <2>2, <2>3, <2>4
<1> QED BY <1>1, <1>2, <1>3, <1>4, <1>5, <1>6

\* A handler's step leaves the kernel right, with its answer as without.
LEMMA HandlerRight ==
  ASSUME NSInv, Undisturbed, KernelRight, NEW t \in Thread, Handler(t), Kernel(t),
         faults' = faults, ~misled'
  PROVE  KernelRight'
<1>0. NSTypeOK /\ EffectInv /\ CallsInv /\ TreeInv
  BY DEF NSInv
<1> USE <1>0
<1>1. PICK p \in Path : p = PathOf(t)
  BY DEF NSTypeOK, TypeOK, Call, PathOf
<1>2. /\ pc[t] # "idle" /\ UNCHANGED <<files, call>> /\ mountOf' = mountOf
      /\ \A u \in Thread : Op(u)' = Op(u) /\ PathOf(u)' = PathOf(u)
      /\ \A u \in Thread \ {t} : pc'[u] = pc[u] /\ wire'[u] = wire[u]
      /\ \A q : KindOf(q)' = KindOf(q) /\ ParentOf(q)' = ParentOf(q)
  BY LocalShape DEF Kernel, KindOf, Kind, ParentOf
<1>3. /\ wire[t] = None
      /\ wire'[t] # None => pc'[t] = "sync"
      /\ pc'[t] = "sync" /\ Op(t) \in Creators => wire'[t] # None
      /\ Op(t) = "rmdir" /\ pc'[t] \in {"find", "list"} => pc[t] = "find"
      /\ pc'[t] = "idle" /\ Op(t) = "getattr" /\ reply'[t] = "ENOENT" =>
           KindOf(p) = "none"
      /\ pc'[t] = "idle" /\ Op(t) = "create" /\ reply'[t] = "ok" => pc[t] = "sync"
  BY <1>1, CalmShape
<1>4. /\ \A u \in Thread \ {t} : sys'[u] = sys[u]
      /\ sys'[t] \in {sys[t], "none"}
      /\ pc'[t] # "idle" => sys' = sys /\ dentry' = dentry /\ opened' = opened
      /\ pc'[t] = "idle" /\ sys'[t] # "none" => Op(t) = "getattr" /\ reply'[t] = "ENOENT"
  BY DEF Kernel, NSTypeOK
<1>5. /\ \A u \in Thread : mountOf[u] = mountOf[t] /\ mountOf[u] \in Mount
      /\ SysOK(t) /\ sys[t] # "none"
  BY <1>2 DEF Undisturbed, NSTypeOK, CallsInv, SysOK
<1>6. WritesAwaited'
  BY <1>2, <1>3 DEF KernelRight, WritesAwaited
<1>7. NotOnDir'
  BY <1>2 DEF KernelRight, NotOnDir
<1>8. OnDir'
  BY <1>2, <1>3 DEF KernelRight, OnDir
<1>9. InDir'
  <2>1. \A u \in Thread : sys'[u] \in Creators => sys[u] \in Creators
    BY <1>4 DEF Creators
  <2> QED BY <1>2, <2>1 DEF KernelRight, InDir
<1>10. MadeIsThere'
  BY <1>2, <1>3 DEF KernelRight, MadeIsThere, Creators
<1>11. \A u \in Thread, q \in Path : q \in opened'[mountOf[u]] =>
         \/ q \in opened[mountOf[u]]
         \/ /\ q = p /\ Op(t) = "create" /\ pc'[t] = "idle"
            /\ KindOf(p) = "other"
  <2>1. \A m \in Mount, q \in Path : q \in opened'[m] /\ q \notin opened[m] =>
          q = p /\ Op(t) = "create" /\ pc'[t] = "idle" /\ reply'[t] = "ok"
    BY <1>1, <1>5 DEF Kernel, NSTypeOK
  <2>2. Op(t) = "create" /\ pc[t] = "sync" => KindOf(p) = "other"
    BY <1>1, <1>3 DEF KernelRight, MadeIsThere
  <2> QED BY <1>3, <1>5, <2>1, <2>2
<1>12. OpenIsFile'
  <2>1. opened' \in [Mount -> SUBSET Path]
    BY <1>1, <1>5 DEF Kernel, NSTypeOK
  <2> QED BY <1>2, <1>5, <1>11, <2>1 DEF KernelRight, OpenIsFile
<1>13. NewIsClosed'
  <2> SUFFICES ASSUME NEW u \in Thread, LookedUp(u)'
               PROVE  PathOf(u) \notin opened'[mountOf[u]]
    BY <1>2 DEF NewIsClosed
  <2>1. PathOf(u) \in Path
    BY DEF NSTypeOK, TypeOK, Call, PathOf
  <2>2. CASE u = t /\ pc'[t] = "idle"
    <3>1. Op(t) = "getattr" /\ KindOf(p) = "none"
      BY <1>3, <1>4, <2>2 DEF LookedUp, Creators
    <3>2. p \notin opened[mountOf[t]]
      BY <3>1 DEF KernelRight, OpenIsFile
    <3> QED BY <1>1, <1>11, <2>1, <2>2, <3>1, <3>2
  <2>3. CASE u = t /\ pc'[t] # "idle"
    BY <1>2, <1>4, <2>3 DEF LookedUp, KernelRight, NewIsClosed
  <2>4. CASE u # t
    <3>1. LookedUp(u) /\ PathOf(u) \notin opened[mountOf[u]]
      BY <1>2, <1>4, <2>4 DEF LookedUp, KernelRight, NewIsClosed
    <3>2. Op(t) = "create" => sys[t] = "create"
      BY <1>2, BusyServes
    <3>3. Op(t) = "create" => PathOf(u) # p
      BY <1>1, <1>5, <2>4, <3>1, <3>2, LockedOut
      DEF LookedUp, NSTypeOK, Creators, Removers
    <3> QED BY <1>11, <2>1, <3>1, <3>3
  <2> QED BY <2>2, <2>3, <2>4
<1>14. \A q \in Path : q # p \/ pc'[t] # "idle" =>
         /\ \A u \in Thread : dentry'[mountOf[u]][q] = dentry[mountOf[u]][q]
         /\ \A u \in Thread : PathOf(u) = q => sys'[u] = sys[u]
  BY <1>1, <1>4, <1>5 DEF Kernel, NSTypeOK
<1>15. pc'[t] = "idle" => \A u \in Thread : dentry'[mountOf[u]][p] = Seen(t)
  BY <1>1, <1>5 DEF Kernel, NSTypeOK
<1>16. DirIsDir'
  <2> SUFFICES ASSUME NEW u \in Thread, NEW q \in Path, dentry'[mountOf[u]][q] = "dir"
               PROVE  KindOf(q) = "dir"
                        \/ \E x \in Thread : sys'[x] = "rmdir" /\ PathOf(x) = q
    BY <1>2 DEF DirIsDir
  <2>1. CASE q # p \/ pc'[t] # "idle"
    BY <1>14, <2>1 DEF KernelRight, DirIsDir
  <2>2. CASE q = p /\ pc'[t] = "idle"
    BY <1>1, <1>4, <1>15, <2>2, SeenIsRight
  <2> QED BY <2>1, <2>2
<1>17. OtherIsOther'
  <2> SUFFICES ASSUME NEW u \in Thread, NEW q \in Path, dentry'[mountOf[u]][q] = "other"
               PROVE  KindOf(q) # "dir"
                        \/ \E x \in Thread : sys'[x] = "mkdir" /\ PathOf(x) = q
    BY <1>2 DEF OtherIsOther
  <2>1. CASE q # p \/ pc'[t] # "idle"
    BY <1>14, <2>1 DEF KernelRight, OtherIsOther
  <2>2. CASE q = p /\ pc'[t] = "idle"
    BY <1>1, <1>4, <1>15, <2>2, SeenIsRight
  <2> QED BY <2>1, <2>2
<1>18. SendsRightKind'
  BY <1>2 DEF KernelRight, SendsRightKind, SentKind
<1>19. NewIsNone'
  <2> SUFFICES ASSUME NEW u \in Thread, sys'[u] \in Creators, Op(u) = "getattr",
                      pc'[u] = "idle"
               PROVE  KindOf(PathOf(u)) = "none"
    BY <1>2 DEF NewIsNone
  <2>1. CASE u = t
    BY <1>1, <1>3, <1>4, <2>1 DEF Creators
  <2>2. CASE u # t
    BY <1>2, <1>4, <2>2 DEF KernelRight, NewIsNone
  <2> QED BY <2>1, <2>2
<1> QED
  BY <1>6, <1>7, <1>8, <1>9, <1>10, <1>12, <1>13, <1>16, <1>17, <1>18, <1>19
  DEF KernelRight

\* A kernel that forgets a path is right about it, and memcached is nothing to it.
LEMMA QuietRight ==
  ASSUME KernelRight, UNCHANGED <<files, pc, call, wire, mountOf, opened, sys>>,
         \A t \in Thread, q \in Path :
           dentry'[mountOf[t]][q] \in {dentry[mountOf[t]][q], "none"}
  PROVE  KernelRight'
<1>1. /\ \A u \in Thread : Op(u)' = Op(u) /\ PathOf(u)' = PathOf(u)
      /\ \A q : KindOf(q)' = KindOf(q) /\ ParentOf(q)' = ParentOf(q)
  BY DEF Op, PathOf, KindOf, Kind, ParentOf
<1>2. WritesAwaited' /\ NotOnDir' /\ OnDir' /\ InDir' /\ MadeIsThere'
  BY <1>1 DEF KernelRight, WritesAwaited, NotOnDir, OnDir, InDir, MadeIsThere
<1>3. OpenIsFile' /\ NewIsClosed'
  BY <1>1 DEF KernelRight, OpenIsFile, NewIsClosed, LookedUp
<1>4. DirIsDir' /\ OtherIsOther'
  BY <1>1 DEF KernelRight, DirIsDir, OtherIsOther
<1>5. SendsRightKind' /\ NewIsNone'
  BY <1>1 DEF KernelRight, SendsRightKind, SentKind, NewIsNone
<1> QED BY <1>2, <1>3, <1>4, <1>5 DEF KernelRight

\* Every step that does not disturb the mount leaves its kernel right, and adds no
\* race but those that there are after it.
LEMMA RightStep ==
  ASSUME NSInv, NSInv', Undisturbed, KernelRight, Unraced, [NSNext]_nsvars,
         faults' = faults, ~misled'
  PROVE  KernelRight' /\ (raced' = raced \/ NoteRaces({}))
<1>1. ASSUME NEW t \in Thread, System(t) PROVE KernelRight' /\ NoteRaces({})
  BY <1>1, SystemRight
<1>2. ASSUME NEW t \in Thread, Handler(t) \/ MongoThrows(t) \/ MemcacheFails(t), Kernel(t)
      PROVE  KernelRight' /\ NoteRaces({})
  <2>1. faults \in Nat
    BY DEF NSInv, NSTypeOK, TypeOK
  <2>2. Handler(t)
    BY <1>2, <2>1 DEF MongoThrows, MemcacheFails, Abandon, Fault
  <2> QED BY <1>2, <2>2, HandlerRight DEF Kernel
<1>3. ASSUME NEW t \in Thread, Server(t), NoteRaces({}),
             UNCHANGED <<mountOf, dentry, opened, sys, misled>>
      PROVE  KernelRight'
  BY <1>3, ServerRight
<1>4. ASSUME NEW p \in Path, Evict(p), UNCHANGED kernel PROVE KernelRight'
  BY <1>4, QuietRight DEF Evict, kernel
<1>5. ASSUME NEW m \in Mount, NEW p \in Path, Forget(m, p) PROVE KernelRight'
  <2>1. \A t \in Thread, q \in Path :
          dentry'[mountOf[t]][q] \in {dentry[mountOf[t]][q], "none"}
    BY <1>5 DEF Forget, NSInv, NSTypeOK
  <2> QED BY <1>5, <2>1, QuietRight DEF Forget, vars
<1>6. CASE UNCHANGED nsvars
  BY <1>6, QuietRight DEF nsvars, vars, kernel
<1> QED BY <1>1, <1>2, <1>3, <1>4, <1>5, <1>6 DEF NSNext, Forget, nsvars, kernel

\* At first the kernel knows of no directory that is none, and has made nothing.
LEMMA RightStart ==
  ASSUME NSInit
  PROVE  KernelRight
<1>1. PICK D \in SUBSET {p \in Path : ParentOf(p) = {}}, m \in DirMode, now \in Time :
        LET made == [v |-> 1, size |-> Empty,
                     meta |-> [mode |-> m, owner |-> DefaultOwner, time |-> now]]
        IN  /\ StartsFrom([p \in Path |-> IF p \in D THEN {made} ELSE {}], 1)
            /\ dentry \in [Mount -> {[p \in Path |-> "none"],
                                     [p \in Path |-> IF p \in D THEN "dir" ELSE "none"]}]
  BY DEF NSInit
<1> DEFINE made == [v |-> 1, size |-> Empty,
                    meta |-> [mode |-> m, owner |-> DefaultOwner, time |-> now]]
<1>2. /\ pc = [t \in Thread |-> "idle"] /\ wire = [t \in Thread |-> None]
      /\ sys = [t \in Thread |-> "none"] /\ opened = [k \in Mount |-> {}]
      /\ files = [p \in Path |-> IF p \in D THEN {made} ELSE {}]
      /\ \A t \in Thread : Op(t) = "none" /\ mountOf[t] \in Mount
  BY <1>1 DEF NSInit, StartsFrom, Op
<1>3. made \in Doc /\ made.v = 1 /\ Kind(made) = "dir"
  BY ConstantsAssumption DEF Doc, Meta, Kind
<1> HIDE DEF made
<1>4. ASSUME NEW p \in D PROVE KindOf(p) = "dir"
  <2>1. files[p] = {made}
    BY <1>2, <1>4
  <2>2. FindFile(files[p]) = made
    BY <1>3, <2>1, NewestExists
  <2> QED BY <1>3, <2>2 DEF KindOf
<1>5. WritesAwaited /\ NotOnDir /\ OnDir /\ InDir /\ MadeIsThere
  BY <1>2 DEF WritesAwaited, NotOnDir, OnDir, InDir, MadeIsThere, Creators
<1>6. OpenIsFile /\ NewIsClosed /\ SendsRightKind /\ NewIsNone
  BY <1>2 DEF OpenIsFile, NewIsClosed, LookedUp, SendsRightKind, NewIsNone, Creators
<1>7. DirIsDir /\ OtherIsOther
  <2>1. \A k \in Mount, p \in Path :
          dentry[k][p] # "other" /\ (dentry[k][p] = "dir" => p \in D)
    BY <1>1
  <2> QED BY <1>2, <1>4, <2>1 DEF DirIsDir, OtherIsOther
<1> QED BY <1>5, <1>6, <1>7 DEF KernelRight

\* With one mount, and no failure and no misleading answer of a lookup, nothing
\* races: the locks of the kernel and what it knows keep the handlers apart.
THEOREM OneMountIsRaceless == NSSpec => []KeptInv
<1>1. NSInit => KeptInv
  <2> SUFFICES ASSUME NSInit PROVE KeptInv
    OBVIOUS
  <2> QED BY RightStart DEF KeptInv, Unraced, NSInit
<1>2. NSInv /\ NSInv' /\ KeptInv /\ [NSNext]_nsvars =>
        (Undisturbed' => KernelRight' /\ (NoRace' => Unraced'))
  <2> SUFFICES ASSUME NSInv, NSInv', KeptInv, [NSNext]_nsvars, Undisturbed'
               PROVE  KernelRight' /\ (NoRace' => Unraced')
    OBVIOUS
  <2>1. Undisturbed /\ faults' = faults
    BY UndisturbedBefore DEF NSInv
  <2>2. KernelRight /\ Unraced
    BY <2>1 DEF KeptInv
  <2>3. KernelRight' /\ (raced' = raced \/ NoteRaces({}))
    BY <2>1, <2>2, RightStep DEF Undisturbed
  <2> QED BY <2>2, <2>3 DEF Unraced, NoRace, NoteRaces
<1>3. NSInv /\ Undisturbed /\ KernelRight => NoRace
  BY RightIsRaceless
<1> QED BY <1>1, <1>2, <1>3, TreeInductive, PTL DEF NSSpec, KeptInv

\* With one mount that nothing disturbs no entry loses its directory.
THEOREM OneMountKept == NSSpec => []OneMountKeepsTree
<1>1. KeptInv /\ OrphanOnlyIfRaced => OneMountKeepsTree
  BY DEF KeptInv, Undisturbed, Unraced, OrphanOnlyIfRaced, OneMountKeepsTree
<1> QED BY <1>1, OneMountIsRaceless, OrphansWereRaced, PTL

==============================================================================
