------------------------------ MODULE Namespace ------------------------------
(***************************************************************************)
(* The tree of directories, which nothing in the database keeps: a file is *)
(* a document whose name begins with the name of a directory, and it is    *)
(* the handlers' business that there is one.                               *)
(*                                                                         *)
(* The handlers are those of AttrCache that make or remove a document, and *)
(* chmod(), which writes what its kernel takes the path for, directory or  *)
(* not, into the document.  (Left out: symlink() makes what create() makes *)
(* here; chown() and utimens() write back the mode they have read, and     *)
(* truncate() writes none.)  Here they are called by kernels, one per      *)
(* mount, as system calls reach them: a kernel looks a path up before it   *)
(* acts on it, believes what it has looked up for a while, and serialises  *)
(* its own calls by locks (i_mutex).  Of other mounts it knows nothing.    *)
(* The kernel and libfuse are external: they are modelled as far as they   *)
(* restrict what reaches the handlers.                                     *)
(***************************************************************************)
EXTENDS AttrCache

CONSTANTS
  Mount    \* kernels that have the database mounted

VARIABLES
  mountOf,   \* mountOf[t]: the mount that slot t works for; never changes
  dentry,    \* dentry[m][p]: what kernel m takes p for
  opened,    \* opened[m]: the paths m has a handle of, with unwritten data
  sys,       \* sys[t]: the system call that slot t serves, or "none"
  \* History, read by properties only:
  raced,     \* paths that changed in a race of two mounts or behind a kernel
  misled     \* a kernel was told that a path is a directory, or that it is
             \* none, and it was the other way; or it changes the mode of what
             \* is not what it takes it for

\* No path is the name of its own directory, and somebody mounts the database.
ASSUME NSAssumption ==
  /\ \A p \in Path : p \notin Children[p]
  /\ Mount # {}

kernel == <<mountOf, dentry, opened, sys, raced, misled>>
nsvars == <<vars, kernel>>

ParentOf(p) == {q \in Path : p \in Children[q]}

Kind(d) ==
  IF d = None THEN "none" ELSE IF d.meta.mode \in DirMode THEN "dir" ELSE "other"

KindOf(p) == Kind(FindFile(files[p]))

-----------------------------------------------------------------------------
(* History *)

\* t and u can overlap whatever a kernel locks: they belong to two mounts, or
\* one of them is between two requests.  (It has failed and left its write on
\* the way, or it has looked up the name it is going to make.)
Apart(t, u) == mountOf[t] # mountOf[u] \/ pc[t] = "idle" \/ pc[u] = "idle"

\* t is on its way to change p.  A system call that makes p is so already when
\* it looks p up: what it decides there it does not check again.
Changing(t, p) == Mutating(t, p) \/ (sys[t] \in Creators /\ PathOf(t) = p)

\* u makes a directory of its path, or leaves it one.
MakesDir(u) == Op(u) \in {"mkdir", "chmod"} /\ call[u].arg \in DirMode

\* p is being changed from two sides, or it is from one while its parent is being
\* made into something that is no directory, or nothing, from another.
Racing(p) ==
  \E t, u \in Thread :
    /\ t # u /\ Apart(t, u) /\ Changing(t, p)
    /\ \/ Changing(u, p)
       \/ \E q \in ParentOf(p) : Mutating(u, q) /\ ~MakesDir(u)

NoteRaces(also) == raced' = raced \cup also \cup {p \in Path : Racing(p)'}

-----------------------------------------------------------------------------
(* System calls *)

\* The database has some directories already, and some kernels know of them.
NSInit ==
  /\ \E D \in SUBSET {p \in Path : ParentOf(p) = {}}, m \in DirMode, now \in Time :
       LET made == [v |-> 1, size |-> Empty,
                    meta |-> [mode |-> m, owner |-> DefaultOwner, time |-> now]]
       IN  /\ StartsFrom([p \in Path |-> IF p \in D THEN {made} ELSE {}], 1)
           /\ dentry \in [Mount -> {[p \in Path |-> "none"],
                                    [p \in Path |-> IF p \in D THEN "dir" ELSE "none"]}]
  /\ mountOf \in [Thread -> Mount]
  /\ opened = [m \in Mount |-> {}]
  /\ sys = [t \in Thread |-> "none"]
  /\ raced = {} /\ misled = FALSE

\* The kernel has walked to p: it takes every directory on the way for one.
Reached(m, p) == \A q \in ParentOf(p) : dentry[m][q] = "dir"

\* What a system call locks: the directory (None: the mount's root) whose entry it
\* makes or removes, and what it removes or changes.
Locks(op, p) ==
  (IF op \in Creators \cup Removers
   THEN IF ParentOf(p) = {} THEN {None} ELSE ParentOf(p) ELSE {})
    \cup (IF op \in Removers \cup {"chmod"} THEN {p} ELSE {})

CanLock(t, op, p) ==
  \A u \in Thread \ {t} :
    mountOf[u] = mountOf[t] /\ sys[u] # "none"
      => Locks(sys[u], PathOf(u)) \cap Locks(op, p) = {}

Enter(t, op, p) ==
  /\ sys[t] = "none" /\ Reached(mountOf[t], p) /\ CanLock(t, op, p)
  /\ sys' = [sys EXCEPT ![t] = op]
  /\ misled' = (misled \/ (op = "chmod" /\ KindOf(p) # dentry[mountOf[t]][p]))
  /\ UNCHANGED <<mountOf, dentry, opened>>

\* Any use of p begins with a lookup unless the kernel knows p already, and
\* what it knows it looks up again when that gets old.
SysStat(t, p) ==
  /\ Enter(t, "stat", p) /\ Getattr(t, p) /\ NoteRaces({})

\* open(O_CREAT) and mkdir() look the new name up first, under the lock.
SysCreate(t, p, op) ==
  /\ dentry[mountOf[t]][p] = "none"
  /\ Enter(t, op, p) /\ Getattr(t, p) /\ NoteRaces({})

\* The handler is called once the lookup has found nothing.  (By now there may
\* be something, or no parent.)
SysCreateFree(t) ==
  LET p == PathOf(t) IN
    /\ Op(t) = "getattr"
    /\ \/ sys[t] = "create" /\ Create(t, p)
       \/ sys[t] = "mkdir" /\ Mkdir(t, p)
    /\ UNCHANGED <<mountOf, dentry, opened, sys, misled>>
    /\ NoteRaces(IF \E q \in ParentOf(p) : KindOf(q) # "dir" THEN {p} ELSE {})

\* rmdir() of a directory; unlink() of anything else.  libfuse would rename a
\* file that is open here (and not yet released), which is not supported.
SysRemove(t, p, op) ==
  /\ dentry[mountOf[t]][p] = IF op = "rmdir" THEN "dir" ELSE "other"
  /\ p \notin opened[mountOf[t]]
  /\ Enter(t, op, p)
  /\ IF op = "rmdir" THEN Rmdir(t, p) ELSE Unlink(t, p)
  /\ NoteRaces(IF (KindOf(p) = "dir") # (op = "rmdir") THEN {p} \cup Children[p] ELSE {})

\* chmod() of what the kernel knows of: it keeps the type that it takes p for and
\* sends that with the permissions.  (Then libfuse calls getattr: a SysStat.)
SysChmod(t, p) ==
  LET known == dentry[mountOf[t]][p] IN
    /\ known # "none"
    /\ Enter(t, "chmod", p)
    /\ Chmod(t, p) /\ (call'[t].arg \in DirMode) = (known = "dir")
    /\ NoteRaces(IF KindOf(p) # known THEN {p} \cup Children[p] ELSE {})

\* The last close of a handle that was written to, whatever has become of the
\* path.  It needs no lookup and no lock.
SysRelease(t, p) ==
  /\ sys[t] = "none" /\ p \in opened[mountOf[t]]
  /\ \A u \in Thread : mountOf[u] = mountOf[t] /\ sys[u] = "release" => PathOf(u) # p
  /\ sys' = [sys EXCEPT ![t] = "release"]
  /\ ReleaseDirty(t, p)
  /\ UNCHANGED <<mountOf, dentry, opened, misled>>
  /\ NoteRaces(IF KindOf(p) # "other" THEN {p} ELSE {})

-----------------------------------------------------------------------------
(* Answers *)

\* What the kernel takes the path for after the answer of t's handler.
Seen(t) ==
  CASE Op(t) = "getattr" /\ reply'[t] = "ok" ->
         Kind(IF pc[t] = "get" THEN cache[PathOf(t)] ELSE doc[t])
    [] Op(t) = "getattr" /\ reply'[t] = "ENOENT" -> "none"
    [] Op(t) = "create" /\ reply'[t] = "ok" -> "other"
    [] Op(t) = "mkdir" /\ reply'[t] = "ok" -> "dir"
    [] Op(t) \in Removers /\ reply'[t] = "ok" -> "none"
    [] OTHER -> dentry[mountOf[t]][PathOf(t)]

\* The kernel's part in a step of t's handler: none until it answers, and then
\* the system call ends, unless it was the lookup of a name to be made.
Kernel(t) ==
  LET p == PathOf(t)
      m == mountOf[t]
      answered == pc'[t] = "idle"
      free == sys[t] \in Creators /\ Op(t) = "getattr" /\ reply'[t] = "ENOENT"
  IN  /\ dentry' = IF answered THEN [dentry EXCEPT ![m][p] = Seen(t)] ELSE dentry
      /\ sys' = IF answered /\ ~free THEN [sys EXCEPT ![t] = "none"] ELSE sys
      /\ opened' = IF answered /\ Op(t) = "create" /\ reply'[t] = "ok"
                   THEN [opened EXCEPT ![m] = @ \cup {p}]
                   ELSE IF answered /\ Op(t) = "store"
                   THEN [opened EXCEPT ![m] = @ \ {p}] ELSE opened
      /\ misled' = (misled \/ (answered /\ Op(t) = "getattr" /\ reply'[t] = "ok"
                                 /\ (Seen(t) = "dir") # (KindOf(p) = "dir")))
      /\ UNCHANGED mountOf
      /\ NoteRaces({})

\* A kernel forgets what it knows of a path (after a second, or for want of
\* memory).
Forget(m, p) ==
  /\ dentry[m][p] # "none"
  /\ dentry' = [dentry EXCEPT ![m][p] = "none"]
  /\ UNCHANGED <<vars, mountOf, opened, sys, raced, misled>>

-----------------------------------------------------------------------------
(* Specification *)

System(t) ==
  \/ SysCreateFree(t)
  \/ \E p \in Path :
       \/ SysStat(t, p) \/ SysChmod(t, p) \/ SysRelease(t, p)
       \/ \E op \in {"create", "mkdir"} : SysCreate(t, p, op)
       \/ \E op \in Removers : SysRemove(t, p, op)

NSNext ==
  \/ \E t \in Thread :
       \/ System(t)
       \/ (Handler(t) \/ MongoThrows(t) \/ MemcacheFails(t)) /\ Kernel(t)
       \/ /\ Server(t)
          /\ UNCHANGED <<mountOf, dentry, opened, sys, misled>>
          /\ NoteRaces({})
  \/ \E p \in Path : Evict(p) /\ UNCHANGED kernel
  \/ \E m \in Mount, p \in Path : Forget(m, p)

NSSpec == NSInit /\ [][NSNext]_nsvars

-----------------------------------------------------------------------------
(* Properties *)

NSTypeOK ==
  /\ TypeOK
  /\ mountOf \in [Thread -> Mount]
  /\ dentry \in [Mount -> [Path -> {"none", "dir", "other"}]]
  /\ opened \in [Mount -> SUBSET Path]
  /\ sys \in [Thread -> {"none", "stat", "release", "create", "mkdir", "chmod"}
                       \cup Removers]
  /\ raced \subseteq Path
  /\ misled \in BOOLEAN

Orphan(p) == KindOf(p) # "none" /\ \E q \in ParentOf(p) : KindOf(q) # "dir"

\* An entry loses its directory only in a race: the directory was being removed
\* (or made into a file) by another mount while the entry was made, or it was
\* gone when the entry was made or a handle stored, or a kernel took it for a file
\* in a chmod().  Apart from that, the listing in rmdir() is enough to keep the
\* tree.
OrphanOnlyIfRaced == \A p \in Path : Orphan(p) => p \in raced

\* With one mount the locks of its kernel close the gap between the listing and
\* the removal, and the tree can only break when a call failed half-way or
\* getattr, from a stale record or overtaken by a change, told the kernel of a
\* directory that was gone, or that what had become a directory was none, or
\* when the kernel changed the mode of what is not what it takes it for.
\* (unlink() removes what it finds, and does not list what is below it.)
OneMountKeepsTree ==
  (\A t, u \in Thread : mountOf[t] = mountOf[u]) /\ faults = 0 /\ ~misled
    => \A p \in Path : ~Orphan(p)

\* What a path is, a directory or not, changes only in a race.  (mkdir() does
\* not look for an entry of the name it makes: the kernel's lookup has to do; and
\* chmod() writes the type that the kernel believes over that of the document.)
KindChangesOnlyIfRaced ==
  [][\A p \in Path :
       KindOf(p) # KindOf(p)' /\ "none" \notin {KindOf(p), KindOf(p)'}
         => p \in raced']_nsvars

=============================================================================
