------------------------------- MODULE Cluster -------------------------------
(***************************************************************************)
(* The memcached servers of one mount and the pool of connections to them. *)
(*                                                                         *)
(* Fuse::init makes an empty list of servers, theMaster, and a pool of     *)
(* connections, each a clone of it.  Touching a file in /proc/instances    *)
(* adds a server to the master.  A handler that wants memcached takes a    *)
(* connection out of the pool, waiting for one if it must, and the key of  *)
(* the record decides which server of that connection's list it talks to.  *)
(*                                                                         *)
(* AttrCache has one cache and handlers that fail in every possible way;   *)
(* here there are several servers, and of the failures only those that     *)
(* have to do with the pool.                                               *)
(***************************************************************************)
EXTENDS Naturals, Sequences, Functions

CONSTANTS
  Handler,     \* handler invocations that can be active at the same time
  Path,        \* paths outside /proc
  Server,      \* name:port of memcached servers
  Rank,        \* Rank[p][s]: distance on the hash ring from p's key to s
  None,        \* no record, no connection, no server, a path in /proc
  Initial,     \* connections the pool begins with (100)
  Limit,       \* connections it may have (200)
  MaxCalls,    \* bound: requests in a behaviour
  MaxFaults    \* bound: failures in a behaviour

ASSUME ConstantsAssumption ==
  /\ Rank \in [Path -> [Server -> Nat]]
  /\ \A p \in Path : IsInjective(Rank[p])
  /\ None \notin Path \cup Server \cup Nat
  /\ {Initial, Limit, MaxCalls, MaxFaults} \subseteq Nat
  /\ Initial <= Limit

Conn == 1 .. Limit

VARIABLES
  master,   \* the server list of theMaster
  size,     \* connections made so far: 1 .. size
  free,     \* those in the pool
  list,     \* list[c]: the servers that connection c knows
  db,       \* db[p]: the version of p's attributes in MongoDB
  store,    \* store[s][p]: the version in the record of p on server s, or None
  pc,       \* what a handler does next, or "idle"
  call,     \* the request being handled
  conn,     \* Memcache::m of the handler
  seen,     \* the version that a getattr has read from MongoDB
  base,     \* the list that memcached_server_add extends
  calls,    \* requests so far
  faults,   \* failures so far
  \* History, read by properties only:
  late,     \* a change was made, its removal over, while the getattr was between
  tainted,  \* tainted[s][p]: that getattr's record, or one whose removal failed
  asked,    \* asked[p]: where the last removal for p went, {} before the first
  accepted, \* the servers whose touch succeeded
  raced     \* those that another touch got in the way of

cluster == <<master, size, free, list>>
history == <<late, tainted, asked, accepted, raced>>
vars == <<master, size, free, list, db, store, pc, call, conn, seen, base,
          calls, faults, late, tainted, asked, accepted, raced>>

-----------------------------------------------------------------------------
(* Servers *)

\* The consistent hash (MEMCACHED_BEHAVIOR_KETAMA): of the servers it knows, a
\* connection asks the first one on the ring after the key.
ServerOf(S, p) ==
  IF S = {} THEN None
  ELSE CHOOSE s \in S : \A u \in S : Rank[p][s] <= Rank[p][u]

\* The server that handler h talks to about its path: none without a
\* connection, and MEMCACHED_NO_SERVERS without a server.
Asked(h) ==
  IF conn[h] = None THEN None ELSE ServerOf(list[conn[h]], call[h].path)

\* What ls /proc/instances shows.
ListServers == Range(master)

-----------------------------------------------------------------------------
(* Requests *)

NoCall == [op |-> "none", path |-> None, server |-> None]

Init ==
  /\ master = <<>> /\ size = Initial /\ free = 1 .. Initial
  /\ list = [c \in Conn |-> {}]
  /\ db = [p \in Path |-> 0]
  /\ store = [s \in Server |-> [p \in Path |-> None]]
  /\ pc = [h \in Handler |-> "idle"]
  /\ call = [h \in Handler |-> NoCall]
  /\ conn = [h \in Handler |-> None]
  /\ seen = [h \in Handler |-> 0]
  /\ base = [h \in Handler |-> <<>>]
  /\ calls = 0 /\ faults = 0
  /\ late = [h \in Handler |-> FALSE]
  /\ tainted = [s \in Server |-> [p \in Path |-> FALSE]]
  /\ asked = [p \in Path |-> {}]
  /\ accepted = {}
  /\ raced = {}

Fault == faults < MaxFaults /\ faults' = faults + 1

\* Touches of s that are at work.
Touches(s) ==
  {h \in Handler : pc[h] \in {"check", "add", "added"} /\ call[h].server = s}

Begin(h, op, p, s, first) ==
  /\ pc[h] = "idle" /\ calls < MaxCalls
  /\ calls' = calls + 1
  /\ call' = [call EXCEPT ![h] = [op |-> op, path |-> p, server |-> s]]
  /\ pc' = [pc EXCEPT ![h] = first]
  /\ raced' = raced \cup {u \in {s} \ {None} : Touches(u) # {}}
  /\ UNCHANGED <<cluster, db, store, conn, seen, base, faults, late, tainted,
                 asked, accepted>>

\* (A getattr of a path in /proc takes a connection too, finds no record and
\* makes none: to the pool it is the getattr of a path that does not exist.)
Getattr(h) == \E p \in Path : Begin(h, "getattr", p, None, "pop")

\* Any handler that changes the attributes of p in MongoDB and then removes
\* the record (chmod, chown, truncate, utimens, release, unlink, rmdir).
Change(h) == \E p \in Path : Begin(h, "change", p, None, "write")

\* touch /proc/instances/<server>: the kernel finds the file (Proc::stat knows
\* every name there), opens it, and releases the handle.
Touch(h) == \E s \in Server : Begin(h, "touch", None, s, "check")

-----------------------------------------------------------------------------
(* Proc::create, called by open() *)

Goto(h, next) == pc' = [pc EXCEPT ![h] = next] /\ UNCHANGED call

\* The handler is done; its locals are gone.
Return(h) ==
  /\ pc' = [pc EXCEPT ![h] = "idle"]
  /\ call' = [call EXCEPT ![h] = NoCall]

\* Mutant of Check: the loop ends before the last server of the list.
CheckButLast(h) ==
  /\ pc[h] = "check"
  /\ IF \E i \in 1 .. Len(master) - 1 : master[i] = call[h].server
     THEN Return(h) ELSE Goto(h, "add")
  /\ UNCHANGED <<cluster, db, store, conn, seen, base, calls, faults, history>>

\* A server that is in the list is refused with ENAMETOOLONG: no handle, and so
\* no release() follows.
Check(h) ==
  /\ pc[h] = "check"
  /\ IF call[h].server \in Range(master)
     THEN Return(h) ELSE Goto(h, "add")
  /\ UNCHANGED <<cluster, db, store, conn, seen, base, calls, faults, history>>

\* memcached_server_add is not atomic: it copies the list to a larger array ...
Add(h) ==
  /\ pc[h] = "add" /\ Goto(h, "added")
  /\ base' = [base EXCEPT ![h] = master]
  /\ UNCHANGED <<cluster, db, store, conn, seen, calls, faults, history>>

\* ... and puts that in place of the list.  Of two that overlap one may be
\* lost, which is noted of the server that another handler's copy does not have.
\* (Or the process dies of it.)
Added(h) ==
  /\ pc[h] = "added" /\ Goto(h, "pop")
  /\ \E old \in {base[h], master} : master' = Append(old, call[h].server)
  /\ base' = [base EXCEPT ![h] = <<>>]
  /\ accepted' = accepted \cup {call[h].server}
  /\ raced' = raced \cup
       {s \in {call[h].server} : \E g \in Handler \ {h} : pc[g] = "added"}
  /\ UNCHANGED <<size, free, list, db, store, conn, seen, calls, faults, late,
                 tainted, asked>>

-----------------------------------------------------------------------------
(* The pool *)

\* What the handler wants the connection for.
Next1(h) == IF call[h].op = "getattr" THEN "get" ELSE "delete"

\* memcached_pool_pop, blocking: a free connection, ...
Pop(h) ==
  /\ pc[h] = "pop" /\ Goto(h, Next1(h))
  /\ \E c \in free : free' = free \ {c} /\ conn' = [conn EXCEPT ![h] = c]
  /\ UNCHANGED <<master, size, list, db, store, seen, base, calls,
                 faults, history>>

\* ... or a new clone of the master ...
Grow(h) ==
  /\ pc[h] = "pop" /\ Goto(h, Next1(h))
  /\ free = {} /\ size < Limit
  /\ size' = size + 1
  /\ list' = [list EXCEPT ![size + 1] = Range(master)]
  /\ conn' = [conn EXCEPT ![h] = size + 1]
  /\ UNCHANGED <<master, free, db, store, seen, base, calls,
                 faults, history>>

\* ... or a null pointer when it cannot be made: the return code is not read.
GrowFails(h) ==
  /\ pc[h] = "pop" /\ Goto(h, Next1(h))
  /\ free = {} /\ size < Limit
  /\ Fault
  /\ UNCHANGED <<cluster, db, store, conn, seen, base, calls, history>>

\* Memcache::~Memcache.
Push(h) ==
  /\ pc[h] = "push" /\ Return(h)
  /\ free' = free \cup ({conn[h]} \ {None})
  /\ conn' = [conn EXCEPT ![h] = None]
  /\ UNCHANGED <<master, size, list, db, store, seen, base, calls,
                 faults, history>>

-----------------------------------------------------------------------------
(* Handlers *)

\* Memcache::get in getattr.
Get(h) ==
  LET s == Asked(h) IN
    /\ pc[h] = "get"
    /\ IF s # None /\ store[s][call[h].path] # None
       THEN Goto(h, "push") ELSE Goto(h, "find")
    /\ UNCHANGED <<cluster, db, store, conn, seen, base, calls, faults, history>>

\* Mutant of Find: the record is set through a Memcache of its own.
FindAndPop(h) ==
  /\ pc[h] = "find" /\ Goto(h, "pop")
  /\ seen' = [seen EXCEPT ![h] = db[call[h].path]]
  /\ late' = [late EXCEPT ![h] = FALSE]
  /\ UNCHANGED <<cluster, db, store, conn, base, calls, faults, tainted, asked,
                 accepted, raced>>

\* The document is read while the connection is kept.
Find(h) ==
  /\ pc[h] = "find" /\ Goto(h, "set")
  /\ seen' = [seen EXCEPT ![h] = db[call[h].path]]
  /\ late' = [late EXCEPT ![h] = FALSE]
  /\ UNCHANGED <<cluster, db, store, conn, base, calls, faults, tainted, asked,
                 accepted, raced>>

\* Mutant of FindNothing: the connection is not given back.
FindNothingAndKeep(h) ==
  /\ pc[h] = "find" /\ Return(h)
  /\ UNCHANGED <<cluster, db, store, conn, seen, base, calls, faults, history>>

\* There is no document, or MongoDB throws: the scope of the Memcache ends all
\* the same.
FindNothing(h) ==
  /\ pc[h] = "find" /\ Goto(h, "push")
  /\ UNCHANGED <<cluster, db, store, conn, seen, base, calls, faults, history>>

\* Memcache::set.
Set(h) ==
  LET p == call[h].path
      s == Asked(h) IN
    /\ pc[h] = "set" /\ Goto(h, "push")
    /\ seen' = [seen EXCEPT ![h] = 0]
    /\ late' = [late EXCEPT ![h] = FALSE]
    /\ IF s = None THEN UNCHANGED <<store, tainted>>
       ELSE /\ store' = [store EXCEPT ![s][p] = seen[h]]
            /\ tainted' = [tainted EXCEPT ![s][p] = late[h]]
    /\ UNCHANGED <<cluster, db, conn, base, calls, faults, asked, accepted,
                   raced>>

\* Mutant of Write: the record is not removed.
WriteOnly(h) ==
  /\ pc[h] = "write" /\ Return(h)
  /\ db' = [db EXCEPT ![call[h].path] = @ + 1]
  /\ UNCHANGED <<cluster, store, conn, seen, base, calls, faults, history>>

\* A change is made in MongoDB.
Write(h) ==
  /\ pc[h] = "write" /\ Goto(h, "pop")
  /\ db' = [db EXCEPT ![call[h].path] = @ + 1]
  /\ UNCHANGED <<cluster, store, conn, seen, base, calls, faults, history>>

\* Memcache::remove.  Without a connection nothing is removed; in release() of
\* a handle of /proc there is nothing to remove.
Delete(h) ==
  LET p == call[h].path
      s == Asked(h) IN
    /\ pc[h] = "delete" /\ Goto(h, "push")
    /\ asked' = [q \in Path |-> IF q = p THEN {s} ELSE asked[q]]
    /\ store' = [u \in Server |-> IF p # None /\ u = s
                                  THEN [store[u] EXCEPT ![p] = None] ELSE store[u]]
    /\ tainted' = [u \in Server |-> [q \in Path |->
                     IF q # p THEN tainted[u][q]
                     ELSE u # s /\ (tainted[u][q] \/ conn[h] = None)]]
    /\ late' = [g \in Handler |->
                  late[g] \/ (p # None /\ pc[g] = "set" /\ call[g].path = p)]
    /\ UNCHANGED <<cluster, db, conn, seen, base, calls, faults, accepted, raced>>

-----------------------------------------------------------------------------
(* Specification *)

Request(h) == Getattr(h) \/ Change(h) \/ Touch(h)

Step(h) ==
  \/ Check(h) \/ Add(h) \/ Added(h)
  \/ Pop(h) \/ Grow(h) \/ GrowFails(h) \/ Push(h)
  \/ Get(h) \/ Find(h) \/ FindNothing(h) \/ Set(h) \/ Write(h) \/ Delete(h)

Next == \E h \in Handler : Request(h) \/ Step(h)

Spec == Init /\ [][Next]_vars

\* A worker thread that has begun a request goes on with it.
FairSpec == Spec /\ \A h \in Handler : WF_vars(Step(h))

-----------------------------------------------------------------------------
(* Properties *)

PC == {"idle", "check", "add", "added", "pop", "get", "find", "set", "write",
       "delete", "push"}

Call == [op: {"getattr", "change", "touch", "none"}, path: Path \cup {None},
         server: Server \cup {None}]

\* Where a handler can be, given its request.
HandlerOK(h) ==
  /\ pc[h] \in {"check", "add", "added"} => call[h].op = "touch"
  /\ call[h].op = "touch" => call[h].server # None
  /\ pc[h] \in {"get", "find", "set"} => call[h].op = "getattr"
  /\ pc[h] = "write" => call[h].op = "change"
  /\ call[h].op \in {"getattr", "change"} => call[h].path # None
  /\ pc[h] \in {"idle", "pop", "write", "check", "add", "added"} => conn[h] = None

\* Every variable has its type, and every handler is where its request can be.
TypeOK ==
  /\ master \in Seq(Server)
  /\ size \in 0 .. Limit
  /\ free \subseteq 1 .. size
  /\ list \in [Conn -> SUBSET Server]
  /\ db \in [Path -> Nat]
  /\ store \in [Server -> [Path -> Nat \cup {None}]]
  /\ pc \in [Handler -> PC]
  /\ call \in [Handler -> Call]
  /\ conn \in [Handler -> (1 .. size) \cup {None}]
  /\ seen \in [Handler -> Nat]
  /\ base \in [Handler -> Seq(Server)]
  /\ calls \in Nat
  /\ faults \in Nat
  /\ late \in [Handler -> BOOLEAN]
  /\ tainted \in [Server -> [Path -> BOOLEAN]]
  /\ asked \in [Path -> SUBSET (Server \cup {None})]
  /\ accepted \subseteq Server
  /\ raced \subseteq Server
  /\ \A h \in Handler : HandlerOK(h)

\* No connection gets lost and none is shared: each one that was made is in the
\* pool or with one handler, on every way out of every handler.  (A connection
\* is not safe for two threads, and the pool cannot make up for a lost one.)
ConnectionsConserved ==
  /\ \A c \in 1 .. size : c \in free \/ \E h \in Handler : conn[h] = c
  /\ \A h \in Handler : conn[h] \notin free
  /\ \A g, h \in Handler : conn[g] = conn[h] /\ conn[g] # None => g = h

ListedOnce(servers, s) ==
  \E i \in DOMAIN servers : \A j \in DOMAIN servers : servers[j] = s <=> j = i

\* A server is in the list, and once, after its touch succeeded, as long as no
\* other touch of it was at work by then and no other handler had just copied the
\* list to extend it; and nothing else is in the list.
TouchLostOnlyIfRaced ==
  /\ ListServers \subseteq accepted
  /\ \A s \in accepted \ raced : ListedOnce(master, s)

InvalidationDue(p) ==
  \E h \in Handler :
    call[h].op = "change" /\ call[h].path = p /\ pc[h] \in {"pop", "delete"}

\* A cluster of servers is as coherent as the one cache of AttrCache but for one
\* thing.  A record is out of date only while its removal is due, or when a fill
\* overlapped the removal or the removal had no connection (tainted) - or when
\* the removal went through a connection that asks another server than the one
\* that has the record, as connections do whose lists differ.
StaleOnlyIfElsewhere ==
  \A s \in Server, p \in Path :
    store[s][p] \notin {None, db[p]}
      => InvalidationDue(p) \/ tainted[s][p] \/ \E u \in asked[p] : u # s

\* Every request ends, although pops block: no handler waits for a second
\* connection while it keeps one, and every way out gives it back.
RequestsEnd == \A h \in Handler : pc[h] # "idle" ~> pc[h] = "idle"

-----------------------------------------------------------------------------
(* A claim of the repository that the code does not keep *)

\* README.txt: touching a file in /proc/instances "would add the memcached
\* server [...] to the cluster", and ls "may be used to show all of the
\* memcached nodes that are used": a handler that takes a connection gets one
\* that knows every server listed by then.
ListedServersAreUsed ==
  [][\A h \in Handler :
       conn[h] = None /\ conn'[h] # None => ListServers \subseteq list'[conn'[h]]]_vars

=============================================================================
