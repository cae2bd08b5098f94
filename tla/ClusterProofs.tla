----------------------------- MODULE ClusterProofs -----------------------------
(***************************************************************************)
(* For any numbers of handlers, servers and connections: the types of      *)
(* Cluster, that no connection is lost or shared, which records can be     *)
(* out of date, and which touches can be lost.                             *)
(***************************************************************************)
EXTENDS Cluster, WellFoundedInduction, TLAPS

\* A connection with a list of servers finds one of them for every key.
LEMMA ServerFound ==
  ASSUME NEW S \in SUBSET Server, NEW p \in Path
  PROVE  ServerOf(S, p) \in Server \cup {None}
<1>1. CASE S = {}
  BY <1>1 DEF ServerOf
<1>2. CASE S # {}
  <2> DEFINE T == {Rank[p][s] : s \in S}
             R == {ss \in Nat \X Nat : ss[1] < ss[2]}
  <2>1. T \subseteq Nat /\ T # {}
    BY <1>2, ConstantsAssumption
  <2>2. PICK n \in T : \A m \in T : <<m, n>> \notin R
    <3>1. IsWellFoundedOn(R, Nat)
      BY NatLessThanWellFounded DEF OpToRel
    <3> HIDE DEF T, R
    <3> QED BY <2>1, <3>1, WFMin
  <2>3. \A m \in T : n <= m
    <3> TAKE m \in T
    <3>1. m \in Nat /\ n \in Nat
      BY <2>1, <2>2
    <3>2. ~ (m < n)
      BY <2>2, <3>1
    <3> QED BY <3>1, <3>2
  <2>4. \E s \in S : \A u \in S : Rank[p][s] <= Rank[p][u]
    BY <2>2, <2>3
  <2> QED BY <1>2, <2>4 DEF ServerOf
<1> QED BY <1>1, <1>2

\* The server that a handler asks is one, if it asks any.
LEMMA AskedType ==
  ASSUME TypeOK, NEW h \in Handler, call[h].path \in Path
  PROVE  Asked(h) \in Server \cup {None}
<1>1. conn[h] # None => list[conn[h]] \in SUBSET Server
  BY ConstantsAssumption DEF TypeOK, Conn
<1> QED BY <1>1, ServerFound DEF Asked

-----------------------------------------------------------------------------
(* Types *)

\* The handlers stay where HandlerOK says if the one that moves does.
LEMMA HandlersOK ==
  ASSUME TypeOK, NEW h \in Handler, HandlerOK(h)',
         \A g \in Handler \ {h} :
           pc'[g] = pc[g] /\ call'[g] = call[g] /\ conn'[g] = conn[g]
  PROVE  \A g \in Handler : HandlerOK(g)'
<1>1. ASSUME NEW g \in Handler \ {h} PROVE HandlerOK(g)'
  <2>1. HandlerOK(g)
    BY DEF TypeOK
  <2> QED BY <2>1 DEF HandlerOK
<1> QED BY <1>1

LEMMA BeginType ==
  ASSUME TypeOK, NEW h \in Handler, NEW op, NEW p, NEW s, NEW first,
         Begin(h, op, p, s, first),
         \/ op = "getattr" /\ first = "pop" /\ p \in Path /\ s = None
         \/ op = "change" /\ first = "write" /\ p \in Path /\ s = None
         \/ op = "touch" /\ first = "check" /\ p = None /\ s \in Server
  PROVE  TypeOK'
<1>1. pc' \in [Handler -> PC] /\ pc'[h] = first
  BY DEF Begin, TypeOK, PC
<1>2. call' \in [Handler -> Call] /\ call'[h] = [op |-> op, path |-> p, server |-> s]
  BY DEF Begin, TypeOK, Call
<1>3. raced' \subseteq Server
  BY DEF Begin, TypeOK
<1>4. calls' \in Nat
  BY DEF Begin, TypeOK
<1>5. HandlerOK(h)'
  BY <1>1, <1>2, ConstantsAssumption DEF Begin, TypeOK, HandlerOK
<1>6. \A g \in Handler : HandlerOK(g)'
  BY <1>5, HandlersOK DEF Begin, TypeOK
<1> QED BY <1>1, <1>2, <1>3, <1>4, <1>6 DEF Begin, TypeOK, cluster

LEMMA RequestType ==
  ASSUME TypeOK, NEW h \in Handler, Request(h)
  PROVE  TypeOK'
<1>1. CASE Getattr(h)
  BY <1>1, BeginType DEF Getattr
<1>2. CASE Change(h)
  BY <1>2, BeginType DEF Change
<1>3. CASE Touch(h)
  BY <1>3, BeginType DEF Touch
<1> QED BY <1>1, <1>2, <1>3 DEF Request

LEMMA StepType ==
  ASSUME TypeOK, NEW h \in Handler, Step(h)
  PROVE  TypeOK'
<1> USE DEF TypeOK, HandlerOK
<1>1. CASE Check(h)
  <2>1. CASE Return(h)
    BY <1>1, <2>1 DEF Check, Return, NoCall, Call, PC, cluster, history
  <2>2. CASE Goto(h, "add")
    BY <1>1, <2>2 DEF Check, Goto, PC, cluster, history
  <2> QED BY <1>1, <2>1, <2>2 DEF Check
<1>2. CASE Add(h)
  BY <1>2 DEF Add, Goto, PC, cluster, history
<1>3. CASE Added(h)
  <2>1. call[h].server \in Server
    BY <1>3 DEF Added, Call
  <2>2. master' \in Seq(Server) /\ accepted' \in SUBSET Server /\ raced' \subseteq Server
    BY <1>3, <2>1 DEF Added
  <2>3. pc' \in [Handler -> PC] /\ base' \in [Handler -> Seq(Server)]
    BY <1>3 DEF Added, Goto, PC
  <2>4. HandlerOK(h)'
    BY <1>3 DEF Added, Goto
  <2>5. \A g \in Handler : HandlerOK(g)'
    BY <1>3, <2>4 DEF Added, Goto
  <2> QED BY <1>3, <2>2, <2>3, <2>5 DEF Added, Goto
<1>4. CASE Pop(h)
  BY <1>4 DEF Pop, Goto, PC, Call, Next1, history
<1>5. CASE Grow(h)
  <2>1. size + 1 \in Conn /\ size' \in 0 .. Limit /\ free' \subseteq 1 .. size'
    BY <1>5, ConstantsAssumption DEF Grow, Conn
  <2>2. Range(master) \in SUBSET Server
    BY DEF Range
  <2>3. /\ list' \in [Conn -> SUBSET Server]
        /\ conn' \in [Handler -> (1 .. size') \cup {None}]
    BY <1>5, <2>1, <2>2 DEF Grow
  <2>4. pc' \in [Handler -> PC] /\ pc'[h] = Next1(h)
        /\ UNCHANGED <<call, seen, base>>
    BY <1>5 DEF Grow, Goto, PC, Next1
  <2>5. HandlerOK(h)'
    BY <1>5, <2>4 DEF Grow, Next1, Call
  <2>6. \A g \in Handler : HandlerOK(g)'
    BY <1>5, <2>5 DEF Grow, Goto
  <2> QED BY <1>5, <2>1, <2>3, <2>4, <2>6 DEF Grow, history
<1>6. CASE GrowFails(h)
  BY <1>6 DEF GrowFails, Goto, PC, Call, Next1, Fault, cluster, history
<1>7. CASE Push(h)
  BY <1>7 DEF Push, Return, NoCall, PC, Call, history
<1>8. CASE Get(h)
  <2>1. HandlerOK(h)' /\ pc' \in [Handler -> PC]
    BY <1>8 DEF Get, Goto, PC, cluster
  <2>2. UNCHANGED <<cluster, db, store, call, conn, seen, base, calls, faults, history>>
    BY <1>8 DEF Get, Goto
  <2>3. \A g \in Handler : HandlerOK(g)'
    BY <1>8, <2>1, <2>2, HandlersOK DEF Get, Goto
  <2> HIDE DEF HandlerOK
  <2> QED BY <2>1, <2>2, <2>3 DEF cluster, history
<1>9. CASE Find(h)
  BY <1>9 DEF Find, Goto, PC, Call, cluster
<1>10. CASE FindNothing(h)
  BY <1>10 DEF FindNothing, Goto, PC, cluster, history
<1>11. CASE Set(h)
  <2>1. call[h].path \in Path /\ Asked(h) \in Server \cup {None}
    BY <1>11, AskedType DEF Set, Call
  <2> DEFINE p == call[h].path
             s == Asked(h)
  <2>2. /\ store' \in [Server -> [Path -> Nat \cup {None}]]
        /\ tainted' \in [Server -> [Path -> BOOLEAN]]
    <3>1. CASE s = None
      BY <1>11, <3>1 DEF Set
    <3>2. CASE s \in Server
      <4>1. s # None /\ seen[h] \in Nat /\ late[h] \in BOOLEAN
        BY <3>2, ConstantsAssumption
      <4>2. /\ store' = [store EXCEPT ![s][p] = seen[h]]
            /\ tainted' = [tainted EXCEPT ![s][p] = late[h]]
        BY <1>11, <4>1 DEF Set
      <4> HIDE DEF s, p
      <4> QED BY <2>1, <3>2, <4>1, <4>2
    <3> QED BY <2>1, <3>1, <3>2
  <2>4. /\ pc' \in [Handler -> PC] /\ seen' \in [Handler -> Nat]
        /\ \A g \in Handler : HandlerOK(g)'
    BY <1>11 DEF Set, Goto, PC, cluster
  <2>5. late' \in [Handler -> BOOLEAN]
    BY <1>11, Zenon DEF Set
  <2> QED BY <1>11, <2>2, <2>4, <2>5 DEF Set, Goto, cluster
<1>12. CASE Write(h)
  BY <1>12 DEF Write, Goto, PC, Call, cluster, history
<1>13. CASE Delete(h)
  <2>1. call[h].path \in Path => Asked(h) \in Server \cup {None}
    BY AskedType
  <2>2. asked' \in [Path -> SUBSET (Server \cup {None})]
    BY <1>13, <2>1 DEF Delete
  <2>3. store' \in [Server -> [Path -> Nat \cup {None}]]
    BY <1>13 DEF Delete, Call
  <2>4. tainted' \in [Server -> [Path -> BOOLEAN]] /\ late' \in [Handler -> BOOLEAN]
    BY <1>13, Zenon DEF Delete
  <2>5. pc' \in [Handler -> PC] /\ \A g \in Handler : HandlerOK(g)'
    BY <1>13 DEF Delete, Goto, PC, cluster
  <2> QED BY <1>13, <2>2, <2>3, <2>4, <2>5 DEF Delete, Goto, cluster
<1> QED
  BY <1>1, <1>2, <1>3, <1>4, <1>5, <1>6, <1>7, <1>8, <1>9, <1>10, <1>11,
     <1>12, <1>13 DEF Step

\* Cluster keeps its types: no handler uses a connection that it does not have.
THEOREM TypeCorrect == Spec => []TypeOK
<1>1. Init => TypeOK
  <2> SUFFICES ASSUME Init PROVE TypeOK
    OBVIOUS
  <2>1. size \in 0 .. Limit /\ free \subseteq 1 .. size
    BY ConstantsAssumption DEF Init
  <2>2. master \in Seq(Server) /\ base \in [Handler -> Seq(Server)]
    BY DEF Init
  <2>3. list \in [Conn -> SUBSET Server] /\ call \in [Handler -> Call]
    BY DEF Init, NoCall, Call
  <2>4. /\ db \in [Path -> Nat] /\ store \in [Server -> [Path -> Nat \cup {None}]]
        /\ seen \in [Handler -> Nat] /\ asked \in [Path -> SUBSET (Server \cup {None})]
    BY DEF Init
  <2>5. \A h \in Handler : HandlerOK(h)
    BY DEF Init, HandlerOK, NoCall
  <2> QED BY <2>1, <2>2, <2>3, <2>4, <2>5 DEF Init, TypeOK, PC
<1>2. TypeOK /\ [Next]_vars => TypeOK'
  <2> SUFFICES ASSUME TypeOK, [Next]_vars PROVE TypeOK'
    OBVIOUS
  <2>1. CASE Next
    BY <2>1, RequestType, StepType DEF Next
  <2>2. CASE UNCHANGED vars
    BY <2>2 DEF vars, TypeOK, HandlerOK
  <2> QED BY <2>1, <2>2
<1> QED BY <1>1, <1>2, PTL DEF Spec

-----------------------------------------------------------------------------
(* Connections *)

\* Steps that leave the pool and the handlers' connections alone.
LEMMA NoneMoves ==
  ASSUME ConnectionsConserved, UNCHANGED <<size, free, conn>>
  PROVE  ConnectionsConserved'
BY DEF ConnectionsConserved

\* A pop takes a connection from the pool, or makes one that nobody has.
LEMMA PopConserves ==
  ASSUME TypeOK, ConnectionsConserved, NEW h \in Handler, Pop(h) \/ Grow(h)
  PROVE  ConnectionsConserved'
<1>1. conn[h] = None /\ None \notin Nat
  BY ConstantsAssumption DEF TypeOK, HandlerOK, Pop, Grow
<1>2. CASE Pop(h)
  <2>1. PICK c \in free : free' = free \ {c} /\ conn' = [conn EXCEPT ![h] = c]
    BY <1>2 DEF Pop
  <2>2. size' = size
    BY <1>2 DEF Pop
  <2> QED BY <1>1, <2>1, <2>2 DEF TypeOK, ConnectionsConserved
<1>3. CASE Grow(h)
  <2>1. /\ size' = size + 1 /\ free = {} /\ free' = {}
        /\ conn' = [conn EXCEPT ![h] = size + 1]
    BY <1>3 DEF Grow
  <2>2. size \in Nat /\ size + 1 \notin 1 .. size
    BY ConstantsAssumption DEF TypeOK
  <2>3. \A g \in Handler : conn[g] # size + 1
    <3> TAKE g \in Handler
    <3>1. conn[g] \in (1 .. size) \cup {None}
      BY DEF TypeOK
    <3>2. size + 1 \in Nat
      BY <2>2
    <3> QED BY <1>1, <2>2, <3>1, <3>2
  <2>4. 1 .. size + 1 = (1 .. size) \cup {size + 1}
    BY <2>2
  <2>5. conn'[h] = size + 1 /\ \A g \in Handler \ {h} : conn'[g] = conn[g]
    BY <2>1 DEF TypeOK
  <2>6. \A c \in 1 .. size : \E g \in Handler \ {h} : conn[g] = c
    <3> TAKE c \in 1 .. size
    <3>1. PICK g \in Handler : conn[g] = c
      BY <2>1 DEF ConnectionsConserved
    <3>2. c \in Nat
      BY <2>2
    <3> QED BY <1>1, <3>1, <3>2
  <2>7. \A c \in 1 .. size' : \E g \in Handler : conn'[g] = c
    BY <2>1, <2>4, <2>5, <2>6
  <2>8. \A f, g \in Handler : conn'[f] = conn'[g] /\ conn'[g] # None => f = g
    BY <2>3, <2>5 DEF ConnectionsConserved
  <2> QED BY <2>1, <2>7, <2>8 DEF ConnectionsConserved
<1> QED BY <1>2, <1>3

\* What is pushed is the handler's own.
LEMMA PushConserves ==
  ASSUME TypeOK, ConnectionsConserved, NEW h \in Handler, Push(h)
  PROVE  ConnectionsConserved'
<1>1. /\ free' = free \cup ({conn[h]} \ {None})
      /\ conn' = [conn EXCEPT ![h] = None] /\ size' = size
  BY DEF Push
<1>2. None \notin free
  <2>1. free \subseteq Nat
    BY ConstantsAssumption DEF TypeOK
  <2> QED BY <2>1, ConstantsAssumption
<1> QED BY <1>1, <1>2 DEF TypeOK, ConnectionsConserved

LEMMA StepConserves ==
  ASSUME TypeOK, ConnectionsConserved, NEW h \in Handler, Step(h)
  PROVE  ConnectionsConserved'
<1>1. CASE Pop(h) \/ Grow(h)
  BY <1>1, PopConserves
<1>2. CASE Push(h)
  BY <1>2, PushConserves
<1>3. CASE UNCHANGED <<size, free, conn>>
  BY <1>3, NoneMoves
<1> QED
  BY <1>1, <1>2, <1>3
  DEF Step, Check, Add, Added, GrowFails, Get, Find, FindNothing, Set, Write,
      Delete, cluster

\* For every number of handlers and every limit of the pool: no connection gets
\* lost and none is shared (memcached_pool_pop and ~Memcache).
THEOREM NoConnectionLost == Spec => []ConnectionsConserved
<1>1. Init => ConnectionsConserved
  BY ConstantsAssumption DEF Init, ConnectionsConserved
<1>2. TypeOK /\ ConnectionsConserved /\ [Next]_vars => ConnectionsConserved'
  <2> SUFFICES ASSUME TypeOK, ConnectionsConserved, [Next]_vars
               PROVE  ConnectionsConserved'
    OBVIOUS
  <2>1. ASSUME NEW h \in Handler, Request(h) PROVE ConnectionsConserved'
    BY <2>1, NoneMoves DEF Request, Getattr, Change, Touch, Begin, cluster
  <2>2. CASE UNCHANGED vars
    BY <2>2, NoneMoves DEF vars
  <2> QED BY <2>1, <2>2, StepConserves DEF Next
<1> QED BY <1>1, <1>2, TypeCorrect, PTL DEF Spec

-----------------------------------------------------------------------------
(* Records *)

\* What holds of a fill on its way, as StaleOnlyIfElsewhere does of a record.
FillAccounted(h) ==
  pc[h] = "set" => \/ seen[h] = db[call[h].path]
                   \/ late[h]
                   \/ InvalidationDue(call[h].path)

\* The inductive invariant: a record can only be as good as the fill that made
\* it, so both are needed.
CoherenceInv == StaleOnlyIfElsewhere /\ \A h \in Handler : FillAccounted(h)

\* Until Memcache::remove has been called, the removal is still due.
LEMMA DueKept ==
  ASSUME TypeOK, NEW h \in Handler, Request(h) \/ Step(h), ~ Delete(h), NEW p,
         InvalidationDue(p)
  PROVE  InvalidationDue(p)'
<1>1. PICK g \in Handler :
        call[g].op = "change" /\ call[g].path = p /\ pc[g] \in {"pop", "delete"}
  BY DEF InvalidationDue
<1> SUFFICES call'[g] = call[g] /\ pc'[g] \in {"pop", "delete"}
  BY <1>1 DEF InvalidationDue
<1>2. CASE g # h
  BY <1>1, <1>2
  DEF TypeOK, Request, Getattr, Change, Touch, Begin, Step, Check, Add, Added,
      Pop, Grow, GrowFails, Push, Get, Find, FindNothing, Set, Write, Goto, Return
<1>3. CASE g = h
  <2>1. Pop(h) \/ Grow(h) \/ GrowFails(h)
    BY <1>1, <1>3
    DEF Request, Getattr, Change, Touch, Begin, Step, Check, Add, Added, Push,
        Get, Find, FindNothing, Set, Write
  <2>2. Goto(h, "delete")
    BY <1>1, <1>3, <2>1 DEF Pop, Grow, GrowFails, Next1
  <2> QED BY <1>3, <2>2 DEF Goto, TypeOK
<1> QED BY <1>2, <1>3

\* A step that changes neither attributes nor records keeps the invariant.
LEMMA QuietKeeps ==
  ASSUME TypeOK, CoherenceInv, UNCHANGED <<db, store, tainted, asked>>,
         \A p \in Path : InvalidationDue(p) => InvalidationDue(p)',
         \A g \in Handler : pc'[g] = "set" =>
           /\ call'[g] = call[g] /\ call[g].path \in Path
           /\ \/ pc[g] = "set" /\ seen'[g] = seen[g] /\ late'[g] = late[g]
              \/ seen'[g] = db[call[g].path]
  PROVE  CoherenceInv'
<1>1. StaleOnlyIfElsewhere'
  BY DEF CoherenceInv, StaleOnlyIfElsewhere
<1>2. ASSUME NEW g \in Handler PROVE FillAccounted(g)'
  BY <1>2 DEF CoherenceInv, FillAccounted
<1> QED BY <1>1, <1>2 DEF CoherenceInv

\* Memcache::set puts a record in the place of the fill.
LEMMA SetKeeps ==
  ASSUME TypeOK, CoherenceInv, NEW h \in Handler, Set(h)
  PROVE  CoherenceInv'
<1> DEFINE p == call[h].path
           s == Asked(h)
<1>1. /\ p \in Path /\ s \in Server \cup {None} /\ pc[h] = "set"
      /\ pc' = [pc EXCEPT ![h] = "push"] /\ UNCHANGED <<call, db, asked>>
  BY AskedType DEF Set, Goto, TypeOK, HandlerOK, Call
<1>2. \A q \in Path : InvalidationDue(q) => InvalidationDue(q)'
  BY <1>1, DueKept DEF Step, Set, Delete
<1>3. ASSUME NEW g \in Handler PROVE FillAccounted(g)'
  <2>1. CASE g = h
    BY <1>1, <2>1 DEF FillAccounted, TypeOK
  <2>2. CASE g # h
    <3>1. pc'[g] = pc[g] /\ seen'[g] = seen[g] /\ late'[g] = late[g]
      BY <1>1, <2>2 DEF Set, TypeOK
    <3>2. pc[g] = "set" => call[g].path \in Path
      BY DEF TypeOK, HandlerOK, Call
    <3> QED BY <1>1, <1>2, <3>1, <3>2 DEF FillAccounted, CoherenceInv
  <2> QED BY <2>1, <2>2
<1>4. StaleOnlyIfElsewhere'
  <2>1. CASE s = None
    BY <1>1, <1>2, <2>1 DEF Set, CoherenceInv, StaleOnlyIfElsewhere
  <2>2. CASE s \in Server
    <3>1. s # None
      BY <2>2, ConstantsAssumption
    <3>2. /\ store' = [store EXCEPT ![s][p] = seen[h]]
          /\ tainted' = [tainted EXCEPT ![s][p] = late[h]]
      BY <3>1 DEF Set
    <3> SUFFICES ASSUME NEW u \in Server, NEW q \in Path,
                        store'[u][q] \notin {None, db[q]}
                 PROVE  InvalidationDue(q)' \/ tainted'[u][q] \/ \E v \in asked[q] : v # u
      BY <1>1 DEF StaleOnlyIfElsewhere
    <3> HIDE DEF s, p
    <3>3. CASE u = s /\ q = p
      <4>1. store'[u][q] = seen[h] /\ tainted'[u][q] = late[h]
        BY <2>2, <3>2, <3>3, <1>1 DEF TypeOK
      <4> QED BY <1>1, <1>2, <3>3, <4>1 DEF CoherenceInv, FillAccounted, p
    <3>4. CASE ~ (u = s /\ q = p)
      <4>1. store'[u][q] = store[u][q] /\ tainted'[u][q] = tainted[u][q]
        BY <2>2, <3>2, <3>4, <1>1 DEF TypeOK
      <4> QED BY <1>2, <4>1 DEF CoherenceInv, StaleOnlyIfElsewhere
    <3> QED BY <3>3, <3>4
  <2> QED BY <1>1, <2>1, <2>2
<1> QED BY <1>3, <1>4 DEF CoherenceInv

\* A change makes its own removal due.
LEMMA WriteKeeps ==
  ASSUME TypeOK, CoherenceInv, NEW h \in Handler, Write(h)
  PROVE  CoherenceInv'
<1>1. call[h].path \in Path /\ call[h].op = "change"
  BY DEF Write, TypeOK, HandlerOK, Call
<1>2. PICK p \in Path : p = call[h].path
  BY <1>1
<1>3. /\ pc[h] = "write" /\ pc' = [pc EXCEPT ![h] = "pop"]
      /\ UNCHANGED <<call, store, tainted, asked, seen, late>>
  BY DEF Write, Goto, history
<1>4. \A q \in Path : InvalidationDue(q) => InvalidationDue(q)'
  BY <1>3, DueKept DEF Step, Write, Delete
<1>5. InvalidationDue(p)'
  BY <1>1, <1>2, <1>3 DEF InvalidationDue, TypeOK
<1>6. \A q \in Path : q # p => db'[q] = db[q]
  BY <1>2 DEF Write, TypeOK
<1>7. ASSUME NEW g \in Handler PROVE FillAccounted(g)'
  <2>1. pc'[g] = "set" => pc[g] = "set" /\ call[g].path \in Path
    BY <1>3 DEF TypeOK, HandlerOK, Call
  <2> QED BY <1>3, <1>4, <1>5, <1>6, <2>1 DEF FillAccounted, CoherenceInv
<1>8. StaleOnlyIfElsewhere'
  <2> SUFFICES ASSUME NEW s \in Server, NEW q \in Path,
                      store'[s][q] \notin {None, db'[q]}
               PROVE  InvalidationDue(q)' \/ tainted'[s][q] \/ \E v \in asked'[q] : v # s
    BY DEF StaleOnlyIfElsewhere
  <2>1. CASE q = p
    BY <1>5, <2>1
  <2>2. CASE q # p
    BY <1>3, <1>4, <1>6, <2>2 DEF StaleOnlyIfElsewhere, CoherenceInv
  <2> QED BY <2>1, <2>2
<1> QED BY <1>7, <1>8 DEF CoherenceInv

\* Memcache::remove leaves no record of the path on the server that it asked,
\* and marks the fills of the path that are on their way.
LEMMA DeleteKeeps ==
  ASSUME TypeOK, CoherenceInv, NEW h \in Handler, Delete(h)
  PROVE  CoherenceInv'
<1> DEFINE p == call[h].path
           s == Asked(h)
<1>1. /\ p \in Path \cup {None} /\ None \notin Path
      /\ pc[h] = "delete" /\ pc' = [pc EXCEPT ![h] = "push"]
      /\ UNCHANGED <<call, db, seen>>
  BY ConstantsAssumption DEF Delete, Goto, TypeOK, HandlerOK, Call
<1>2. \A q \in Path : q # p /\ InvalidationDue(q) => InvalidationDue(q)'
  BY <1>1 DEF InvalidationDue, TypeOK
<1>3. ASSUME NEW g \in Handler PROVE FillAccounted(g)'
  <2>1. late'[g] = (late[g] \/ (p # None /\ pc[g] = "set" /\ call[g].path = p))
    BY DEF Delete
  <2>2. pc'[g] = "set" => pc[g] = "set" /\ call[g].path \in Path
    BY <1>1 DEF TypeOK, HandlerOK, Call
  <2> QED BY <1>1, <1>2, <2>1, <2>2 DEF FillAccounted, CoherenceInv
<1>4. ASSUME NEW u \in Server, NEW q \in Path,
             store'[u][q] \notin {None, db'[q]}
      PROVE  InvalidationDue(q)' \/ tainted'[u][q] \/ \E v \in asked'[q] : v # u
  <2>1. CASE q # p
    <3>1. /\ store'[u][q] = store[u][q] /\ tainted'[u][q] = tainted[u][q]
          /\ asked'[q] = asked[q]
      BY <2>1 DEF Delete, TypeOK
    <3> QED BY <1>1, <1>2, <1>4, <2>1, <3>1 DEF CoherenceInv, StaleOnlyIfElsewhere
  <2>2. CASE q = p
    <3>1. asked'[q] = {s}
      BY <2>2 DEF Delete
    <3>2. CASE u = s
      <4>1. store'[u][q] = None
        BY <1>1, <2>2, <3>2 DEF Delete, TypeOK
      <4> QED BY <1>4, <4>1
    <3> QED BY <3>1, <3>2
  <2> QED BY <2>1, <2>2
<1> QED BY <1>3, <1>4 DEF CoherenceInv, StaleOnlyIfElsewhere

LEMMA CoherenceStep ==
  ASSUME TypeOK, CoherenceInv, NEW h \in Handler, Request(h) \/ Step(h)
  PROVE  CoherenceInv'
<1>1. CASE Set(h)
  BY <1>1, SetKeeps
<1>2. CASE Write(h)
  BY <1>2, WriteKeeps
<1>3. CASE Delete(h)
  BY <1>3, DeleteKeeps
<1>4. CASE Find(h)
  <2>1. \A p \in Path : InvalidationDue(p) => InvalidationDue(p)'
    BY <1>4, DueKept DEF Step, Find, Delete
  <2>2. \A g \in Handler : pc'[g] = "set" =>
          /\ call'[g] = call[g] /\ call[g].path \in Path
          /\ \/ pc[g] = "set" /\ seen'[g] = seen[g] /\ late'[g] = late[g]
             \/ seen'[g] = db[call[g].path]
    BY <1>4 DEF Find, Goto, TypeOK, HandlerOK, Call
  <2> QED BY <1>4, <2>1, <2>2, QuietKeeps DEF Find
<1>5. CASE ~ (Set(h) \/ Write(h) \/ Delete(h) \/ Find(h))
  <2>1. \A p \in Path : InvalidationDue(p) => InvalidationDue(p)'
    BY <1>5, DueKept
  <2>2. UNCHANGED <<db, store, tainted, asked, seen, late>>
    BY <1>5
    DEF Request, Getattr, Change, Touch, Begin, Step, Check, Add, Added, Pop,
        Grow, GrowFails, Push, Get, FindNothing, history
  <2>3. \A g \in Handler : pc'[g] = "set" => pc[g] = "set" /\ call'[g] = call[g]
    BY <1>5
    DEF Request, Getattr, Change, Touch, Begin, Step, Check, Add, Added, Pop,
        Grow, GrowFails, Push, Get, FindNothing, Goto, Return, Next1, TypeOK
  <2>4. \A g \in Handler : pc[g] = "set" => call[g].path \in Path
    BY DEF TypeOK, HandlerOK, Call
  <2> QED BY <2>1, <2>2, <2>3, <2>4, QuietKeeps
<1> QED BY <1>1, <1>2, <1>3, <1>4, <1>5

\* For every number of handlers, servers and connections: a record is out of date
\* only for the reasons that StaleOnlyIfElsewhere names.
THEOREM ClusterCoherence == Spec => []StaleOnlyIfElsewhere
<1>1. Init => CoherenceInv
  BY DEF Init, CoherenceInv, StaleOnlyIfElsewhere, FillAccounted
<1>2. TypeOK /\ CoherenceInv /\ [Next]_vars => CoherenceInv'
  <2> SUFFICES ASSUME TypeOK, CoherenceInv, [Next]_vars PROVE CoherenceInv'
    OBVIOUS
  <2>1. CASE UNCHANGED vars
    BY <2>1
    DEF vars, CoherenceInv, StaleOnlyIfElsewhere, FillAccounted, InvalidationDue
  <2> QED BY <2>1, CoherenceStep DEF Next
<1>3. CoherenceInv => StaleOnlyIfElsewhere
  BY DEF CoherenceInv
<1> QED BY <1>1, <1>2, <1>3, TypeCorrect, PTL DEF Spec

-----------------------------------------------------------------------------
(* Touches *)

Touching == {"check", "add", "added"}

\* What is in the list, and in the copies that handlers extend, was accepted; a
\* server that nothing got in the way of has one touch at work at most, which has it
\* still to be added, or else is in all of them, once.
Undisturbed(s) ==
  /\ \A g, h \in Handler :
       /\ pc[g] \in Touching /\ call[g].server = s
       /\ pc[h] \in Touching /\ call[h].server = s
       => g = h
  /\ \A h \in Handler :
       pc[h] \in {"add", "added"} /\ call[h].server = s => s \notin accepted
  /\ s \in accepted =>
       /\ ListedOnce(master, s)
       /\ \A h \in Handler : pc[h] = "added" => ListedOnce(base[h], s)

OnlyAccepted ==
  /\ Range(master) \subseteq accepted
  /\ \A h \in Handler : pc[h] = "added" => Range(base[h]) \subseteq accepted

TouchInv == OnlyAccepted /\ \A s \in Server \ raced : Undisturbed(s)

\* A server that is appended to a list that does not have it is in it once.
LEMMA AppendNew ==
  ASSUME NEW q \in Seq(Server), NEW t \in Server, t \notin Range(q)
  PROVE  ListedOnce(Append(q, t), t)
<1>1. PICK r : r = Append(q, t)
  OBVIOUS
<1>2. /\ DOMAIN q = 1 .. Len(q) /\ Len(q) \in Nat
      /\ DOMAIN r = 1 .. Len(q) + 1
      /\ \A i \in 1 .. Len(q) : r[i] = q[i]
      /\ r[Len(q) + 1] = t
  BY <1>1
<1>3. \A i \in 1 .. Len(q) : q[i] # t
  BY <1>2 DEF Range
<1>4. \A j \in 1 .. Len(q) + 1 : r[j] = t <=> j = Len(q) + 1
  BY <1>2, <1>3
<1>5. Len(q) + 1 \in DOMAIN r
  BY <1>2
<1>6. \A j \in DOMAIN r : r[j] = t <=> j = Len(q) + 1
  BY <1>2, <1>4
<1>7. ListedOnce(r, t)
  BY <1>5, <1>6 DEF ListedOnce
<1> QED BY <1>1, <1>7

\* The others stay in it once.
LEMMA AppendOther ==
  ASSUME NEW q \in Seq(Server), NEW t \in Server, NEW s \in Server, s # t,
         ListedOnce(q, s)
  PROVE  ListedOnce(Append(q, t), s)
<1>1. PICK r : r = Append(q, t)
  OBVIOUS
<1>2. /\ DOMAIN q = 1 .. Len(q) /\ Len(q) \in Nat
      /\ DOMAIN r = 1 .. Len(q) + 1
      /\ \A i \in 1 .. Len(q) : r[i] = q[i]
      /\ r[Len(q) + 1] = t
  BY <1>1
<1>3. PICK i \in DOMAIN q : \A j \in DOMAIN q : q[j] = s <=> j = i
  BY DEF ListedOnce
<1>4. \A j \in 1 .. Len(q) + 1 : r[j] = s <=> j = i
  BY <1>2, <1>3
<1>5. ListedOnce(r, s)
  BY <1>2, <1>3, <1>4 DEF ListedOnce
<1> QED BY <1>1, <1>5

LEMMA AppendRange ==
  ASSUME NEW q \in Seq(Server), NEW t \in Server
  PROVE  Range(Append(q, t)) \subseteq Range(q) \cup {t}
BY DEF Range

LEMMA OnceInRange ==
  ASSUME NEW q, NEW s, ListedOnce(q, s)
  PROVE  s \in Range(q)
BY DEF ListedOnce, Range

LEMMA TouchStep ==
  ASSUME TypeOK, TouchInv, NEW h \in Handler, Request(h) \/ Step(h)
  PROVE  TouchInv'
<1>1. CASE Touch(h)
  <2>1. PICK t \in Server : Begin(h, "touch", None, t, "check")
    BY <1>1 DEF Touch
  <2>2. /\ \A g \in Handler \ {h} : pc'[g] = pc[g] /\ call'[g] = call[g]
        /\ pc'[h] = "check" /\ call'[h].server = t
        /\ UNCHANGED <<master, accepted, base>>
        /\ raced \subseteq raced' /\ (Touches(t) # {} => t \in raced')
    BY <2>1, ConstantsAssumption DEF Begin, cluster, TypeOK
  <2>3. ASSUME NEW s \in Server \ raced' PROVE Undisturbed(s)'
    <3>1. Undisturbed(s) /\ (s = t => Touches(s) = {})
      BY <2>2, <2>3 DEF TouchInv
    <3> QED BY <2>2, <3>1 DEF Undisturbed, Touches, Touching
  <2> QED BY <2>2, <2>3 DEF TouchInv, OnlyAccepted
<1>2. CASE Check(h)
  <2>1. /\ UNCHANGED <<master, accepted, base, raced>> /\ pc[h] = "check"
        /\ \A g \in Handler \ {h} : pc'[g] = pc[g] /\ call'[g] = call[g]
    BY <1>2 DEF Check, Goto, Return, cluster, history, TypeOK
  <2>2. \/ pc'[h] = "idle"
        \/ /\ pc'[h] = "add" /\ call'[h] = call[h]
           /\ call[h].server \notin Range(master)
    BY <1>2 DEF Check, Goto, Return, TypeOK
  <2>3. ASSUME NEW s \in Server \ raced PROVE Undisturbed(s)'
    <3>1. Undisturbed(s) /\ (s \in accepted => s \in Range(master))
      BY <2>3, OnceInRange DEF TouchInv, Undisturbed
    <3> QED BY <2>1, <2>2, <3>1 DEF Undisturbed, Touching
  <2> QED BY <2>1, <2>2, <2>3 DEF TouchInv, OnlyAccepted
<1>3. CASE Add(h)
  <2>1. /\ UNCHANGED <<master, accepted, call, raced>>
        /\ pc[h] = "add" /\ pc'[h] = "added" /\ base'[h] = master
        /\ \A g \in Handler \ {h} : pc'[g] = pc[g] /\ base'[g] = base[g]
    BY <1>3 DEF Add, Goto, cluster, history, TypeOK
  <2>2. \A s \in Server \ raced : Undisturbed(s)'
    BY <2>1 DEF TouchInv, Undisturbed, Touching
  <2> QED BY <2>1, <2>2 DEF TouchInv, OnlyAccepted
<1>4. CASE Added(h)
  <2> DEFINE t == call[h].server
  <2>1. /\ pc[h] = "added" /\ pc'[h] = "pop" /\ call' = call
        /\ \A g \in Handler \ {h} : pc'[g] = pc[g] /\ base'[g] = base[g]
        /\ accepted' = accepted \cup {t} /\ raced \subseteq raced'
        /\ (\E g \in Handler \ {h} : pc[g] = "added") => t \in raced'
    BY <1>4 DEF Added, Goto, TypeOK
  <2>2. PICK old \in {base[h], master} : master' = Append(old, t)
    BY <1>4 DEF Added
  <2>3. t \in Server /\ old \in Seq(Server)
    BY <2>1 DEF TypeOK, HandlerOK, Call
  <2>4. OnlyAccepted'
    <3>1. Range(old) \subseteq accepted
      BY <2>1 DEF TouchInv, OnlyAccepted
    <3>2. Range(master') \subseteq accepted'
      BY <2>1, <2>2, <2>3, <3>1, AppendRange
    <3> QED BY <2>1, <3>2 DEF TouchInv, OnlyAccepted
  <2>5. ASSUME NEW s \in Server \ raced' PROVE Undisturbed(s)'
    <3>1. Undisturbed(s)
      BY <2>1, <2>5 DEF TouchInv
    <3>2. CASE s = t
      <4>1. s \notin Range(old)
        BY <2>1, <3>1, <3>2 DEF TouchInv, OnlyAccepted, Undisturbed
      <4>2. ListedOnce(master', s)
        <5>1. t \notin Range(old)
          BY <3>2, <4>1
        <5> HIDE DEF t
        <5>2. ListedOnce(Append(old, t), t)
          BY <2>3, <5>1, AppendNew
        <5> QED BY <2>2, <3>2, <5>2
      <4>3. \A g \in Handler \ {h} : pc[g] # "added"
        BY <2>1, <2>5, <3>2
      <4>4. \A g \in Handler : pc'[g] \in Touching => call'[g].server # s
        BY <2>1, <3>1, <3>2 DEF Undisturbed, Touching
      <4> QED BY <2>1, <4>2, <4>3, <4>4 DEF Undisturbed, Touching
    <3>3. CASE s # t
      <4>1. s \in accepted' => ListedOnce(master', s)
        <5>1. s \in accepted => ListedOnce(old, s)
          BY <2>1, <3>1 DEF Undisturbed
        <5>2. s \in accepted => ListedOnce(Append(old, t), s)
          BY <2>3, <3>3, <5>1, AppendOther
        <5> QED BY <2>1, <2>2, <3>3, <5>2
      <4> QED BY <2>1, <3>1, <3>3, <4>1 DEF Undisturbed, Touching
    <3> QED BY <3>2, <3>3
  <2> QED BY <2>4, <2>5 DEF TouchInv
<1>5. CASE ~ (Touch(h) \/ Check(h) \/ Add(h) \/ Added(h))
  <2>1. UNCHANGED <<master, accepted, base>> /\ raced \subseteq raced'
    BY <1>5
    DEF Request, Getattr, Change, Begin, Step, Pop, Grow, GrowFails, Push, Get,
        Find, FindNothing, Set, Write, Delete, cluster, history
  <2>2. \A g \in Handler : pc'[g] \in Touching =>
          pc[g] \in Touching /\ UNCHANGED pc[g] /\ UNCHANGED call[g]
    BY <1>5
    DEF Request, Getattr, Change, Begin, Step, Pop, Grow, GrowFails, Push, Get,
        Find, FindNothing, Set, Write, Delete, Goto, Return, Next1, TypeOK, Touching
  <2>3. \A s \in Server \ raced' : Undisturbed(s)'
    BY <2>1, <2>2 DEF TouchInv, Undisturbed, Touching
  <2> QED BY <2>1, <2>2, <2>3 DEF TouchInv, OnlyAccepted, Touching
<1> QED BY <1>1, <1>2, <1>3, <1>4, <1>5

\* For every number of handlers, servers and connections: a server whose touch
\* succeeded is in the list, once, unless another touch of it was at work then or
\* another handler had just copied the list to extend it (Proc::create).
THEOREM TouchesListed == Spec => []TouchLostOnlyIfRaced
<1>1. Init => TouchInv
  BY DEF Init, TouchInv, OnlyAccepted, Undisturbed, Touching, Range
<1>2. TypeOK /\ TouchInv /\ [Next]_vars => TouchInv'
  <2> SUFFICES ASSUME TypeOK, TouchInv, [Next]_vars PROVE TouchInv'
    OBVIOUS
  <2>1. CASE UNCHANGED vars
    BY <2>1 DEF vars, TouchInv, OnlyAccepted, Undisturbed
  <2> QED BY <2>1, TouchStep DEF Next
<1>3. TypeOK /\ TouchInv => TouchLostOnlyIfRaced
  BY DEF TypeOK, TouchInv, OnlyAccepted, Undisturbed, TouchLostOnlyIfRaced, ListServers
<1> QED BY <1>1, <1>2, <1>3, TypeCorrect, PTL DEF Spec

=============================================================================
