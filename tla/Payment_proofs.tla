--------------------------- MODULE Payment_proofs ---------------------------
(***************************************************************************)
(* The order locks, for any number of nodes, requests and failures, and    *)
(* the credit of an order on a gateway of one node.                        *)
(***************************************************************************)
EXTENDS Payment, FiniteSetTheorems, TLAPS

LockType ==
    /\ entry \in [Nodes -> Mutexes \cup {NoMutex}]
    /\ refCount \in [Nodes -> [Mutexes -> Nat]]
    /\ locked \in [Nodes -> [Mutexes -> BOOLEAN]]

HandlerType ==
    /\ pc \in [Handlers -> Steps]
    /\ node \in [Handlers -> Nodes]
    /\ op \in [Handlers -> Requests]
    /\ rcm \in [Handlers -> Mutexes \cup {NoMutex}]

-----------------------------------------------------------------------------
(* The order locks *)

\* A handler between LockOrder and UnlockOrder, and one that holds the mutex.
Involved(h) == pc[h] \notin {"idle", "lock"} /\ ~LockFree(op[h])
Critical(h) == pc[h] \in {"check", "read", "write", "credit", "unlock"} /\ ~LockFree(op[h])

\* The handlers of node n that work with mutex m.
Users(n, m) == {h \in Handlers : node[h] = n /\ rcm[h] = m}

\* A handler has a mutex exactly between LockOrder and UnlockOrder.
HasMutex == \A h \in Handlers : rcm[h] # NoMutex <=> Involved(h)

\* It is the one orderLocks has for the order, which has one only then.
Entries ==
    /\ \A h \in Handlers : rcm[h] # NoMutex => entry[node[h]] = rcm[h]
    /\ \A n \in Nodes : entry[n] # NoMutex => \E h \in Handlers : node[h] = n /\ rcm[h] # NoMutex

\* The count is that of its users.
Counts == \A n \in Nodes, m \in Mutexes : refCount[n][m] = Cardinality(Users(n, m))

\* Who holds it, holds it alone.
Exclusion ==
    /\ \A h \in Handlers : Critical(h) => locked[node[h]][rcm[h]]
    /\ \A g, h \in Handlers : Critical(g) /\ Critical(h) /\ node[g] = node[h] => g = h

\* Requests that take no lock are never at a step of one.
Unlocked == \A h \in Handlers : LockFree(op[h]) => pc[h] \in {"idle", "read", "write"}

LockInv == LockType /\ HandlerType /\ HasMutex /\ Entries /\ Counts /\ Exclusion /\ Unlocked

\* The counts are numbers of elements of finite sets.
LEMMA UsersFinite ==
  \A n, m : IsFiniteSet(Users(n, m)) /\ Cardinality(Users(n, m)) \in Nat
<1> TAKE n, m
<1>1. Users(n, m) \subseteq Handlers
  BY DEF Users
<1> QED
  BY <1>1, FS_Subset, FS_CardinalityType, PaymentAssumption

\* At the start there are no locks.
LEMMA LockInit == Init => LockInv
<1> SUFFICES ASSUME Init PROVE LockInv
  OBVIOUS
<1>1. LockType
  BY DEF Init, LockType
<1>2. HandlerType
  BY DEF Init, HandlerType, Steps, Requests
<1>3. HasMutex /\ Exclusion /\ Unlocked
  BY DEF Init, HasMutex, Involved, Exclusion, Critical, Unlocked
<1>4. Entries
  BY DEF Init, Entries
<1>5. ASSUME NEW n \in Nodes, NEW m \in Mutexes PROVE refCount[n][m] = Cardinality(Users(n, m))
  <2>1. Users(n, m) = {}
    BY PaymentAssumption DEF Init, Users, Mutexes
  <2> QED
    BY <2>1, FS_EmptySet DEF Init
<1> QED
  BY <1>1, <1>2, <1>3, <1>4, <1>5 DEF LockInv, Counts

\* The type of the locks and the handlers.
LEMMA LockTypeStep ==
  ASSUME LockInv, [Next]_vars
  PROVE  LockType' /\ HandlerType'
<1> USE DEF LockInv, LockType, HandlerType
<1>1. CASE UNCHANGED vars
  BY <1>1 DEF vars, locks, who
<1>2. CASE Pay \/ Close
  BY <1>2 DEF Pay, Close, locks, who
<1>3. ASSUME NEW h \in Handlers, NEW n \in Nodes, NEW o \in Requests, Arrive(h, n, o)
      PROVE  LockType' /\ HandlerType'
  BY <1>3 DEF Arrive, locks, Steps
<1>4. ASSUME NEW h \in Handlers, Check(h) \/ Read(h) \/ Write(h) \/ Credit(h)
      PROVE  LockType' /\ HandlerType'
  BY <1>4 DEF Check, Read, Write, Credit, finish, locks, who, Steps
<1>5. ASSUME NEW h \in Handlers, LockOrder(h) PROVE LockType' /\ HandlerType'
  <2>1. PICK m \in IF entry[node[h]] # NoMutex THEN {entry[node[h]]} ELSE Fresh(node[h]) :
          /\ entry' = [entry EXCEPT ![node[h]] = m]
          /\ refCount' = [refCount EXCEPT ![node[h]][m] = @ + 1]
          /\ rcm' = [rcm EXCEPT ![h] = m]
    BY <1>5 DEF LockOrder
  <2>2. node[h] \in Nodes /\ m \in Mutexes
    BY <2>1 DEF Fresh
  <2> QED
    BY <1>5, <2>1, <2>2 DEF LockOrder, who, Steps
<1>6. ASSUME NEW h \in Handlers, LockMutex(h) PROVE LockType' /\ HandlerType'
  <2>1. pc' \in [Handlers -> Steps]
    BY <1>6 DEF LockMutex, Steps
  <2>2. locked' \in [Nodes -> [Mutexes -> BOOLEAN]]
    BY <1>6 DEF LockMutex
  <2> QED
    BY <1>6, <2>1, <2>2 DEF LockMutex, who
<1>7. ASSUME NEW h \in Handlers, UnlockMutex(h) PROVE LockType' /\ HandlerType'
  <2>1. pc' \in [Handlers -> Steps]
    BY <1>7 DEF UnlockMutex, Steps
  <2>2. locked' \in [Nodes -> [Mutexes -> BOOLEAN]]
    BY <1>7 DEF UnlockMutex
  <2>3. entry[node[h]] \in Mutexes \cup {NoMutex}
    OBVIOUS
  <2> QED
    BY <1>7, <2>1, <2>2, <2>3 DEF UnlockMutex, who
<1>8. ASSUME NEW h \in Handlers, UnlockOrder(h) PROVE LockType' /\ HandlerType'
  <2>1. rcm[h] # NoMutex /\ rcm[h] \in Mutexes
    BY <1>8 DEF UnlockOrder, HasMutex, Involved, Unlocked
  <2>2. refCount[node[h]][rcm[h]] - 1 \in Nat
    <3>1. h \in Users(node[h], rcm[h])
      BY DEF Users
    <3>2. Cardinality(Users(node[h], rcm[h])) # 0
      BY <3>1, UsersFinite, FS_EmptySet
    <3> QED
      BY <2>1, <3>2, UsersFinite DEF Counts
  <2>3. refCount' \in [Nodes -> [Mutexes -> Nat]]
    BY <1>8, <2>2 DEF UnlockOrder
  <2>4. entry' \in [Nodes -> Mutexes \cup {NoMutex}]
    BY <1>8 DEF UnlockOrder
  <2> QED
    BY <1>8, <2>3, <2>4 DEF UnlockOrder, who, Steps
<1>9. ASSUME NEW n \in Nodes, Crash(n) PROVE LockType' /\ HandlerType'
  BY <1>9 DEF Crash, who, Steps
<1> QED
  BY <1>1, <1>2, <1>3, <1>4, <1>5, <1>6, <1>7, <1>8, <1>9 DEF Next, Serve

\* The steps of a handler on the order itself: the locks stay, and a handler
\* that holds the mutex goes on holding it.
LEMMA InnerStep ==
  ASSUME LockInv, NEW h \in Handlers, Check(h) \/ Read(h) \/ Write(h) \/ Credit(h)
  PROVE  /\ UNCHANGED <<method, entry, refCount, locked, node, op, rcm>>
         /\ pc[h] \in {"check", "read", "write", "credit"}
         /\ \A g \in Handlers : g # h => pc'[g] = pc[g]
         /\ IF LockFree(op[h]) THEN pc'[h] \in {"idle", "read", "write"}
            ELSE pc'[h] \in {"check", "read", "write", "credit", "unlock"}
<1> USE DEF LockInv, HandlerType
<1>1. UNCHANGED <<method, entry, refCount, locked, node, op, rcm>>
  BY DEF Check, Read, Write, Credit, locks, who
<1>2. pc[h] \in {"check", "read", "write", "credit"}
  BY DEF Check, Read, Write, Credit
<1>3. \A g \in Handlers : g # h => pc'[g] = pc[g]
  BY DEF Check, Read, Write, Credit, finish
<1>4. pc'[h] \in {"read", "write", "credit", IF LockFree(op[h]) THEN "idle" ELSE "unlock"}
  BY DEF Check, Read, Write, Credit, finish
<1>5. pc'[h] = "credit" => ~LockFree(op[h])
  BY DEF Check, Read, Write, Credit, finish, TwoSteps, LockFree
<1> QED
  BY <1>1, <1>2, <1>3, <1>4, <1>5

\* What LockOrder does: the handler becomes a user of the order's mutex.
LEMMA LockOrderStep ==
  ASSUME LockInv, NEW h \in Handlers, LockOrder(h)
  PROVE  \E m \in Mutexes :
           /\ entry[node[h]] \in {m, NoMutex}
           /\ entry[node[h]] = NoMutex => m \in Fresh(node[h])
           /\ entry' = [entry EXCEPT ![node[h]] = m]
           /\ refCount' = [refCount EXCEPT ![node[h]][m] = @ + 1]
           /\ rcm' = [rcm EXCEPT ![h] = m]
<1>1. node[h] \in Nodes
  BY DEF LockInv, HandlerType
<1>2. entry[node[h]] \in Mutexes \cup {NoMutex}
  BY <1>1 DEF LockInv, LockType
<1>3. PICK m \in IF entry[node[h]] # NoMutex THEN {entry[node[h]]} ELSE Fresh(node[h]) :
        /\ entry' = [entry EXCEPT ![node[h]] = m]
        /\ refCount' = [refCount EXCEPT ![node[h]][m] = @ + 1]
        /\ rcm' = [rcm EXCEPT ![h] = m]
  BY DEF LockOrder
<1>4. m \in Mutexes
  BY <1>2, <1>3 DEF Fresh
<1> QED
  BY <1>3, <1>4

\* A handler that works with a mutex works with the one of its node.
LEMMA MutexOf ==
  ASSUME LockInv, NEW h \in Handlers, pc[h] \in {"wait", "unlock", "release"}
  PROVE  /\ ~LockFree(op[h])
         /\ node[h] \in Nodes /\ rcm[h] \in Mutexes /\ rcm[h] # NoMutex
         /\ entry[node[h]] = rcm[h]
<1>1. ~LockFree(op[h])
  BY DEF LockInv, Unlocked
<1>2. rcm[h] # NoMutex
  BY <1>1 DEF LockInv, HasMutex, Involved
<1> QED
  BY <1>1, <1>2 DEF LockInv, Entries, HandlerType

\* HasMutex and Unlocked: one handler moves, or those of a node that crashes.
LEMMA HasMutexStep ==
  ASSUME LockInv, [Next]_vars, HandlerType'
  PROVE  HasMutex' /\ Unlocked'
<1> USE DEF LockInv, HandlerType, HasMutex, Unlocked, Involved, LockFree
<1>1. CASE UNCHANGED vars
  BY <1>1 DEF vars, who
<1>2. CASE Pay \/ Close
  BY <1>2 DEF Pay, Close, who
<1>3. ASSUME NEW h \in Handlers, NEW n \in Nodes, NEW o \in Requests, Arrive(h, n, o)
      PROVE  HasMutex' /\ Unlocked'
  BY <1>3 DEF Arrive
<1>4. ASSUME NEW h \in Handlers, Check(h) \/ Read(h) \/ Write(h) \/ Credit(h)
      PROVE  HasMutex' /\ Unlocked'
  BY <1>4, InnerStep
<1>5. ASSUME NEW h \in Handlers, LockOrder(h) PROVE HasMutex' /\ Unlocked'
  <2>1. PICK m \in Mutexes : rcm' = [rcm EXCEPT ![h] = m]
    BY <1>5, LockOrderStep
  <2>2. m # NoMutex
    BY PaymentAssumption DEF Mutexes
  <2> QED
    BY <1>5, <2>1, <2>2 DEF LockOrder, who
<1>6. ASSUME NEW h \in Handlers, LockMutex(h) PROVE HasMutex' /\ Unlocked'
  BY <1>6 DEF LockMutex, who
<1>7. ASSUME NEW h \in Handlers, UnlockMutex(h) PROVE HasMutex' /\ Unlocked'
  <2>1. entry[node[h]] = rcm[h] /\ rcm[h] # NoMutex /\ pc[h] = "unlock"
    BY <1>7, MutexOf DEF UnlockMutex
  <2>2. pc' = [pc EXCEPT ![h] = "release"] /\ rcm' = rcm
    BY <1>7, <2>1 DEF UnlockMutex
  <2> QED
    BY <1>7, <2>1, <2>2 DEF UnlockMutex, who
<1>8. ASSUME NEW h \in Handlers, UnlockOrder(h) PROVE HasMutex' /\ Unlocked'
  BY <1>8 DEF UnlockOrder, who
<1>9. ASSUME NEW n \in Nodes, Crash(n) PROVE HasMutex' /\ Unlocked'
  BY <1>9 DEF Crash, who
<1> QED
  BY <1>1, <1>2, <1>3, <1>4, <1>5, <1>6, <1>7, <1>8, <1>9 DEF Next, Serve

\* A step that changes neither the locks nor who uses them.
LEMMA CountsFrame ==
  ASSUME LockInv, UNCHANGED refCount,
         \A n \in Nodes, m \in Mutexes : Users(n, m)' = Users(n, m)
  PROVE  Counts'
BY DEF LockInv, Counts

\* The count follows the users.
LEMMA CountsStep ==
  ASSUME LockInv, [Next]_vars, HandlerType'
  PROVE  Counts'
<1> USE DEF LockInv, HandlerType
<1>1. CASE UNCHANGED vars
  BY <1>1, CountsFrame DEF vars, locks, who, Users
<1>2. CASE Pay \/ Close
  BY <1>2, CountsFrame DEF Pay, Close, locks, who, Users
<1>3. ASSUME NEW h \in Handlers, NEW n \in Nodes, NEW o \in Requests, Arrive(h, n, o)
      PROVE  Counts'
  <2>1. rcm[h] = NoMutex /\ NoMutex \notin Mutexes
    BY <1>3, PaymentAssumption DEF Arrive, HasMutex, Involved, Mutexes
  <2>2. \A k \in Nodes, m \in Mutexes : Users(k, m)' = Users(k, m)
    BY <1>3, <2>1 DEF Arrive, Users
  <2> QED
    BY <1>3, <2>2, CountsFrame DEF Arrive, locks
<1>4. ASSUME NEW h \in Handlers, Check(h) \/ Read(h) \/ Write(h) \/ Credit(h)
      PROVE  Counts'
  BY <1>4, InnerStep, CountsFrame DEF Users
<1>5. ASSUME NEW h \in Handlers, LockOrder(h) PROVE Counts'
  <2>1. PICK m \in Mutexes :
          /\ refCount' = [refCount EXCEPT ![node[h]][m] = @ + 1]
          /\ rcm' = [rcm EXCEPT ![h] = m]
    BY <1>5, LockOrderStep
  <2>2. rcm[h] = NoMutex /\ NoMutex \notin Mutexes /\ node' = node /\ node[h] \in Nodes
    BY <1>5, PaymentAssumption DEF LockOrder, who, HasMutex, Involved, Mutexes
  <2>3. ASSUME NEW n \in Nodes, NEW k \in Mutexes
        PROVE  refCount'[n][k] = Cardinality(Users(n, k)')
    <3>1. CASE n = node[h] /\ k = m
      <4>1. Users(n, k)' = Users(n, k) \cup {h} /\ h \notin Users(n, k)
        BY <2>1, <2>2, <3>1 DEF Users
      <4>2. Cardinality(Users(n, k)') = Cardinality(Users(n, k)) + 1
        BY <4>1, UsersFinite, FS_AddElement
      <4> QED
        BY <2>1, <3>1, <4>2 DEF Counts, LockType
    <3>2. CASE ~(n = node[h] /\ k = m)
      <4>1. Users(n, k)' = Users(n, k)
        BY <2>1, <2>2, <3>2 DEF Users
      <4>2. refCount'[n][k] = refCount[n][k]
        BY <2>1, <3>2 DEF LockType
      <4> QED
        BY <4>1, <4>2 DEF Counts
    <3> QED
      BY <3>1, <3>2
  <2> QED
    BY <2>3 DEF Counts
<1>6. ASSUME NEW h \in Handlers, LockMutex(h) PROVE Counts'
  BY <1>6, CountsFrame DEF LockMutex, who, Users
<1>7. ASSUME NEW h \in Handlers, UnlockMutex(h) PROVE Counts'
  <2>1. rcm' = rcm
    BY <1>7, MutexOf DEF UnlockMutex
  <2> QED
    BY <1>7, <2>1, CountsFrame DEF UnlockMutex, who, Users
<1>8. ASSUME NEW h \in Handlers, UnlockOrder(h) PROVE Counts'
  <2>1. /\ rcm[h] \in Mutexes /\ node[h] \in Nodes /\ node' = node
        /\ rcm' = [rcm EXCEPT ![h] = NoMutex] /\ NoMutex \notin Mutexes
        /\ refCount' = [refCount EXCEPT ![node[h]][rcm[h]] = @ - 1]
    BY <1>8, MutexOf, PaymentAssumption DEF UnlockOrder, who, Mutexes
  <2>2. ASSUME NEW n \in Nodes, NEW k \in Mutexes
        PROVE  refCount'[n][k] = Cardinality(Users(n, k)')
    <3>1. CASE n = node[h] /\ k = rcm[h]
      <4>1. Users(n, k)' = Users(n, k) \ {h} /\ h \in Users(n, k)
        BY <2>1, <3>1 DEF Users
      <4>2. Cardinality(Users(n, k)') = Cardinality(Users(n, k)) - 1
        BY <4>1, UsersFinite, FS_RemoveElement
      <4> QED
        BY <2>1, <3>1, <4>2 DEF Counts, LockType
    <3>2. CASE ~(n = node[h] /\ k = rcm[h])
      <4>1. Users(n, k)' = Users(n, k)
        BY <2>1, <3>2 DEF Users
      <4>2. refCount'[n][k] = refCount[n][k]
        BY <2>1, <3>2 DEF LockType
      <4> QED
        BY <4>1, <4>2 DEF Counts
    <3> QED
      BY <3>1, <3>2
  <2> QED
    BY <2>2 DEF Counts
<1>9. ASSUME NEW n \in Nodes, Crash(n) PROVE Counts'
  <2>1. NoMutex \notin Mutexes
    BY PaymentAssumption DEF Mutexes
  <2>2. ASSUME NEW k \in Nodes, NEW m \in Mutexes
        PROVE  refCount'[k][m] = Cardinality(Users(k, m)')
    <3>1. CASE k = n
      <4>1. Users(k, m)' = {}
        BY <1>9, <2>1, <3>1 DEF Crash, who, Users
      <4> QED
        BY <1>9, <3>1, <4>1, FS_EmptySet DEF Crash, LockType
    <3>2. CASE k # n
      <4>1. Users(k, m)' = Users(k, m)
        BY <1>9, <3>2 DEF Crash, who, Users
      <4> QED
        BY <1>9, <3>2, <4>1 DEF Crash, Counts, LockType
    <3> QED
      BY <3>1, <3>2
  <2> QED
    BY <2>2 DEF Counts
<1> QED
  BY <1>1, <1>2, <1>3, <1>4, <1>5, <1>6, <1>7, <1>8, <1>9 DEF Next, Serve

\* An entry goes with its last user, and no user ever has another mutex.
LEMMA EntriesStep ==
  ASSUME LockInv, [Next]_vars, HandlerType'
  PROVE  Entries'
<1> USE DEF LockInv, HandlerType, LockType, Entries
<1>1. CASE UNCHANGED vars
  BY <1>1 DEF vars, locks, who
<1>2. CASE Pay \/ Close
  BY <1>2 DEF Pay, Close, locks, who
<1>3. ASSUME NEW h \in Handlers, NEW n \in Nodes, NEW o \in Requests, Arrive(h, n, o)
      PROVE  Entries'
  <2>1. rcm[h] = NoMutex
    BY <1>3 DEF Arrive, HasMutex, Involved
  <2> QED
    BY <1>3, <2>1 DEF Arrive, locks
<1>4. ASSUME NEW h \in Handlers, Check(h) \/ Read(h) \/ Write(h) \/ Credit(h)
      PROVE  Entries'
  BY <1>4, InnerStep
<1>5. ASSUME NEW h \in Handlers, LockOrder(h) PROVE Entries'
  <2>1. PICK m \in Mutexes :
          /\ entry[node[h]] \in {m, NoMutex}
          /\ entry' = [entry EXCEPT ![node[h]] = m]
          /\ rcm' = [rcm EXCEPT ![h] = m]
    BY <1>5, LockOrderStep
  <2>2. m # NoMutex /\ node' = node
    BY <1>5, PaymentAssumption DEF LockOrder, who, Mutexes
  <2>3. ASSUME NEW g \in Handlers, rcm'[g] # NoMutex PROVE entry'[node'[g]] = rcm'[g]
    BY <2>1, <2>2, <2>3
  <2>4. ASSUME NEW n \in Nodes, entry'[n] # NoMutex
        PROVE  \E g \in Handlers : node'[g] = n /\ rcm'[g] # NoMutex
    <3>1. CASE n = node[h]
      BY <2>1, <2>2, <3>1
    <3>2. CASE n # node[h]
      BY <2>1, <2>2, <2>4, <3>2
    <3> QED
      BY <3>1, <3>2
  <2> QED
    BY <2>3, <2>4
<1>6. ASSUME NEW h \in Handlers, LockMutex(h) PROVE Entries'
  BY <1>6 DEF LockMutex, who
<1>7. ASSUME NEW h \in Handlers, UnlockMutex(h) PROVE Entries'
  <2>1. rcm' = rcm
    BY <1>7, MutexOf DEF UnlockMutex
  <2> QED
    BY <1>7, <2>1 DEF UnlockMutex, who
<1>8. ASSUME NEW h \in Handlers, UnlockOrder(h) PROVE Entries'
  <2> DEFINE n == node[h]
             m == rcm[h]
  <2>1. /\ m \in Mutexes /\ m # NoMutex /\ n \in Nodes /\ node' = node /\ entry[n] = m
        /\ rcm' = [rcm EXCEPT ![h] = NoMutex]
        /\ entry' = [entry EXCEPT ![n] = IF refCount[n][m] = 1 THEN NoMutex ELSE @]
    BY <1>8, MutexOf DEF UnlockOrder, who
  <2>2. h \in Users(n, m) /\ refCount[n][m] = Cardinality(Users(n, m))
    BY <2>1 DEF Users, Counts
  <2>3. CASE refCount[n][m] = 1
    <3>1. \E x : Users(n, m) = {x}
      <4>1. Cardinality(Users(n, m)) = 1 /\ IsFiniteSet(Users(n, m))
        BY <2>2, <2>3, UsersFinite
      <4> HIDE DEF n, m
      <4> QED
        BY <4>1, FS_Singleton
    <3>2. \A g \in Handlers : g # h /\ node[g] = n => rcm[g] = NoMutex
      BY <2>1, <2>2, <3>1 DEF Users
    <3> QED
      BY <2>1, <2>3, <3>2
  <2>4. CASE refCount[n][m] # 1
    <3>1. Users(n, m) # {h}
      BY <2>2, <2>4, FS_Singleton
    <3>2. PICK g \in Handlers : g # h /\ node[g] = n /\ rcm[g] = m
      BY <2>2, <3>1 DEF Users
    <3>3. entry' = entry
      BY <2>1, <2>4
    <3> QED
      BY <2>1, <3>2, <3>3
  <2> QED
    BY <2>3, <2>4
<1>9. ASSUME NEW n \in Nodes, Crash(n) PROVE Entries'
  BY <1>9 DEF Crash, who
<1> QED
  BY <1>1, <1>2, <1>3, <1>4, <1>5, <1>6, <1>7, <1>8, <1>9 DEF Next, Serve

\* A step after which nobody new holds the mutex and who held it still does.
LEMMA ExclusionFrame ==
  ASSUME LockInv,
         \A g \in Handlers : Critical(g)' =>
            /\ Critical(g) /\ node'[g] = node[g]
            /\ locked'[node'[g]][rcm'[g]] = locked[node[g]][rcm[g]]
  PROVE  Exclusion'
BY DEF LockInv, Exclusion

\* The mutex is handed from one handler of a node to another.
LEMMA ExclusionStep ==
  ASSUME LockInv, [Next]_vars, HandlerType'
  PROVE  Exclusion'
<1> USE DEF LockInv, HandlerType, LockType
<1>1. CASE UNCHANGED vars
  BY <1>1, ExclusionFrame DEF vars, locks, who, Critical, LockFree
<1>2. CASE Pay \/ Close
  BY <1>2, ExclusionFrame DEF Pay, Close, locks, who, Critical, LockFree
<1>3. ASSUME NEW h \in Handlers, NEW n \in Nodes, NEW o \in Requests, Arrive(h, n, o)
      PROVE  Exclusion'
  BY <1>3, ExclusionFrame DEF Arrive, locks, Critical, LockFree
<1>4. ASSUME NEW h \in Handlers, Check(h) \/ Read(h) \/ Write(h) \/ Credit(h)
      PROVE  Exclusion'
  <2>1. \A g \in Handlers : Critical(g)' => Critical(g)
    BY <1>4, InnerStep DEF Critical, LockFree
  <2> QED
    BY <1>4, <2>1, InnerStep, ExclusionFrame
<1>5. ASSUME NEW h \in Handlers, LockOrder(h) PROVE Exclusion'
  <2>1. PICK m \in Mutexes : rcm' = [rcm EXCEPT ![h] = m]
    BY <1>5, LockOrderStep
  <2> QED
    BY <1>5, <2>1, ExclusionFrame DEF LockOrder, who, Critical, LockFree
<1>6. ASSUME NEW h \in Handlers, LockMutex(h) PROVE Exclusion'
  <2>1. /\ pc[h] = "wait" /\ ~locked[node[h]][rcm[h]] /\ UNCHANGED <<method, node, op, rcm>>
        /\ locked' = [locked EXCEPT ![node[h]][rcm[h]] = TRUE]
        /\ \A g \in Handlers : g # h => pc'[g] = pc[g]
    BY <1>6 DEF LockMutex, who
  <2>2. entry[node[h]] = rcm[h] /\ rcm[h] \in Mutexes /\ node[h] \in Nodes
    BY <2>1, MutexOf
  <2>3. ASSUME NEW g \in Handlers, Critical(g) PROVE node[g] # node[h]
    <3>1. rcm[g] # NoMutex
      BY <2>3 DEF HasMutex, Involved, Critical
    <3>2. entry[node[g]] = rcm[g]
      BY <3>1 DEF Entries
    <3> QED
      BY <2>1, <2>2, <2>3, <3>2 DEF Exclusion
  <2>4. \A g \in Handlers : g # h /\ Critical(g)' => Critical(g)
    BY <2>1 DEF Critical, LockFree
  <2>5. \A g \in Handlers : Critical(g)' => locked'[node'[g]][rcm'[g]]
    BY <2>1, <2>2, <2>3, <2>4 DEF Exclusion
  <2>6. \A f, g \in Handlers : Critical(f)' /\ Critical(g)' /\ node'[f] = node'[g] => f = g
    BY <2>1, <2>3, <2>4 DEF Exclusion
  <2> QED
    BY <2>5, <2>6 DEF Exclusion
<1>7. ASSUME NEW h \in Handlers, UnlockMutex(h) PROVE Exclusion'
  <2>1. /\ pc[h] = "unlock" /\ ~LockFree(op[h]) /\ node[h] \in Nodes
        /\ entry[node[h]] = rcm[h] /\ rcm[h] \in Mutexes /\ rcm[h] # NoMutex
    BY <1>7, MutexOf DEF UnlockMutex
  <2>2. /\ pc' = [pc EXCEPT ![h] = "release"] /\ UNCHANGED <<method, node, op, rcm>>
        /\ locked' = [locked EXCEPT ![node[h]][rcm[h]] = FALSE]
    BY <1>7, <2>1 DEF UnlockMutex, who
  <2>3. Critical(h)
    BY <2>1 DEF Critical
  <2>4. \A g \in Handlers : Critical(g)' => Critical(g) /\ g # h
    BY <2>2 DEF Critical, LockFree
  <2>5. \A g \in Handlers : Critical(g)' => node[g] # node[h]
    BY <2>3, <2>4 DEF Exclusion
  <2> QED
    BY <2>2, <2>4, <2>5, ExclusionFrame
<1>8. ASSUME NEW h \in Handlers, UnlockOrder(h) PROVE Exclusion'
  BY <1>8, ExclusionFrame DEF UnlockOrder, who, Critical, LockFree
<1>9. ASSUME NEW n \in Nodes, Crash(n) PROVE Exclusion'
  BY <1>9, ExclusionFrame DEF Crash, who, Critical, LockFree
<1> QED
  BY <1>1, <1>2, <1>3, <1>4, <1>5, <1>6, <1>7, <1>8, <1>9 DEF Next, Serve

\* The invariant of the locks is inductive.
LEMMA LockInvariant == Spec => []LockInv
<1>1. LockInv /\ [Next]_vars => LockInv'
  BY LockTypeStep, HasMutexStep, CountsStep, EntriesStep, ExclusionStep DEF LockInv
<1> QED
  BY <1>1, LockInit, PTL DEF Spec

\* On every node orderLocks has an entry for the order exactly while a request
\* uses its mutex, and all of them use the same (LockOrder, UnlockOrder).
THEOREM LocksExact == Spec => []LocksAreExact
<1>1. LockInv => LocksAreExact
  <2> SUFFICES ASSUME LockInv, NEW n \in Nodes
               PROVE  /\ entry[n] # NoMutex <=> \E h \in Handlers : node[h] = n /\ rcm[h] # NoMutex
                      /\ \A h \in Handlers : node[h] = n /\ rcm[h] # NoMutex => rcm[h] = entry[n]
    BY DEF LocksAreExact
  <2> QED
    BY DEF LockInv, Entries
<1> QED
  BY <1>1, LockInvariant, PTL

\* No two requests on a node are between lock and unlock of the order at once.
MutualExclusion ==
    \A g, h \in Handlers : Critical(g) /\ Critical(h) /\ node[g] = node[h] => g = h

\* The order lock is a lock: whatever requests come and fail, and however often
\* its mutex is deleted from the map and made again.
THEOREM OrderLockExcludes == Spec => []MutualExclusion
<1>1. LockInv => MutualExclusion
  BY DEF LockInv, Exclusion, MutualExclusion
<1> QED
  BY <1>1, LockInvariant, PTL

-----------------------------------------------------------------------------
(* The credit *)

OrderType ==
    /\ method \in Methods
    /\ status \in {"pending", "success", "failed", "expired"}
    /\ credits \in Nat

\* Requests for an order that is not a code.
NoRedeem == \A h \in Handlers : pc[h] # "idle" => op[h] # "redeem"

\* Who is about to credit the order has found it not credited, and it stays so
\* until he does: a credited order is not pending, and the others wait.
NotYet ==
    /\ status = "pending" => credits = 0
    /\ \A h \in Handlers : pc[h] = "write" /\ op[h] # "close" => credits = 0
    /\ \A h \in Handlers : pc[h] = "credit" =>
         credits = 0 /\ op[h] # "close" /\ status # "pending"

CreditInv == OrderType /\ NoRedeem /\ NotYet /\ CreditedOnce

\* Whoever credits the order does so alone.
LEMMA CreditStep ==
  ASSUME \A m, n \in Nodes : m = n, "code" \notin Methods,
         LockInv, CreditInv, [Next]_vars
  PROVE  CreditInv'
<1> USE DEF CreditInv, OrderType, LockInv, HandlerType
<1>1. CASE UNCHANGED vars
  BY <1>1 DEF vars, row, who, NoRedeem, NotYet, CreditedOnce
<1>2. CASE Pay \/ Close
  BY <1>2 DEF Pay, Close, row, who, NoRedeem, NotYet, CreditedOnce
<1>3. ASSUME NEW h \in Handlers, NEW n \in Nodes, NEW o \in Requests, Arrive(h, n, o)
      PROVE  CreditInv'
  BY <1>3 DEF Arrive, MayArrive, row, NoRedeem, NotYet, CreditedOnce
<1>4. ASSUME NEW h \in Handlers, Check(h) \/ Read(h) PROVE CreditInv'
  <2>1. /\ UNCHANGED <<method, status, credits, op>> /\ pc[h] \in {"check", "read"}
        /\ \A g \in Handlers : g # h => pc'[g] = pc[g]
        /\ pc'[h] \in {"read", "write", "unlock", "idle"}
        /\ pc'[h] = "write" => status = "pending" \/ op[h] = "close"
    BY <1>4 DEF Check, Read, finish, row, who
  <2> QED
    BY <2>1 DEF NoRedeem, NotYet, CreditedOnce
<1>5. ASSUME NEW h \in Handlers, Write(h) \/ Credit(h) PROVE CreditInv'
  <2>1. /\ UNCHANGED <<method, op>> /\ pc[h] \in {"write", "credit"}
        /\ \A g \in Handlers : g # h => pc'[g] = pc[g]
        /\ pc'[h] \in {"credit", "unlock", "idle"}
    BY <1>5 DEF Write, Credit, finish, who
  <2>2. NoRedeem'
    BY <2>1 DEF NoRedeem
  <2>3. CASE UNCHANGED credits
    <3>1. status' \in {status, "success", "failed", "expired"}
      BY <1>5 DEF Write, Credit, row
    <3>2. pc'[h] = "credit" => pc[h] = "write" /\ op[h] # "close" /\ status' = "success"
      BY <1>5 DEF Write, Credit, finish
    <3> QED
      BY <2>1, <2>2, <2>3, <3>1, <3>2 DEF NotYet, CreditedOnce
  <2>4. CASE credits' # credits
    <3>1. /\ credits' = credits + 1 /\ pc'[h] \in {"unlock", "idle"}
          /\ op[h] # "close" /\ status' # "pending" /\ credits = 0
          /\ status' \in {"pending", "success", "failed", "expired"}
      <4>1. CASE Write(h)
        BY <4>1, <2>4 DEF Write, finish, row, NotYet
      <4>2. CASE Credit(h)
        <5>1. /\ credits' = credits + 1 /\ status' = status /\ pc[h] = "credit"
              /\ pc'[h] \in {"unlock", "idle"}
          BY <4>2, <2>4 DEF Credit, finish
        <5> QED
          BY <5>1 DEF NotYet
      <4> QED
        BY <1>5, <4>1, <4>2
    <3>2. Critical(h)
      BY <2>1, <3>1 DEF Critical, LockFree, NoRedeem
    <3>3. ASSUME NEW g \in Handlers, g # h, pc[g] \in {"write", "credit"}
          PROVE  op[g] = "close" /\ pc[g] = "write"
      <4>1. node[g] = node[h]
        OBVIOUS
      <4>2. ~Critical(g)
        BY <3>2, <3>3, <4>1 DEF Exclusion
      <4>3. op[g] = "close"
        BY <3>3, <4>2 DEF Critical, LockFree, NoRedeem
      <4> QED
        BY <3>3, <4>3 DEF NotYet
    <3> QED
      BY <2>1, <2>2, <3>1, <3>3 DEF NotYet, CreditedOnce
  <2> QED
    BY <2>3, <2>4
<1>6. ASSUME NEW h \in Handlers, LockOrder(h) \/ LockMutex(h) \/ UnlockMutex(h) \/ UnlockOrder(h)
      PROVE  CreditInv'
  <2>1. /\ UNCHANGED <<method, status, credits, op>> /\ pc[h] # "idle"
        /\ \A g \in Handlers : g # h => pc'[g] = pc[g]
        /\ pc'[h] \in {"wait", "check", "read", "release", "idle"}
    BY <1>6 DEF LockOrder, LockMutex, UnlockMutex, UnlockOrder, row, who
  <2> QED
    BY <2>1 DEF NoRedeem, NotYet, CreditedOnce
<1>7. ASSUME NEW n \in Nodes, Crash(n) PROVE CreditInv'
  BY <1>7 DEF Crash, row, who, NoRedeem, NotYet, CreditedOnce
<1> QED
  BY <1>1, <1>2, <1>3, <1>4, <1>5, <1>6, <1>7 DEF Next, Serve

\* On a gateway of one node an order is credited at most once, for any number of
\* overlapping notifications and manual completions, of any provider, with any
\* number of failures and crashes.  (A redemption code takes no order lock.)
THEOREM OneCredit ==
  ASSUME \A m, n \in Nodes : m = n, "code" \notin Methods
  PROVE  Spec => []CreditedOnce
<1>1. Init => CreditInv
  BY DEF Init, CreditInv, OrderType, NoRedeem, NotYet, CreditedOnce
<1>2. LockInv /\ CreditInv /\ [Next]_vars => CreditInv'
  BY CreditStep
<1>3. CreditInv => CreditedOnce
  BY DEF CreditInv
<1> QED
  BY <1>1, <1>2, <1>3, LockInvariant, PTL DEF Spec
=============================================================================
