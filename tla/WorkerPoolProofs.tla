-------------------------- MODULE WorkerPoolProofs --------------------------
(* Theorems about WorkerPool, for any finite set of tasks, any vCenters,     *)
(* routine counts and capacity, and any number of removals from the cache.   *)
EXTENDS WorkerPool, FiniteSetTheorems, TLAPS

\* There are finitely many tasks, so every set of them can be counted.
LEMMA Countable ==
    ASSUME NEW S \in SUBSET Tasks
    PROVE  IsFiniteSet(S) /\ Cardinality(S) \in Nat
  BY PoolAssumption, FS_Subset, FS_CardinalityType

LEMMA Smaller ==
    ASSUME NEW S \in SUBSET Tasks, NEW T \in SUBSET S
    PROVE  Cardinality(T) <= Cardinality(S)
  BY Countable, FS_Subset

LEMMA AddOne ==
    ASSUME NEW S \in SUBSET Tasks, NEW t \in Tasks
    PROVE  Cardinality(S \cup {t}) <= Cardinality(S) + 1
  BY Countable, FS_AddElement

LEMMA SumOfParts ==
    ASSUME NEW S \in SUBSET Tasks, NEW T \in SUBSET Tasks
    PROVE  Cardinality(S) <= Cardinality(S \ T) + Cardinality(T)
<1>1. S \ T \in SUBSET Tasks /\ S \cap T \in SUBSET Tasks
  OBVIOUS
<1>2. Cardinality(S \ T) = Cardinality(S) - Cardinality(S \cap T)
  BY Countable, FS_Difference
<1>3. Cardinality(S \cap T) <= Cardinality(T)
  BY Smaller
<1> QED
  BY <1>1, <1>2, <1>3, Countable

\* Every task has a key.
LEMMA KeyOfTask == \A t \in Tasks : poolKey(t) \in Keys
  BY PoolAssumption DEF poolKey, Keys

-----------------------------------------------------------------------------
(* Type correctness.                                                        *)

\* The part of TypeOK that does not count.
VarTypes ==
    /\ cached \in [Keys -> Tasks \cup {NoPool}]
    /\ pc \in [Tasks -> Pcs]
    /\ pool \in [Tasks -> Tasks \cup {NoPool}]
    /\ doomed \in SUBSET Keys
    /\ created \in [Keys -> SUBSET Tasks]
    /\ cleans \in [Keys -> 0..MaxCleans]

LEMMA TypesInductive ==
    ASSUME VarTypes, [Next]_vars
    PROVE  VarTypes'
<1> USE DEF VarTypes
<1>1. ASSUME NEW t \in Tasks, AddTask(t) PROVE VarTypes'
  BY <1>1 DEF AddTask, Goto, Pcs
<1>2. ASSUME NEW t \in Tasks, Receive(t) PROVE VarTypes'
  BY <1>2 DEF Receive, Goto, Pcs
<1>3. ASSUME NEW t \in Tasks, Get(t) PROVE VarTypes'
  BY <1>3, KeyOfTask DEF Get, Found, Goto, Pcs
<1>4. ASSUME NEW t \in Tasks, NewPool(t) PROVE VarTypes'
  <2>1. CASE Found(t) /\ Goto(t, "making", "submitting") /\ UNCHANGED created
    BY <1>4, <2>1, KeyOfTask DEF NewPool, Found, Goto, Pcs
  <2>2. CASE ~Found(t)
    BY <1>4, <2>2, KeyOfTask DEF NewPool, Goto, Pcs
  <2> QED
    BY <1>4, <2>1, <2>2 DEF NewPool, Found
<1>5. ASSUME NEW t \in Tasks, StorePool(t) PROVE VarTypes'
  BY <1>5, KeyOfTask DEF StorePool, Goto, Pcs
<1>6. ASSUME NEW t \in Tasks, Submit(t) PROVE VarTypes'
  BY <1>6 DEF Submit, Goto, Pcs
<1>7. ASSUME NEW t \in Tasks, Finish(t) PROVE VarTypes'
  BY <1>7 DEF Finish, Goto, Pcs
<1>8. ASSUME NEW vc \in Vcs, CleanAll(vc) PROVE VarTypes'
  BY <1>8 DEF CleanAll
<1>9. ASSUME NEW k \in Keys, CleanKey(k) PROVE VarTypes'
  BY <1>9, PoolAssumption DEF CleanKey
<1>10. CASE UNCHANGED vars
  BY <1>10 DEF vars
<1> QED
  BY <1>1, <1>2, <1>3, <1>4, <1>5, <1>6, <1>7, <1>8, <1>9, <1>10
  DEF Next, TaskStep, Idle

\* A step other than Receive brings no goroutine into receiveTaskPool.
LEMMA ReceiversShrink ==
    ASSUME VarTypes, [Next]_vars, ~\E t \in Tasks : Receive(t)
    PROVE  Receivers' \subseteq Receivers
<1> USE DEF VarTypes, Receivers, Pcs
<1>1. ASSUME NEW t \in Tasks, NEW to \in Pcs, NEW from \in Pcs,
             Goto(t, from, to),
             to \in {"looking", "making", "storing", "submitting"} =>
                 from \in {"looking", "making", "storing", "submitting"}
      PROVE  Receivers' \subseteq Receivers
  BY <1>1 DEF Goto
<1>2. ASSUME NEW t \in Tasks, AddTask(t) PROVE Receivers' \subseteq Receivers
  BY <1>2, <1>1 DEF AddTask
<1>3. ASSUME NEW t \in Tasks, Get(t) PROVE Receivers' \subseteq Receivers
  BY <1>3, <1>1 DEF Get
<1>4. ASSUME NEW t \in Tasks, NewPool(t) PROVE Receivers' \subseteq Receivers
  BY <1>4, <1>1 DEF NewPool
<1>5. ASSUME NEW t \in Tasks, StorePool(t) PROVE Receivers' \subseteq Receivers
  BY <1>5, <1>1 DEF StorePool
<1>6. ASSUME NEW t \in Tasks, Submit(t) PROVE Receivers' \subseteq Receivers
  BY <1>6, <1>1 DEF Submit
<1>7. ASSUME NEW t \in Tasks, Finish(t) PROVE Receivers' \subseteq Receivers
  BY <1>7, <1>1 DEF Finish
<1>8. CASE UNCHANGED pc
  BY <1>8
<1> QED
  BY <1>2, <1>3, <1>4, <1>5, <1>6, <1>7, <1>8
  DEF Next, TaskStep, Idle, vars, CleanAll, CleanKey

LEMMA ReceiversBounded ==
    ASSUME TypeOK, [Next]_vars
    PROVE  Cardinality(Receivers') <= ReceiveCapacity
<1>1. Receivers \in SUBSET Tasks /\ Receivers' \in SUBSET Tasks
  BY DEF Receivers
<1>2. ASSUME NEW t \in Tasks, Receive(t)
      PROVE  Cardinality(Receivers') <= ReceiveCapacity
  <2>1. Receivers' \subseteq Receivers \cup {t}
    BY <1>2 DEF Receive, Goto, Receivers, TypeOK
  <2>2. Cardinality(Receivers') <= Cardinality(Receivers) + 1
    <3>1. Receivers \cup {t} \in SUBSET Tasks
      BY <1>1
    <3>2. Cardinality(Receivers') <= Cardinality(Receivers \cup {t})
      BY <2>1, <3>1, Smaller
    <3>3. Cardinality(Receivers \cup {t}) <= Cardinality(Receivers) + 1
      BY <1>1, AddOne
    <3> QED
      BY <1>1, <3>1, <3>2, <3>3, Countable
  <2> QED
    BY <1>1, <1>2, <2>2, Countable, PoolAssumption DEF Receive
<1>3. CASE ~\E t \in Tasks : Receive(t)
  <2>1. Receivers' \subseteq Receivers
    BY <1>3, ReceiversShrink DEF TypeOK, VarTypes
  <2> QED
    BY <1>1, <2>1, Smaller, Countable, PoolAssumption DEF TypeOK
<1> QED
  BY <1>2, <1>3

\* A goroutine that is about to store a pool holds the one it has created.
LEMMA StoringOwn ==
    ASSUME TypeOK, [Next]_vars
    PROVE  \A t \in Tasks :
             pc'[t] = "storing" => pool'[t] = t /\ t \in created'[poolKey(t)]
<1> USE DEF TypeOK
<1>1. ASSUME NEW t \in Tasks, NewPool(t)
      PROVE  \A u \in Tasks :
               pc'[u] = "storing" => pool'[u] = u /\ u \in created'[poolKey(u)]
  BY <1>1, KeyOfTask DEF NewPool, Found, Goto
<1>2. ASSUME NEW t \in Tasks, Get(t)
      PROVE  \A u \in Tasks :
               pc'[u] = "storing" => pool'[u] = u /\ u \in created'[poolKey(u)]
  BY <1>2 DEF Get, Found, Goto
<1>3. CASE UNCHANGED <<pool, created>> /\ \A t \in Tasks : pc'[t] = "storing" => pc[t] = "storing"
  BY <1>3
<1>4. ASSUME NEW t \in Tasks, NEW from, NEW to \in Pcs \ {"storing"}, Goto(t, from, to)
      PROVE  \A u \in Tasks : pc'[u] = "storing" => pc[u] = "storing"
  BY <1>4 DEF Goto
<1> QED
  BY <1>1, <1>2, <1>3, <1>4
  DEF Next, TaskStep, AddTask, Receive, StorePool, Submit, Finish, CleanAll, CleanKey,
      Idle, vars, Pcs

\* Every variable keeps its type, receiveTaskPool never holds more goroutines
\* than its size, and a goroutine stores the pool it has created.
THEOREM PoolTypeCorrect == Spec => []TypeOK
<1>1. Init => TypeOK
  <2> SUFFICES ASSUME Init PROVE TypeOK
    OBVIOUS
  <2>1. Receivers = {}
    BY DEF Init, Receivers
  <2>2. Cardinality(Receivers) = 0
    BY <2>1, FS_EmptySet
  <2> QED
    BY <2>2, PoolAssumption DEF Init, TypeOK, Pcs
<1>2. TypeOK /\ [Next]_vars => TypeOK'
  <2> SUFFICES ASSUME TypeOK, [Next]_vars PROVE TypeOK'
    OBVIOUS
  <2>1. VarTypes'
    BY TypesInductive DEF TypeOK, VarTypes
  <2> QED
    BY <2>1, ReceiversBounded, StoringOwn DEF TypeOK, VarTypes
<1> QED
  BY <1>1, <1>2, PTL DEF Spec

-----------------------------------------------------------------------------
(* Pools belong to their keys.                                              *)

LEMMA OwnPoolInductive ==
    ASSUME TypeOK, OwnPoolInv, [Next]_vars
    PROVE  OwnPoolInv'
<1> USE DEF TypeOK, OwnPoolInv
<1>1. ASSUME NEW t \in Tasks, AddTask(t) PROVE OwnPoolInv'
  BY <1>1 DEF AddTask, Goto, poolKey
<1>2. ASSUME NEW t \in Tasks, Receive(t) PROVE OwnPoolInv'
  BY <1>2 DEF Receive, Goto, poolKey
<1>3. ASSUME NEW t \in Tasks, Found(t), created' = created, cached' = cached,
             NEW from, Goto(t, from, "submitting")
      PROVE  OwnPoolInv'
  <2>1. cached[poolKey(t)] \in Tasks
    BY <1>3, KeyOfTask DEF Found
  <2>2. /\ poolKey(cached[poolKey(t)]) = poolKey(t)
        /\ cached[poolKey(t)] \in created[poolKey(t)]
    BY <1>3, KeyOfTask DEF Found
  <2>3. \A u \in Tasks : poolKey(u)' = poolKey(u)
    BY DEF poolKey
  <2> QED
    BY <1>3, <2>1, <2>2, <2>3 DEF Found, Goto
<1>4. ASSUME NEW t \in Tasks, Get(t) PROVE OwnPoolInv'
  <2>1. CASE UNCHANGED pool
    BY <1>4, <2>1 DEF Get, Found, Goto, poolKey
  <2> QED
    BY <1>3, <1>4, <2>1 DEF Get
<1>5. ASSUME NEW t \in Tasks, NewPool(t) PROVE OwnPoolInv'
  <2>1. CASE Found(t) /\ Goto(t, "making", "submitting") /\ UNCHANGED created
    BY <1>3, <1>5, <2>1 DEF NewPool
  <2>2. CASE /\ Goto(t, "making", "storing")
             /\ pool' = [pool EXCEPT ![t] = t]
             /\ created' = [created EXCEPT ![poolKey(t)] = @ \cup {t}]
    <3>1. \A k \in Keys : created[k] \subseteq created'[k]
      BY <2>2
    <3>2. \A u \in Tasks : poolKey(u)' = poolKey(u)
      BY DEF poolKey
    <3>3. t \in created'[poolKey(t)]
      BY <2>2, KeyOfTask
    <3> QED
      BY <1>5, <2>2, <3>1, <3>2, <3>3, KeyOfTask DEF NewPool, Goto
  <2> QED
    BY <1>5, <2>1, <2>2 DEF NewPool
<1>6. ASSUME NEW t \in Tasks, StorePool(t) PROVE OwnPoolInv'
  <2>1. pool[t] = t /\ t \in created[poolKey(t)]
    BY <1>6 DEF StorePool, Goto
  <2>2. \A u \in Tasks : poolKey(u)' = poolKey(u)
    BY DEF poolKey
  <2> QED
    BY <1>6, <2>1, <2>2, KeyOfTask, PoolAssumption DEF StorePool, Goto
<1>7. ASSUME NEW t \in Tasks, Submit(t) PROVE OwnPoolInv'
  BY <1>7 DEF Submit, Goto, poolKey
<1>8. ASSUME NEW t \in Tasks, Finish(t) PROVE OwnPoolInv'
  BY <1>8 DEF Finish, Goto, poolKey
<1>9. ASSUME NEW vc \in Vcs, CleanAll(vc) PROVE OwnPoolInv'
  BY <1>9 DEF CleanAll, poolKey
<1>10. ASSUME NEW k \in Keys, CleanKey(k) PROVE OwnPoolInv'
  BY <1>10 DEF CleanKey, poolKey
<1>11. CASE UNCHANGED vars
  BY <1>11 DEF vars, poolKey
<1> QED
  BY <1>1, <1>2, <1>4, <1>5, <1>6, <1>7, <1>8, <1>9, <1>10, <1>11
  DEF Next, TaskStep, Idle

THEOREM OwnPoolCorrect == Spec => []OwnPoolInv
<1>1. Init => OwnPoolInv
  BY PoolAssumption DEF Init, OwnPoolInv
<1>2. TypeOK /\ OwnPoolInv /\ [Next]_vars => OwnPoolInv'
  BY OwnPoolInductive
<1> QED
  BY <1>1, <1>2, PoolTypeCorrect, PTL DEF Spec

\* A closure is only ever run by a pool that was created for its own vCenter and
\* worker type, whatever pools are created twice or removed meanwhile.
THEOREM Separate == Spec => []PoolsAreSeparate
<1>1. TypeOK /\ OwnPoolInv => PoolsAreSeparate
  BY DEF TypeOK, OwnPoolInv, PoolsAreSeparate, poolKey
<1> QED
  BY <1>1, OwnPoolCorrect, PoolTypeCorrect, PTL

-----------------------------------------------------------------------------
(* How many pools are created.                                              *)

\* What the counting is about.
LEMMA CountedSets ==
    ASSUME TypeOK, NEW k \in Keys
    PROVE  /\ created[k] \in SUBSET Tasks /\ Storing(k) \in SUBSET Tasks
           /\ created[k] \ Storing(k) \in SUBSET Tasks
           /\ Cardinality(created[k]) \in Nat
           /\ Cardinality(created[k] \ Storing(k)) \in Nat
           /\ cleans[k] \in Nat
           /\ ReceiveCapacity * cleans[k] \in Nat
           /\ ReceiveCapacity * (cleans[k] + 1)
                = ReceiveCapacity * cleans[k] + ReceiveCapacity
<1>1. /\ created[k] \in SUBSET Tasks /\ Storing(k) \in SUBSET Tasks
      /\ created[k] \ Storing(k) \in SUBSET Tasks
  BY DEF TypeOK, Storing
<1>2. cleans[k] \in Nat /\ ReceiveCapacity \in Nat
  BY PoolAssumption DEF TypeOK
<1>3. \A x, y \in Nat : x * y \in Nat /\ x * (y + 1) = x * y + x
  OBVIOUS
<1> QED
  BY <1>1, <1>2, <1>3, Countable

\* If the pools outside the hands of the storing goroutines number n times
\* ReceiveCapacity, one ReceiveCapacity bounds the others.
LEMMA PartsBounded ==
    ASSUME NEW S \in SUBSET Tasks, NEW T \in SUBSET Tasks, NEW n \in Nat,
           Cardinality(T) <= ReceiveCapacity,
           Cardinality(S \ T) <= ReceiveCapacity * n
    PROVE  Cardinality(S) <= ReceiveCapacity * (n + 1)
<1>1. Cardinality(S) <= Cardinality(S \ T) + Cardinality(T)
  BY SumOfParts
<1>2. S \ T \in SUBSET Tasks
  OBVIOUS
<1>3. Cardinality(S) \in Nat /\ Cardinality(T) \in Nat /\ Cardinality(S \ T) \in Nat
  BY <1>2, Countable
<1>4. \A x \in Nat : x * n \in Nat /\ x * (n + 1) = x * n + x
  OBVIOUS
<1> QED
  BY <1>1, <1>3, <1>4, PoolAssumption

\* The goroutines that are about to store a pool are no more than
\* ReceiveCapacity.
LEMMA StoringBounded ==
    ASSUME TypeOK, TypeOK', [Next]_vars, NEW k \in Keys
    PROVE  Storing(k)' \in SUBSET Tasks /\ Cardinality(Storing(k)') <= ReceiveCapacity
<1>1. Receivers' \in SUBSET Tasks /\ Storing(k)' \in SUBSET Receivers'
  BY DEF Receivers, Storing
<1>2. Cardinality(Storing(k)') <= Cardinality(Receivers')
  BY <1>1, Smaller
<1>3. Cardinality(Receivers') <= ReceiveCapacity
  BY ReceiversBounded
<1>4. Storing(k)' \in SUBSET Tasks
  BY <1>1
<1> QED
  BY <1>1, <1>2, <1>3, <1>4, Countable, PoolAssumption

CreatedOf(k) ==
    /\ Cardinality(created[k]) <= ReceiveCapacity * (cleans[k] + 1)
    /\ cached[k] = NoPool =>
         Cardinality(created[k] \ Storing(k)) <= ReceiveCapacity * cleans[k]

LEMMA CreatedInductive ==
    ASSUME TypeOK, TypeOK', CreatedInv, [Next]_vars, NEW k \in Keys
    PROVE  CreatedOf(k)'
<1>0. CreatedOf(k)
  BY DEF CreatedInv, CreatedOf
<1>1. ASSUME created'[k] = created[k], cleans'[k] = cleans[k],
             cached'[k] # NoPool \/ (cached'[k] = cached[k] /\ Storing(k)' = Storing(k))
      PROVE  CreatedOf(k)'
  BY <1>0, <1>1 DEF CreatedOf
<1>2. ASSUME NEW t \in Tasks, NEW from, NEW to,
             from # "storing", to # "storing", Goto(t, from, to)
      PROVE  Storing(k)' = Storing(k)
  BY <1>2 DEF Goto, Storing, TypeOK, poolKey
<1>3. ASSUME NEW t \in Tasks, NewPool(t), poolKey(t) = k, cached[k] = NoPool
      PROVE  CreatedOf(k)'
  <2>1. /\ created' = [created EXCEPT ![k] = @ \cup {t}]
        /\ Goto(t, "making", "storing")
        /\ UNCHANGED <<cached, cleans>>
    BY <1>3 DEF NewPool, Found
  <2>2. Storing(k)' = Storing(k) \cup {t}
    BY <1>3, <2>1 DEF Goto, Storing, TypeOK, poolKey
  <2>3. created'[k] = created[k] \cup {t}
    BY <2>1 DEF TypeOK
  <2>4. created'[k] \ Storing(k)' \subseteq created[k] \ Storing(k)
    BY <2>2, <2>3
  <2>5. Cardinality(created'[k] \ Storing(k)') <= Cardinality(created[k] \ Storing(k))
    BY <2>4, CountedSets, Smaller
  <2>6. created'[k] \ Storing(k)' \in SUBSET Tasks
    BY <2>4, CountedSets
  <2>7. Cardinality(created'[k] \ Storing(k)') <= ReceiveCapacity * cleans'[k]
    BY <1>0, <1>3, <2>1, <2>5, <2>6, CountedSets, Countable DEF CreatedOf
  <2>8. created'[k] \in SUBSET Tasks /\ cleans'[k] \in Nat
    BY PoolAssumption DEF TypeOK
  <2>9. Cardinality(created'[k]) <= ReceiveCapacity * (cleans'[k] + 1)
    BY <2>7, <2>8, StoringBounded, PartsBounded
  <2> QED
    BY <2>7, <2>9 DEF CreatedOf
<1>4. ASSUME NEW t \in Tasks, NewPool(t) PROVE CreatedOf(k)'
  <2>1. CASE Goto(t, "making", "submitting") /\ UNCHANGED created
    BY <1>1, <1>2, <1>4, <2>1 DEF NewPool
  <2>2. CASE /\ cached[poolKey(t)] = NoPool /\ poolKey(t) # k
             /\ Goto(t, "making", "storing")
             /\ created' = [created EXCEPT ![poolKey(t)] = @ \cup {t}]
    <3>1. Storing(k)' = Storing(k)
      BY <2>2 DEF Goto, Storing, TypeOK, poolKey
    <3>2. created'[k] = created[k]
      BY <2>2, KeyOfTask DEF TypeOK
    <3> QED
      BY <1>1, <1>4, <3>1, <3>2 DEF NewPool
  <2> QED
    BY <1>3, <1>4, <2>1, <2>2 DEF NewPool
<1>5. ASSUME NEW t \in Tasks, StorePool(t) PROVE CreatedOf(k)'
  <2>1. CASE poolKey(t) = k
    <3>1. cached'[k] # NoPool
      BY <1>5, <2>1, PoolAssumption DEF StorePool, Goto, TypeOK
    <3> QED
      BY <1>1, <1>5, <3>1 DEF StorePool
  <2>2. CASE poolKey(t) # k
    <3>1. Storing(k)' = Storing(k)
      BY <1>5, <2>2 DEF StorePool, Goto, Storing, TypeOK, poolKey
    <3>2. cached'[k] = cached[k]
      BY <1>5, <2>2 DEF StorePool, TypeOK
    <3> QED
      BY <1>1, <1>5, <3>1, <3>2 DEF StorePool
  <2> QED
    BY <2>1, <2>2
<1>6. ASSUME NEW j \in Keys, CleanKey(j) PROVE CreatedOf(k)'
  <2>1. Storing(k)' = Storing(k) /\ created' = created
    BY <1>6 DEF CleanKey, Storing, poolKey
  <2>2. CASE j # k
    BY <1>1, <1>6, <2>1, <2>2 DEF CleanKey, TypeOK
  <2>3. CASE j = k
    <3>1. cleans'[k] = cleans[k] + 1
      BY <1>6, <2>3 DEF CleanKey, TypeOK
    <3>2. Cardinality(created[k] \ Storing(k)) <= Cardinality(created[k])
      BY CountedSets, Smaller
    <3>3. Cardinality(created[k] \ Storing(k)) <= ReceiveCapacity * cleans'[k]
      <4>1. ReceiveCapacity * cleans'[k] = ReceiveCapacity * (cleans[k] + 1)
        BY <3>1
      <4>2. Cardinality(created[k]) <= ReceiveCapacity * cleans[k] + ReceiveCapacity
        BY <1>0, CountedSets DEF CreatedOf
      <4> QED
        BY <3>2, <4>1, <4>2, CountedSets, PoolAssumption
    <3>4. Cardinality(created'[k] \ Storing(k)') <= ReceiveCapacity * cleans'[k]
      BY <2>1, <3>3
    <3>5. created'[k] \in SUBSET Tasks /\ cleans'[k] \in Nat
      BY PoolAssumption DEF TypeOK
    <3>6. Cardinality(created'[k]) <= ReceiveCapacity * (cleans'[k] + 1)
      BY <3>4, <3>5, StoringBounded, PartsBounded
    <3> QED
      BY <3>4, <3>6 DEF CreatedOf
  <2> QED
    BY <2>2, <2>3
<1>7. ASSUME NEW t \in Tasks,
             AddTask(t) \/ Receive(t) \/ Get(t) \/ Submit(t) \/ Finish(t)
      PROVE  CreatedOf(k)'
  BY <1>1, <1>2, <1>7 DEF AddTask, Receive, Get, Submit, Finish
<1>8. ASSUME NEW vc \in Vcs, CleanAll(vc) PROVE CreatedOf(k)'
  BY <1>1, <1>8 DEF CleanAll, Storing, poolKey
<1>9. CASE UNCHANGED vars
  BY <1>1, <1>9 DEF vars, Storing, poolKey
<1> QED
  BY <1>4, <1>5, <1>6, <1>7, <1>8, <1>9 DEF Next, TaskStep, Idle

\* Between two removals of a key from the cache at most ReceiveCapacity pools
\* are created for it.
THEOREM Bounded == Spec => []PoolsAreBounded
<1>1. Init => CreatedInv
  <2> SUFFICES ASSUME Init, NEW k \in Keys PROVE CreatedOf(k)
    BY DEF CreatedInv, CreatedOf
  <2>1. created[k] = {} /\ created[k] \ Storing(k) = {} /\ cleans[k] = 0
    BY DEF Init
  <2> QED
    BY <2>1, FS_EmptySet, PoolAssumption DEF CreatedOf
<1>2. TypeOK /\ TypeOK' /\ CreatedInv /\ [Next]_vars => CreatedInv'
  <2> SUFFICES ASSUME TypeOK, TypeOK', CreatedInv, [Next]_vars PROVE CreatedInv'
    OBVIOUS
  <2>1. \A k \in Keys : CreatedOf(k)'
    BY CreatedInductive
  <2> QED
    BY <2>1 DEF CreatedInv, CreatedOf
<1>3. CreatedInv => PoolsAreBounded
  BY DEF CreatedInv, PoolsAreBounded
<1> QED
  BY <1>1, <1>2, <1>3, PoolTypeCorrect, PTL DEF Spec

-----------------------------------------------------------------------------
(* How many closures run.                                                   *)

RoomOf(p) ==
    RoutineCount[TypeOf[p]] > 0 =>
        Cardinality(RunningIn(p)) <= RoutineCount[TypeOf[p]]

LEMMA RoomInductive ==
    ASSUME TypeOK, OwnPoolInv, RoomInv, [Next]_vars, NEW p \in Tasks
    PROVE  RoomOf(p)'
<1>0. RoomOf(p) /\ RunningIn(p) \in SUBSET Tasks /\ RoutineCount[TypeOf[p]] \in Int
  BY PoolAssumption DEF RoomInv, RoomOf, RunningIn
<1>1. ASSUME RunningIn(p)' \subseteq RunningIn(p) PROVE RoomOf(p)'
  <2>1. Cardinality(RunningIn(p)') <= Cardinality(RunningIn(p))
    BY <1>0, <1>1, Smaller
  <2>2. RunningIn(p)' \in SUBSET Tasks
    BY <1>0, <1>1
  <2> QED
    BY <1>0, <2>1, <2>2, Countable DEF RoomOf
<1>2. ASSUME NEW t \in Tasks, Submit(t) PROVE RoomOf(p)'
  <2>1. CASE pool[t] = p
    <3>1. RunningIn(p)' \subseteq RunningIn(p) \cup {t}
      BY <1>2 DEF Submit, Goto, RunningIn, TypeOK
    <3>2. RunningIn(p) \cup {t} \in SUBSET Tasks /\ RunningIn(p)' \in SUBSET Tasks
      BY <1>0, <3>1
    <3>3. Cardinality(RunningIn(p)') <= Cardinality(RunningIn(p) \cup {t})
      BY <3>1, <3>2, Smaller
    <3>4. Cardinality(RunningIn(p) \cup {t}) <= Cardinality(RunningIn(p)) + 1
      BY <1>0, AddOne
    <3>5. HasRoom(p)
      BY <1>2, <2>1 DEF Submit
    <3> QED
      BY <1>0, <3>2, <3>3, <3>4, <3>5, Countable DEF HasRoom, RoomOf
  <2>2. CASE pool[t] # p
    BY <1>1, <1>2, <2>2 DEF Submit, Goto, RunningIn, TypeOK
  <2> QED
    BY <2>1, <2>2
<1>3. ASSUME NEW t \in Tasks,
             AddTask(t) \/ Receive(t) \/ StorePool(t) \/ Finish(t)
      PROVE  RoomOf(p)'
  BY <1>1, <1>3 DEF AddTask, Receive, StorePool, Finish, Goto, RunningIn, TypeOK
<1>4. ASSUME NEW t \in Tasks, Get(t) \/ NewPool(t) PROVE RoomOf(p)'
  BY <1>1, <1>4 DEF Get, NewPool, Found, Goto, RunningIn, TypeOK
<1>5. ASSUME UNCHANGED <<pc, pool>> PROVE RoomOf(p)'
  BY <1>1, <1>5 DEF RunningIn
<1> QED
  BY <1>2, <1>3, <1>4, <1>5 DEF Next, TaskStep, Idle, vars, CleanAll, CleanKey

\* No single pool runs more closures than its routine count.
THEOREM RoomCorrect == Spec => []RoomInv
<1>1. Init => RoomInv
  <2> SUFFICES ASSUME Init, NEW p \in Tasks PROVE RoomOf(p)
    BY DEF RoomInv, RoomOf
  <2>1. RunningIn(p) = {}
    BY DEF Init, RunningIn
  <2> QED
    BY <2>1, FS_EmptySet, PoolAssumption DEF RoomOf
<1>2. TypeOK /\ OwnPoolInv /\ RoomInv /\ [Next]_vars => RoomInv'
  <2> SUFFICES ASSUME TypeOK, OwnPoolInv, RoomInv, [Next]_vars PROVE RoomInv'
    OBVIOUS
  <2>1. \A p \in Tasks : RoomOf(p)'
    BY RoomInductive
  <2> QED
    BY <2>1 DEF RoomInv, RoomOf
<1> QED
  BY <1>1, <1>2, PoolTypeCorrect, OwnPoolCorrect, PTL DEF Spec

\* The closures that run for a key are counted by the pools created for it: a
\* closure is named by its pool and its number among the closures of that pool.
LEMMA RunningCounted ==
    ASSUME TypeOK, OwnPoolInv, RoomInv, NEW k \in Keys, RoutineCount[k[2]] > 0
    PROVE  Cardinality(Running(k)) <= Cardinality(created[k]) * RoutineCount[k[2]]
<1> DEFINE N == RoutineCount[k[2]]
           Numbering(q) == CHOOSE g : g \in Bijection(1..Cardinality(RunningIn(q)), RunningIn(q))
           num == [q \in Tasks |-> Numbering(q)]
           Names == created[k] \X (1..N)
           name == [t \in Running(k) |-> <<pool[t], CHOOSE i \in 1..N : num[pool[t]][i] = t>>]
<1>1. k[2] \in Types /\ N \in Nat
  BY PoolAssumption DEF Keys
<1>2. ASSUME NEW t \in Running(k)
      PROVE  /\ pool[t] \in created[k] /\ pool[t] \in Tasks
             /\ TypeOf[pool[t]] = k[2] /\ t \in RunningIn(pool[t])
  BY <1>2 DEF TypeOK, OwnPoolInv, Running, RunningIn, poolKey
<1>3. ASSUME NEW t \in Running(k)
      PROVE  \E i \in 1..N : num[pool[t]][i] = t
  <2> DEFINE S == RunningIn(pool[t])
  <2>1. S \in SUBSET Tasks
    BY DEF RunningIn
  <2>2. IsFiniteSet(S) /\ Cardinality(S) \in Nat
    BY <2>1, Countable
  <2>3. \E g : g \in Bijection(1..Cardinality(S), S)
    BY <2>2, FS_CardinalityType DEF ExistsBijection
  <2>4. Numbering(pool[t]) \in Bijection(1..Cardinality(S), S)
    BY <2>3
  <2>5. num[pool[t]] \in Bijection(1..Cardinality(S), S)
    BY <1>2, <2>4
  <2>6. PICK i \in 1..Cardinality(S) : num[pool[t]][i] = t
    BY <1>2, <2>5 DEF Bijection, Surjection
  <2>7. Cardinality(S) <= N
    BY <1>2 DEF RoomInv
  <2> HIDE DEF num, Numbering
  <2>8. i \in 1..N
    BY <1>1, <2>2, <2>7
  <2> QED
    BY <2>6, <2>8
<1>4. ASSUME NEW t \in Running(k)
      PROVE  /\ name[t] \in Names
             /\ name[t][1] = pool[t]
             /\ num[pool[t]][name[t][2]] = t
  <2> DEFINE i == CHOOSE j \in 1..N : num[pool[t]][j] = t
  <2>1. i \in 1..N /\ num[pool[t]][i] = t
    BY <1>3
  <2>2. name[t] = <<pool[t], i>>
    OBVIOUS
  <2> HIDE DEF i, num, name
  <2> QED
    BY <1>2, <2>1, <2>2
<1> HIDE DEF num, name
<1>5. name \in Injection(Running(k), Names)
  <2>1. name \in [Running(k) -> Names]
    BY <1>4 DEF name
  <2>2. \A t, u \in Running(k) : name[t] = name[u] => t = u
    BY <1>4
  <2> QED
    BY <2>1, <2>2 DEF Injection, IsInjective
<1>6. IsFiniteSet(created[k]) /\ Cardinality(created[k]) \in Nat
  BY Countable DEF TypeOK
<1>7. IsFiniteSet(1..N) /\ Cardinality(1..N) = N
  <2>1. IsFiniteSet(1..N) /\ Cardinality(1..N) = IF 1 > N THEN 0 ELSE N - 1 + 1
    BY <1>1, FS_Interval
  <2> QED
    BY <1>1, <2>1
<1>8. IsFiniteSet(Names) /\ Cardinality(Names) = Cardinality(created[k]) * N
  BY <1>6, <1>7, FS_Product
<1> QED
  BY <1>5, <1>8, FS_Injection

\* The closures that run for a vCenter and type are bounded by routineCount times
\* the pools that can have been created for it.
THEOREM RunningBounded == Spec => []RunningIsBounded
<1>1. ASSUME TypeOK, OwnPoolInv, RoomInv, PoolsAreBounded PROVE RunningIsBounded
  <2> SUFFICES ASSUME NEW k \in Keys, RoutineCount[k[2]] > 0
               PROVE  Cardinality(Running(k))
                        <= RoutineCount[k[2]] * ReceiveCapacity * (cleans[k] + 1)
    BY DEF RunningIsBounded
  <2> DEFINE N == RoutineCount[k[2]]
             B == ReceiveCapacity * (cleans[k] + 1)
  <2>1. N \in Nat /\ B \in Nat /\ Cardinality(created[k]) \in Nat
    <3>1. N \in Nat
      BY PoolAssumption DEF Keys
    <3>2. cleans[k] + 1 \in Nat /\ ReceiveCapacity \in Nat
      BY <1>1, PoolAssumption DEF TypeOK
    <3>3. \A x, y \in Nat : x * y \in Nat
      OBVIOUS
    <3>4. Cardinality(created[k]) \in Nat
      BY <1>1, Countable DEF TypeOK
    <3> QED
      BY <3>1, <3>2, <3>3, <3>4
  <2>2. Cardinality(created[k]) <= B
    BY <1>1 DEF PoolsAreBounded
  <2>3. Cardinality(Running(k)) <= Cardinality(created[k]) * N
    BY <1>1, RunningCounted
  <2>4. Running(k) \in SUBSET Tasks /\ Cardinality(Running(k)) \in Nat
    BY Countable DEF Running
  <2>5. \A x, y, z \in Nat : x <= y => x * z <= y * z /\ x * z \in Nat /\ y * z \in Nat
    OBVIOUS
  <2>6. Cardinality(created[k]) * N <= B * N
    BY <2>1, <2>2, <2>5
  <2>7. B * N = N * ReceiveCapacity * (cleans[k] + 1)
    <3>1. \A x, y, z \in Nat : (y * z) * x = x * y * z
      OBVIOUS
    <3>2. cleans[k] + 1 \in Nat /\ ReceiveCapacity \in Nat
      BY <1>1, PoolAssumption DEF TypeOK
    <3> QED
      BY <2>1, <3>1, <3>2
  <2>8. Cardinality(created[k]) * N \in Nat /\ B * N \in Nat
    BY <2>1, <2>2, <2>5
  <2> HIDE DEF B
  <2> QED
    BY <2>3, <2>4, <2>6, <2>7, <2>8
<1>2. TypeOK /\ OwnPoolInv /\ RoomInv /\ PoolsAreBounded => RunningIsBounded
  BY <1>1
<1> QED
  BY <1>2, PoolTypeCorrect, OwnPoolCorrect, RoomCorrect, Bounded, PTL

=============================================================================
