----------------------------- MODULE WorkerPool -----------------------------
(***************************************************************************)
(* The pools that run closures (vsphere/workerpool/worker_pool.go):        *)
(*                                                                         *)
(*   - AddTask hands a closure to a goroutine of receiveTaskPool, which    *)
(*     looks for the pool of its vCenter and worker type and submits the   *)
(*     closure to it; both pools block while they are full;                *)
(*   - Get and newPool look the pool up in the process-wide go-cache and   *)
(*     create it when it is not there.  The mutex of newPool is a local    *)
(*     variable, so every call has a mutex of its own and excludes nobody; *)
(*   - VCCache.CleanAll removes every key of the same cache that begins    *)
(*     with the id of the vCenter, and the keys of the pools do.           *)
(*                                                                         *)
(* ants pools are modelled from how they are used: a bound on the closures *)
(* that run, Submit blocking while it is reached, a panic ending only the  *)
(* closure.  A pool is named by the task whose goroutine created it.       *)
(***************************************************************************)
EXTENDS FiniteSets, Integers

CONSTANTS
    Tasks,            \* the closures passed to AddTask
    Vcs,              \* vCenter ids
    Types,            \* worker types: operation, deployment
    VcOf,             \* VcOf[t], TypeOf[t]: the arguments of AddTask
    TypeOf,
    RoutineCount,     \* RoutineCount[y]: vsphere.routineCount of config.yml
    ReceiveCapacity,  \* size of receiveTaskPool (10000 in the code)
    NoPool,           \* what the cache holds for a key it does not have
    MaxCleans         \* bound: removals of a key

ASSUME PoolAssumption ==
    /\ IsFiniteSet(Tasks)
    /\ VcOf \in [Tasks -> Vcs]
    /\ TypeOf \in [Tasks -> Types]
    /\ RoutineCount \in [Types -> Int]
    /\ ReceiveCapacity \in Nat \ {0}
    /\ NoPool \notin Tasks
    /\ MaxCleans \in Nat

Keys == Vcs \X Types

VARIABLES
    cached,   \* cached[k]: the pool go-cache holds for key k
    pc,       \* pc[t]: where t and the goroutine that carries it are
    pool,     \* pool[t]: the pool its goroutine has found or created
    doomed,   \* the keys a CleanAll has seen and will still delete
    created,  \* history: created[k], the pools created for k
    cleans    \* history: cleans[k], how often k was deleted

vars == <<cached, pc, pool, doomed, created, cleans>>

Pcs == {"none", "offered", "looking", "making", "storing", "submitting",
        "running", "finished"}

poolKey(t) == <<VcOf[t], TypeOf[t]>>

\* The goroutines of receiveTaskPool.
Receivers == {t \in Tasks : pc[t] \in {"looking", "making", "storing", "submitting"}}

\* receiveTaskPool is never overfull, and a goroutine that has created a pool
\* has created it for its own key.
TypeOK ==
    /\ cached \in [Keys -> Tasks \cup {NoPool}]
    /\ pc \in [Tasks -> Pcs]
    /\ pool \in [Tasks -> Tasks \cup {NoPool}]
    /\ doomed \in SUBSET Keys
    /\ created \in [Keys -> SUBSET Tasks]
    /\ cleans \in [Keys -> 0..MaxCleans]
    /\ Cardinality(Receivers) <= ReceiveCapacity
    /\ \A t \in Tasks : pc[t] = "storing" => pool[t] = t /\ t \in created[poolKey(t)]

Init ==
    /\ cached = [k \in Keys |-> NoPool]
    /\ pc = [t \in Tasks |-> "none"]
    /\ pool = [t \in Tasks |-> NoPool]
    /\ doomed = {}
    /\ created = [k \in Keys |-> {}]
    /\ cleans = [k \in Keys |-> 0]

-----------------------------------------------------------------------------

Goto(t, from, to) == pc[t] = from /\ pc' = [pc EXCEPT ![t] = to]

\* A handler calls AddTask and waits while receiveTaskPool is full.
AddTask(t) ==
    /\ Goto(t, "none", "offered")
    /\ UNCHANGED <<cached, pool, doomed, created, cleans>>

\* Mutant: a goroutine for every task.
ReceiveUnbounded(t) ==
    /\ Goto(t, "offered", "looking")
    /\ UNCHANGED <<cached, pool, doomed, created, cleans>>

Receive(t) ==
    /\ Cardinality(Receivers) < ReceiveCapacity
    /\ Goto(t, "offered", "looking")
    /\ UNCHANGED <<cached, pool, doomed, created, cleans>>

Found(t) == /\ cached[poolKey(t)] # NoPool
            /\ pool' = [pool EXCEPT ![t] = cached[poolKey(t)]]

\* Get: the first look into the cache.
Get(t) ==
    /\ \/ Found(t) /\ Goto(t, "looking", "submitting")
       \/ /\ cached[poolKey(t)] = NoPool
          /\ Goto(t, "looking", "making")
          /\ UNCHANGED pool
    /\ UNCHANGED <<cached, doomed, created, cleans>>

\* newPool: the second look, and ants.NewPool ...
NewPool(t) ==
    /\ \/ /\ Found(t) /\ Goto(t, "making", "submitting")
          /\ UNCHANGED created
       \/ /\ cached[poolKey(t)] = NoPool
          /\ Goto(t, "making", "storing")
          /\ pool' = [pool EXCEPT ![t] = t]
          /\ created' = [created EXCEPT ![poolKey(t)] = @ \cup {t}]
    /\ UNCHANGED <<cached, doomed, cleans>>

\* Mutant: the pool is not put into the cache.
StorePoolNowhere(t) ==
    /\ Goto(t, "storing", "submitting")
    /\ UNCHANGED <<cached, pool, doomed, created, cleans>>

\* ... and its Set, which replaces whatever is there by now.
StorePool(t) ==
    /\ Goto(t, "storing", "submitting")
    /\ cached' = [cached EXCEPT ![poolKey(t)] = pool[t]]
    /\ UNCHANGED <<pool, doomed, created, cleans>>

RunningIn(p) == {t \in Tasks : pc[t] = "running" /\ pool[t] = p}

\* ants: a pool of size 0 or less has no bound.
HasRoom(p) == \/ RoutineCount[TypeOf[p]] <= 0
              \/ Cardinality(RunningIn(p)) < RoutineCount[TypeOf[p]]

\* Mutant: the pool is created with WithNonblocking(true), and AddTask only logs
\* the error of Submit.
SubmitNonblocking(t) ==
    /\ Goto(t, "submitting", IF HasRoom(pool[t]) THEN "running" ELSE "none")
    /\ UNCHANGED <<cached, pool, doomed, created, cleans>>

\* Submit blocks while the pool is full; which of the goroutines that wait goes
\* first is not determined.
Submit(t) ==
    /\ Goto(t, "submitting", "running")
    /\ HasRoom(pool[t])
    /\ UNCHANGED <<cached, pool, doomed, created, cleans>>

\* The closure returns or panics; either frees its worker.
Finish(t) ==
    /\ Goto(t, "running", "finished")
    /\ UNCHANGED <<cached, pool, doomed, created, cleans>>

-----------------------------------------------------------------------------
(* DELETE and POST /api/v1/caches.                                         *)

\* CleanAll takes the keys that begin with the id of the vCenter ...
CleanAll(vc) ==
    /\ doomed' = doomed \cup {k \in Keys : k[1] = vc /\ cached[k] # NoPool}
    /\ doomed' # doomed
    /\ UNCHANGED <<cached, pc, pool, created, cleans>>

\* ... and deletes one after the other, whatever they hold by then.
CleanKey(k) ==
    /\ k \in doomed
    /\ cleans[k] < MaxCleans
    /\ doomed' = doomed \ {k}
    /\ cached' = [cached EXCEPT ![k] = NoPool]
    /\ cleans' = [cleans EXCEPT ![k] = @ + 1]
    /\ UNCHANGED <<pc, pool, created>>

-----------------------------------------------------------------------------

TaskStep(t) == \/ Receive(t) \/ Get(t) \/ NewPool(t) \/ StorePool(t)
               \/ Submit(t) \/ Finish(t)

Idle == (\A t \in Tasks : pc[t] = "finished") /\ UNCHANGED vars

Next == \/ \E t \in Tasks : AddTask(t) \/ TaskStep(t)
        \/ \E vc \in Vcs : CleanAll(vc)
        \/ \E k \in Keys : CleanKey(k)
        \/ Idle

Spec == Init /\ [][Next]_vars

\* Goroutines that can run do run, and every closure returns: its calls to
\* vCenter end or time out.  A Submit that waits is woken when a worker frees.
FairSpec == Spec /\ \A t \in Tasks : WF_vars(TaskStep(t))

-----------------------------------------------------------------------------
(* Properties.                                                             *)

Running(k) == {t \in Tasks : pc[t] = "running" /\ poolKey(t) = k}

\* The price of the local mutex and of CleanAll, exactly: between two removals of
\* a key, only the goroutines that looked before the first pool was stored create
\* one, and no more than ReceiveCapacity of them are under way at a time.  The
\* closures that run for a vCenter and type are bounded accordingly.
PoolsAreBounded ==
    \A k \in Keys :
        Cardinality(created[k]) <= ReceiveCapacity * (cleans[k] + 1)

RunningIsBounded ==
    \A k \in Keys :
        RoutineCount[k[2]] > 0 =>
            Cardinality(Running(k))
                <= RoutineCount[k[2]] * ReceiveCapacity * (cleans[k] + 1)

\* Work for one vCenter and type never runs on, and never fills, the pool of
\* another.
PoolsAreSeparate ==
    \A t \in Tasks :
        pool[t] # NoPool => VcOf[pool[t]] = VcOf[t] /\ TypeOf[pool[t]] = TypeOf[t]

\* Every closure that AddTask takes is run to its end, also on a pool that has
\* been removed from the cache or replaced in it.
EveryTaskRuns == \A t \in Tasks : pc[t] = "offered" ~> pc[t] = "finished"

(* The inductive invariants behind them.                                   *)

Storing(k) == {t \in Tasks : pc[t] = "storing" /\ poolKey(t) = k}

\* While the cache holds no pool for a key, all pools created since the last
\* removal are still in the hands of the goroutines that are about to store
\* them, and those are no more than ReceiveCapacity.
CreatedInv ==
    \A k \in Keys :
        /\ Cardinality(created[k]) <= ReceiveCapacity * (cleans[k] + 1)
        /\ cached[k] = NoPool =>
             Cardinality(created[k] \ Storing(k)) <= ReceiveCapacity * cleans[k]

\* A pool is found under, and created for, the key of the task that uses it.
OwnPoolInv ==
    /\ \A k \in Keys :
         cached[k] # NoPool => poolKey(cached[k]) = k /\ cached[k] \in created[k]
    /\ \A t \in Tasks :
         /\ pool[t] # NoPool =>
              poolKey(pool[t]) = poolKey(t) /\ pool[t] \in created[poolKey(t)]
         /\ pc[t] \in {"submitting", "running"} => pool[t] # NoPool

\* No single pool runs more than its routine count.
RoomInv ==
    \A p \in Tasks :
        RoutineCount[TypeOf[p]] > 0 =>
            Cardinality(RunningIn(p)) <= RoutineCount[TypeOf[p]]

=============================================================================
