------------------------------ MODULE VCCache ------------------------------
(***************************************************************************)
(* The cache of vCenter's inventory (vsphere/cache, vsphere/vcenter.go)    *)
(* and those who use it at once: queries, which look into it, ask vCenter  *)
(* and fill it; DELETE caches, which cleans it; POST caches, whose         *)
(* goroutine cleans it, fills it and makes the refresh ticker.  Each look  *)
(* into the cache, each call of vCenter, each deletion and each of the two *)
(* halves of a Set is a step of its own, and every call of vCenter may     *)
(* fail.                                                                   *)
(***************************************************************************)
EXTENDS Inventory, Sequences

CONSTANTS
    Calls,        \* the requests clients send
    Asked,        \* the kinds, parameters and spellings clients use
    Enabled,      \* vsphere.cache.enable
    Ignored,      \* the kinds that vsphere.cache.ignore lists for this vCenter
    IgnoredWhole, \* it lists the vCenter without items
    Refresh,      \* vsphere.cache.refreshDuration is positive
    Inventories,  \* the inventories vCenter may have
    FillKinds,    \* the kinds that CreateCache fills, in its order
    Probes,       \* the parameters for which both ways of a query are compared
    Warmed,       \* the sets of kinds that may be cached to begin with
    CleanLists,   \* bound: the lists of kinds whose keys clients clean
    MaxChanges,   \* bound: changes of the inventory
    MaxFailures   \* bound: calls of vCenter that fail

\* go-cache keys: VCID::kind, and VCID::VCID::kind where the caller has
\* prepended the VCID once more.
Single(k) == <<"single", k>>
Double(k) == <<"double", k>>
\* Mutant: the caller prepends the VCID, as for pools.
DatacenterKeyPrefixed == Double("datacenter")
DatacenterKey == Single("datacenter")
ClusterKey    == Single("cluster")
DatastoreKey  == Single("datastore")
NetworkKey    == Single("network")
FolderKey     == Single("folder")
HostKey       == Single("host")
PolicyKey     == Single("policy")
PoolKey       == Double("pool")
FamilySetKey  == Double("osfamily")
FamilyGetKey  == Single("osfamily")
TickerKey     == Single("RefreshTicker")

Shared(k) ==
    CASE k = "datacenter" -> DatacenterKey
      [] k = "cluster"    -> ClusterKey
      [] k = "datastore"  -> DatastoreKey
      [] k = "network"    -> NetworkKey
      [] k = "folder"     -> FolderKey
      [] k = "host"       -> HostKey
      [] k = "policy"     -> PolicyKey
      [] k = "pool"       -> PoolKey
\* Mutant: the list of policies is stored as that of OS families is.
SetKeyPrefixed(k) == IF k \in {"osfamily", "policy"} THEN Double(k) ELSE Shared(k)
SetKey(k) == IF k = "osfamily" THEN FamilySetKey ELSE Shared(k)
GetKey(k) == IF k = "osfamily" THEN FamilyGetKey ELSE Shared(k)
Keys == {Single(k) : k \in (CachedKinds \ {"pool", "osfamily"}) \cup {"RefreshTicker"}}
          \cup {Double(k) : k \in {"pool", "osfamily"}}

\* Setup and ignore: a prefix is the key of an item or the VCID itself.
Ignore(key) == IgnoredWhole \/ key \in {Single(k) : k \in Ignored}

ASSUME CacheAssumption ==
    /\ Asked \subseteq ((Kinds \ {"osfamily"}) \X Spellings \X QueryParams)
    /\ Probes \subseteq QueryParams
    /\ Enabled \in BOOLEAN /\ IgnoredWhole \in BOOLEAN /\ Refresh \in BOOLEAN
    /\ Ignored \subseteq CachedKinds
    /\ Inventories \subseteq SUBSET Objects
    /\ \A w \in Inventories : \A o \in w : Above[o] \subseteq w
    /\ Warmed \subseteq SUBSET CachedKinds
    /\ FillKinds \in Seq(CachedKinds) /\ CleanLists \subseteq Seq(CachedKinds)
    /\ MaxChanges \in Nat /\ MaxFailures \in Nat

VARIABLES
    present,    \* the inventory of vCenter
    changes,    \* how often it has changed
    failures,   \* how many calls have failed
    cache,      \* the lists in go-cache, by key (nothing under that of the ticker)
    tickers,    \* the calls that made a ticker, which runs
    kept,       \* the one of them whose ticker is under its key, if that is there
    pc,         \* pc[c]: where call c is
    op,         \* op[c]: what it does: a query, a clean or CreateCache
    todo,       \* todo[c]: the kinds it has still to clean or fill
    rest,       \* rest[c]: the datacenters its walk has still to visit, or the
                \* objects it has still to ask for
    acc,        \* acc[c]: the list it builds
    doomed,     \* doomed[c]: the keys that CleanAll has listed
    answer,     \* answer[c]: what it answered

    \* History, read by no action's guard.
    since,      \* since[k]: the inventories since kind k was cleaned last
    mark,       \* mark[c]: the inventories since c listed the keys
    late,       \* the keys under which, since they were cleaned, a list has been
                \* stored that was being read then
    overtaken,  \* the calls that read a list when the cache was cleaned
    disturbed,  \* the calls that met a failure, or a clean by another
    raced,      \* the calls that had a ticker to store while another had
    seen        \* seen[c]: the inventories since c began

vcenter == <<present, changes, failures>>
ticking == <<tickers, kept, raced>>
local   == <<pc, op, todo, rest, acc, doomed, answer>>
history == <<since, mark, late, overtaken, disturbed, seen>>
vars    == <<vcenter, cache, ticking, local, history>>

NoOp == [does |-> "none", kind |-> "none", spelling |-> "none", q |-> NoQuery,
         keys |-> << >>]
Queries == {[does |-> "query", kind |-> a[1], spelling |-> a[2], q |-> a[3],
             keys |-> << >>] : a \in Asked}
\* The keys that a client lists, and CreateCache, which answers 400 if the
\* cache is not enabled.
Cleans == {[NoOp EXCEPT !.does = "clean", !.keys = l] : l \in CleanLists}
Creates == IF Enabled THEN {[NoOp EXCEPT !.does = "create"]} ELSE {}
CleanAlls == {[NoOp EXCEPT !.does = "cleanAll"]}

\* A call in a place that ends in -Write has looked for the key it is to set.
Pcs == {"idle", "looking", "asking", "fetching", "filling", "datacenters",
        "keeping", "keepWrite", "listing", "policies", "storing", "storeWrite",
        "cleaning", "deleting", "ticker", "tickerMade", "tickerWrite", "done",
        "panicked"}
Lists == SUBSET [id : Objects, dc : Objects \cup {None},
                 cluster : Objects \cup {None}, host : Objects \cup {None}]

TypeOK ==
    /\ present \in Inventories
    /\ changes \in 0..MaxChanges /\ failures \in 0..MaxFailures
    /\ DOMAIN cache \subseteq Keys
    /\ \A k \in DOMAIN cache : cache[k] \in Lists
    /\ tickers \subseteq Calls /\ kept \in Calls \cup {None} /\ raced \subseteq Calls
    /\ pc \in [Calls -> Pcs]
    /\ op \in [Calls -> {NoOp} \cup Queries \cup Cleans \cup CleanAlls \cup Creates]
    /\ todo \in [Calls -> Seq(CachedKinds)]
    /\ rest \in [Calls -> SUBSET Objects]
    /\ acc \in [Calls -> Lists]
    /\ doomed \in [Calls -> SUBSET Keys]
    /\ answer \in [Calls -> [panic : BOOLEAN, list : Lists]]
    /\ since \in [CachedKinds -> SUBSET Inventories]
    /\ mark \in [Calls -> SUBSET Inventories]
    /\ late \subseteq Keys
    /\ overtaken \subseteq Calls /\ disturbed \subseteq Calls
    /\ seen \in [Calls -> SUBSET Inventories]

\* The process has just started, or queries have filled the cache.
KindOf(key) == CHOOSE k \in CachedKinds : SetKey(k) = key
Warm(ks, w) == [key \in {SetKey(k) : k \in ks} |-> Walked(KindOf(key), w)]
Empty == Warm({}, {})

Init ==
    /\ present \in Inventories
    /\ changes = 0 /\ failures = 0
    /\ cache \in IF Enabled /\ ~IgnoredWhole /\ Ignored = {}
                THEN {Empty} \cup {Warm(ks, present) : ks \in Warmed} ELSE {Empty}
    /\ tickers = {} /\ kept = None /\ raced = {}
    /\ pc = [c \in Calls |-> "idle"]
    /\ op = [c \in Calls |-> NoOp]
    /\ todo = [c \in Calls |-> << >>]
    /\ rest = [c \in Calls |-> {}]
    /\ acc = [c \in Calls |-> {}]
    /\ doomed = [c \in Calls |-> {}]
    /\ answer = [c \in Calls |-> Answer({})]
    /\ since = [k \in CachedKinds |-> {present}]
    /\ mark = [c \in Calls |-> {}]
    /\ late = {} /\ overtaken = {} /\ disturbed = {}
    /\ seen = [c \in Calls |-> {}]

-----------------------------------------------------------------------------
(* VCCache                                                                 *)

\* Get, for lists: a miss and a nil list are alike.
Get(k) == IF Enabled /\ GetKey(k) \in DOMAIN cache THEN cache[GetKey(k)] ELSE {}

\* Set looks for the key first, and if it is there an older value stays.  What it
\* stores afterwards replaces what another has stored meanwhile.
Settable(key) == Enabled /\ ~Ignore(key) /\ key \notin DOMAIN cache
Store(c, key, list) ==
    /\ cache' = [x \in DOMAIN cache \cup {key} |-> IF x = key THEN list ELSE cache[x]]
    /\ late' = IF c \in overtaken THEN late \cup {key} ELSE late

\* Delete of a key.  A call that is between reading a list and storing it is
\* overtaken by a clean.
Reading == {"keeping", "keepWrite", "listing", "storing", "storeWrite"}
Delete(key) ==
    /\ cache' = [k \in DOMAIN cache \ {key} |-> cache[k]]
    /\ late' = late \ {key}
Cleaned(kinds, worlds) ==
    since' = [k \in CachedKinds |-> IF k \in kinds THEN worlds ELSE since[k]]
Disturb(c) == disturbed' = disturbed \cup {g \in Calls \ {c} : pc[g] # "idle"}
Overtake(c) ==
    /\ overtaken' = overtaken \cup {g \in Calls \ {c} : pc[g] \in Reading}
    /\ Disturb(c)

-----------------------------------------------------------------------------
(* Queries and fills                                                       *)

Goto(c, from, to) == pc[c] = from /\ pc' = [pc EXCEPT ![c] = to]

\* A call of vCenter, which fails or not.
Outcome(c, ok) ==
    /\ ok \/ failures < MaxFailures
    /\ failures' = failures + (IF ok THEN 0 ELSE 1)
    /\ disturbed' = IF ok THEN disturbed ELSE disturbed \cup {c}
    /\ UNCHANGED <<present, changes>>

\* What call c reads of its parameters, and the kind it is about.
Query(c) == Bind(op[c].kind, op[c].spelling, op[c].q)
Kind(c) == IF op[c].does = "query" THEN op[c].kind ELSE Head(todo[c])

\* A handler binds its request and connects (module ApiSession).
Receive(c) ==
    /\ pc[c] = "idle"
    /\ \E o \in Queries \cup Cleans \cup CleanAlls \cup Creates :
         /\ op' = [op EXCEPT ![c] = o]
         /\ pc' = [pc EXCEPT ![c] = IF o.does = "query" THEN "looking" ELSE "cleaning"]
         /\ todo' = [todo EXCEPT ![c] = o.keys]
    /\ seen' = [seen EXCEPT ![c] = {present}]
    /\ UNCHANGED <<vcenter, cache, ticking, rest, acc, doomed, answer, since,
                   mark, late, overtaken, disturbed>>

\* The end of a query, or of a turn of createCache.
Return(c, from, list) ==
    /\ IF op[c].does = "query"
         THEN /\ Goto(c, from, "done")
              /\ answer' = [answer EXCEPT ![c] = Answer(list)]
              /\ UNCHANGED todo
         ELSE /\ Goto(c, from, "filling")
              /\ todo' = [todo EXCEPT ![c] = Tail(@)]
              /\ UNCHANGED answer
    /\ overtaken' = overtaken \ {c}
    /\ rest' = [rest EXCEPT ![c] = {}]
    /\ acc' = [acc EXCEPT ![c] = {}]
    /\ UNCHANGED <<op, doomed>>

\* A handler looks into the cache; a list without a match counts for a miss.
LookInCache(c) ==
    LET k == op[c].kind
        hits == IF k \in CachedKinds THEN QueryCache(k, Query(c), Get(k)) ELSE {}
        turns == IF Walks(k, Query(c)) THEN {} ELSE Turns(k, Query(c))
        next == CASE turns # {}         -> "fetching"
                  [] turns = {} /\ ~Walks(k, Query(c)) -> "asking"
                  [] turns = {} /\ Walks(k, Query(c)) /\ k = "policy" -> "policies"
                  [] OTHER              -> "datacenters"
    IN /\ pc[c] = "looking"
       /\ IF hits # {} THEN Return(c, "looking", hits)
          ELSE /\ Goto(c, "looking", next)
               /\ rest' = [rest EXCEPT ![c] = turns]
               /\ UNCHANGED <<op, todo, acc, doomed, answer, overtaken>>
       /\ UNCHANGED <<vcenter, cache, ticking, since, mark, late, disturbed, seen>>

Conclusion(c, from, a) ==
    /\ Goto(c, from, IF a.panic THEN "panicked" ELSE "done")
    /\ answer' = [answer EXCEPT ![c] = a]
    /\ UNCHANGED <<cache, ticking, op, todo, doomed, since, mark, late, overtaken,
                   seen>>

\* The objects a query names are asked of vCenter at once ...
AskVCenter(c, ok) ==
    /\ pc[c] = "asking"
    /\ Outcome(c, ok)
    /\ \E a \in IF ok THEN {QueryVCenter(op[c].kind, Query(c), present)}
            ELSE IF op[c].kind = "pool" THEN PoolsUnread(Query(c), present)
            ELSE {Answer({})} : Conclusion(c, "asking", a)
    /\ UNCHANGED <<rest, acc>>

\* ... or one after the other, and what cannot be had is skipped ...
FetchNext(c, ok) ==
    /\ pc[c] = "fetching"
    /\ Outcome(c, ok)
    /\ \E o \in rest[c] :
         /\ rest' = [rest EXCEPT ![c] = @ \ {o}]
         /\ acc' = [acc EXCEPT ![c] = IF ok THEN @ \cup Told(op[c].kind, o, present) ELSE @]
    /\ UNCHANGED <<cache, ticking, pc, op, todo, doomed, answer, since, mark, late,
                   overtaken, seen>>

\* ... until all have been asked for.
FetchEnds(c) ==
    /\ rest[c] = {}
    /\ Conclusion(c, "fetching", Conclude(op[c].kind, acc[c]))
    /\ acc' = [acc EXCEPT ![c] = {}]
    /\ UNCHANGED <<vcenter, rest, disturbed>>

\* createCache goes from kind to kind; three getters look for their list first.
FillNext(c) ==
    /\ pc[c] = "filling"
    /\ \/ /\ todo[c] = << >>
          /\ Goto(c, "filling", IF Refresh THEN "ticker" ELSE "done")
          /\ UNCHANGED <<todo, rest, acc, answer, overtaken, op, doomed>>
       \/ /\ todo[c] # << >> /\ Kind(c) \in {"policy", "osfamily"}
          /\ Get(Kind(c)) # {}
          /\ Return(c, "filling", {})
       \/ /\ todo[c] # << >>
          /\ Kind(c) \in {"policy", "osfamily"} => Get(Kind(c)) = {}
          /\ Goto(c, "filling", IF Kind(c) = "policy" THEN "policies" ELSE "datacenters")
          /\ UNCHANGED <<todo, rest, acc, answer, overtaken, op, doomed>>
    /\ UNCHANGED <<vcenter, cache, ticking, since, mark, late, disturbed, seen>>

\* getDatacenters, which every walk begins with.
GetDatacenters(c, ok) ==
    /\ pc[c] = "datacenters"
    /\ IF Get("datacenter") # {}
         THEN /\ ok
              /\ IF Kind(c) = "datacenter" THEN Return(c, "datacenters", Get("datacenter"))
                 ELSE /\ Goto(c, "datacenters", "listing")
                      /\ rest' = [rest EXCEPT ![c] = Ids(Get("datacenter"))]
                      /\ UNCHANGED <<op, todo, acc, doomed, answer, overtaken>>
              /\ UNCHANGED <<vcenter, disturbed>>
         ELSE /\ Outcome(c, ok)
              /\ IF ok
                 THEN /\ Goto(c, "datacenters", "keeping")
                      /\ acc' = [acc EXCEPT ![c] = Whole("datacenter", present)]
                      /\ UNCHANGED <<op, todo, rest, doomed, answer, overtaken>>
                 ELSE IF Kind(c) = "osfamily"
                 THEN /\ Goto(c, "datacenters", "storing")
                      /\ UNCHANGED <<op, todo, rest, acc, doomed, answer, overtaken>>
                 ELSE Return(c, "datacenters", {})
    /\ UNCHANGED <<cache, ticking, since, mark, late, seen>>

\* Its end: the datacenters are cached, and are the answer or what is walked.
WalkDatacenters(c, from) ==
    IF Kind(c) = "datacenter" THEN Return(c, from, acc[c])
    ELSE /\ Goto(c, from, "listing")
         /\ rest' = [rest EXCEPT ![c] = Ids(acc[c])]
         /\ acc' = [acc EXCEPT ![c] = {}]
         /\ overtaken' = overtaken \ {c}
         /\ UNCHANGED <<op, todo, doomed, answer>>
KeepDatacenters(c) ==
    /\ pc[c] = "keeping"
    /\ IF Settable(DatacenterKey)
         THEN /\ Goto(c, "keeping", "keepWrite")
              /\ UNCHANGED <<op, todo, rest, acc, doomed, answer, overtaken>>
         ELSE WalkDatacenters(c, "keeping")
    /\ UNCHANGED <<vcenter, cache, ticking, late, since, mark, disturbed, seen>>
StoreDatacenters(c) ==
    /\ pc[c] = "keepWrite"
    /\ Store(c, DatacenterKey, acc[c])
    /\ WalkDatacenters(c, "keepWrite")
    /\ UNCHANGED <<vcenter, ticking, since, mark, disturbed, seen>>

\* One turn of the walk: a datacenter that cannot be listed is skipped, and of OS
\* families only those of the compute resources that cannot be asked.
ListNext(c, ok) ==
    /\ pc[c] = "listing"
    /\ Outcome(c, ok)
    /\ \E d \in rest[c] :
         /\ rest' = [rest EXCEPT ![c] = @ \ {d}]
         /\ \E part \in IF ok THEN {Listed(Kind(c), d, present)}
                        ELSE IF Kind(c) = "osfamily" THEN SUBSET Listed("osfamily", d, present)
                        ELSE {{}} :
              acc' = [acc EXCEPT ![c] = @ \cup part]
    /\ UNCHANGED <<cache, ticking, pc, op, todo, doomed, answer, since, mark, late,
                   overtaken, seen>>

\* The end of the walk: what it found is cached, but for machines, and returned.
WalkEnds(c) ==
    /\ \/ pc[c] = "listing" /\ rest[c] = {}
       \/ pc[c] = "storing"
    /\ IF Kind(c) \notin MachineKinds /\ Settable(SetKey(Kind(c)))
         THEN /\ Goto(c, pc[c], "storeWrite")
              /\ UNCHANGED <<op, todo, rest, acc, doomed, answer, overtaken>>
         ELSE Return(c, pc[c], acc[c])
    /\ UNCHANGED <<vcenter, cache, ticking, late, since, mark, disturbed, seen>>
StoreWalk(c) ==
    /\ pc[c] = "storeWrite"
    /\ Store(c, SetKey(Kind(c)), acc[c])
    /\ Return(c, "storeWrite", acc[c])
    /\ UNCHANGED <<vcenter, ticking, since, mark, disturbed, seen>>

\* QueryStoragePolicies asks for all policies.
GetPolicies(c, ok) ==
    /\ pc[c] = "policies"
    /\ Outcome(c, ok)
    /\ IF ok THEN /\ Goto(c, "policies", "storing")
                  /\ acc' = [acc EXCEPT ![c] = Whole("policy", present)]
                  /\ UNCHANGED <<op, todo, rest, doomed, answer, overtaken>>
             ELSE Return(c, "policies", {})
    /\ UNCHANGED <<cache, ticking, since, mark, late, seen>>

-----------------------------------------------------------------------------
(* Cleaning, CreateCache and its ticker                                    *)

\* Clean: the keys of a request one after the other, each under the VCID.
CleanNext(c, key) ==
    /\ Delete(key)
    /\ Cleaned({Head(todo[c])}, {present})
    /\ Overtake(c)
    /\ todo' = [todo EXCEPT ![c] = Tail(@)]
    /\ UNCHANGED <<vcenter, ticking, pc, op, rest, acc, doomed, answer, mark, seen>>
CleanEnds(c) ==
    /\ Goto(c, "cleaning", "done")
    /\ UNCHANGED <<vcenter, cache, ticking, op, todo, rest, acc, doomed, answer, history>>

\* Mutant: Clean prepends the VCID twice.
CleanKeysPrefixed(c) ==
    /\ op[c].does = "clean" /\ pc[c] = "cleaning"
    /\ IF todo[c] = << >> THEN CleanEnds(c) ELSE CleanNext(c, Double(Head(todo[c])))

CleanKeys(c) ==
    /\ op[c].does = "clean" /\ pc[c] = "cleaning"
    /\ IF todo[c] = << >> THEN CleanEnds(c) ELSE CleanNext(c, Single(Head(todo[c])))

\* Mutant: the ticker's key is not spared.
CleanAllWithTicker(c) ==
    /\ op[c].does \in {"cleanAll", "create"}
    /\ Goto(c, "cleaning", "deleting")
    /\ doomed' = [doomed EXCEPT ![c] = DOMAIN cache]
    /\ mark' = [mark EXCEPT ![c] = {present}]
    /\ Overtake(c)
    /\ UNCHANGED <<vcenter, cache, ticking, op, todo, rest, acc, answer, since, late,
                   seen>>

\* CleanAll lists the keys of the vCenter, but for the ticker ...
CleanAll(c) ==
    /\ op[c].does \in {"cleanAll", "create"}
    /\ Goto(c, "cleaning", "deleting")
    /\ doomed' = [doomed EXCEPT ![c] = DOMAIN cache \ {TickerKey}]
    /\ mark' = [mark EXCEPT ![c] = {present}]
    /\ Overtake(c)
    /\ UNCHANGED <<vcenter, cache, ticking, op, todo, rest, acc, answer, since, late,
                   seen>>

\* ... and deletes them one after the other; CreateCache goes on to fill.
DeleteNext(c) ==
    /\ pc[c] = "deleting"
    /\ \E key \in doomed[c] : /\ Delete(key)
                             /\ doomed' = [doomed EXCEPT ![c] = @ \ {key}]
    /\ Disturb(c)
    /\ UNCHANGED <<vcenter, ticking, pc, op, todo, rest, acc, answer, since, mark,
                   overtaken, seen>>
AllDeleted(c) ==
    /\ doomed[c] = {}
    /\ Goto(c, "deleting", IF op[c].does = "create" THEN "filling" ELSE "done")
    /\ Cleaned(CachedKinds, mark[c])
    /\ Disturb(c)
    /\ todo' = [todo EXCEPT ![c] = IF op[c].does = "create" THEN FillKinds ELSE << >>]
    /\ UNCHANGED <<vcenter, cache, ticking, op, rest, acc, doomed, answer, mark, late,
                   overtaken, seen>>

\* CreateCacheTicker: none is made if one is cached.  Nothing reads its channel.
Keeping == {"tickerMade", "tickerWrite"}
MakeTicker(c) ==
    /\ IF TickerKey \in DOMAIN cache
         THEN Goto(c, "ticker", "done") /\ UNCHANGED <<tickers, raced>>
         ELSE /\ Goto(c, "ticker", "tickerMade")
              /\ tickers' = tickers \cup {c}
              /\ LET others == {g \in Calls \ {c} : pc[g] \in Keeping}
                 IN  raced' = IF others = {} THEN raced ELSE raced \cup others \cup {c}
    /\ UNCHANGED <<vcenter, cache, kept, op, todo, rest, acc, doomed, answer, history>>

\* The Set of the ticker.
KeepTicker(c) ==
    /\ Goto(c, "tickerMade", IF Settable(TickerKey) THEN "tickerWrite" ELSE "done")
    /\ UNCHANGED <<vcenter, cache, ticking, op, todo, rest, acc, doomed, answer, history>>
StoreTicker(c) ==
    /\ Goto(c, "tickerWrite", "done")
    /\ Store(c, TickerKey, {}) /\ kept' = c
    /\ UNCHANGED <<vcenter, tickers, raced, op, todo, rest, acc, doomed, answer, since,
                   mark, overtaken, disturbed, seen>>

\* Others change the inventory.
Change ==
    /\ changes < MaxChanges
    /\ changes' = changes + 1
    /\ \E w \in Inventories \ {present} :
         /\ present' = w
         /\ since' = [k \in CachedKinds |-> since[k] \cup {w}]
         /\ mark' = [c \in Calls |-> IF mark[c] = {} THEN {} ELSE mark[c] \cup {w}]
         /\ seen' = [c \in Calls |-> IF seen[c] = {} THEN {} ELSE seen[c] \cup {w}]
    /\ UNCHANGED <<failures, cache, ticking, local, late, overtaken, disturbed>>

Step(c) ==
    \/ LookInCache(c) \/ FetchEnds(c) \/ FillNext(c)
    \/ KeepDatacenters(c) \/ StoreDatacenters(c) \/ WalkEnds(c) \/ StoreWalk(c)
    \/ CleanKeys(c) \/ CleanAll(c) \/ DeleteNext(c) \/ AllDeleted(c)
    \/ MakeTicker(c) \/ KeepTicker(c) \/ StoreTicker(c)
    \/ \E ok \in BOOLEAN : \/ AskVCenter(c, ok) \/ FetchNext(c, ok)
                           \/ GetDatacenters(c, ok) \/ ListNext(c, ok)
                           \/ GetPolicies(c, ok)

Quiet == (\A c \in Calls : pc[c] \in {"done", "panicked"}) /\ UNCHANGED vars

Next == (\E c \in Calls : Receive(c) \/ Step(c)) \/ Change \/ Quiet

Spec == Init /\ [][Next]_vars

-----------------------------------------------------------------------------
(* Properties                                                              *)

\* What a list of kind k says of a datacenter is what vCenter had there in one
\* of some inventories; a list that no walk makes is that of one inventory.
Explained(k, list, worlds) ==
    IF k \in {"datacenter", "policy"} THEN \E w \in worlds : list = Whole(k, w)
    ELSE \A i \in list : /\ Type[i.dc] = "datacenter"
                         /\ \E w \in worlds :
                              {e \in list : e.dc = i.dc} = Listed(k, i.dc, w)

\* The kinds that a clean need not reach: those whose key a client cannot name,
\* of which the one is stored where nothing looks for it (os_family_cache.go:10),
\* and the other can be named in vain (resource_pool_cache.go:10).
Elements(seq) == {seq[i] : i \in DOMAIN seq}
Unfelt == {"osfamily"} \cup {k \in {"pool"} : \E c \in Calls : k \in Elements(op[c].keys)}

\* A cached list tells, datacenter by datacenter, what vCenter had at one moment
\* since the kind was cleaned (datacenters may be missing: those that could not
\* be listed).  Excepted are lists that were being read when the cache was
\* cleaned (vc_cache.go:46), and the kinds that a clean need not reach.
CleanIsFelt ==
    \A k \in CachedKinds \ Unfelt :
       SetKey(k) \in DOMAIN cache \ late => Explained(k, cache[SetKey(k)], since[k])

\* Where a cached list is not read as vCenter is asked: pools by cluster or
\* host, pools by id, which vCenter is never found to have, and folders by
\* datacenter, of which vCenter is asked for the machine folders only.
ReadOtherwise(k, q) ==
    \/ k = "pool" /\ (q.ids # {} \/ q.cluster # None \/ q.host # None)
    \/ k = "folder" /\ q.ids = {} /\ q.dc # None

\* Where a parameter is not heeded: the cluster and the host of a machine, the
\* ids of machines, which are read as ids of folders, and all but one of several
\* containers.
Scopes(q) == {q.dc, q.cluster, q.host, q.folder} \ {None}
Unheeded(k, q) ==
    \/ k \in MachineKinds /\ (q.ids # {} \/ q.cluster # None \/ q.host # None)
    \/ \E s, t \in Scopes(q) : s # t

\* A complete and current list answers a query with other objects than vCenter
\* would be found to have.
Disagree(k, s, p, w) ==
    LET q == Bind(k, s, p)
        hits == QueryCache(k, q, Walked(k, w))
    IN  /\ ~Walks(k, q) /\ ~ReadOtherwise(k, q)
        /\ hits # {}
        /\ Ids(hits) # Ids(QueryVCenter(k, q, w).list)
Disagreements ==
    {<<e[1], e[4]>> :
       e \in {e \in (CachedKinds \ {"osfamily"}) \X Spellings \X Probes \X Inventories :
                Disagree(e[1], e[2], e[3], e[4])}}

\* The two implementations of each query (queryXFromCache, getXByY) agree: while
\* the list of a kind is cached, complete and current, whatever is asked of it
\* is answered with the objects vCenter would be found to have.
CachedAnswersAgree ==
    \A k \in CachedKinds :
       <<k, present>> \in Disagreements => Get(k) # Walked(k, present)

Answered(c) == op[c].does = "query" /\ pc[c] = "done"
Worlds(c) == IF op[c].kind \in CachedKinds THEN since[op[c].kind] \cup seen[c]
                                           ELSE seen[c]
InSome(c) == UNION {Meeting(op[c].kind, op[c].q, w) : w \in Worlds(c)}

\* The objects of a kind that some inventories all have.  Left out are those in
\* a datacenter that comes or goes: the walks go by the cached datacenters, and
\* a list of objects misses those of a new datacenter even after it has been
\* cleaned, until the datacenters are cleaned, too.
Lasting(o) ==
    \A d \in Above[o] : Type[d] = "datacenter" => \A w \in Inventories : d \in w
Steady(k, worlds) ==
    {o \in Objects : Type[o] = k /\ Lasting(o) /\ \A w \in worlds : o \in w}

\* Parameters that a handler does not bind under the name the client used.
Unbound(c) == Query(c) # op[c].q

\* A query answers with objects that meet what was asked, and, when no call of
\* vCenter has failed, with all of them, whether it came from the cache, from
\* vCenter or from a walk.  Excepted are parameters that are not bound or not
\* heeded, the queries ReadOtherwise names, and lists that no clean has reached.
AnswersFit ==
    \A c \in Calls :
       /\ Answered(c) /\ c \notin disturbed /\ ~Unbound(c)
       /\ ~ReadOtherwise(op[c].kind, op[c].q) /\ ~Unheeded(op[c].kind, op[c].q)
       /\ op[c].kind \notin Unfelt
       /\ \A k \in CachedKinds \ {"osfamily"} : SetKey(k) \notin late
       => /\ Ids(answer[c].list) \subseteq InSome(c)
          /\ failures = 0 => {o \in Steady(op[c].kind, Worlds(c)) :
                                 Meets(op[c].kind, op[c].q, o)} \subseteq Ids(answer[c].list)

\* A kind that a call has filled is found, if there was anything to find.
Found(c, k) ==
    \/ k \in Unfelt \/ Ignore(SetKey(k)) \/ SetKey(k) \in late
    \/ Steady(k, seen[c]) = {} \/ Get(k) # {}

\* What CreateCache has filled is found afterwards: the key a list is stored
\* under is the key it is looked up under, unless the kind is ignored.  OS
\* families are stored under another key than they are looked up under.
FilledIsFound ==
    \A c \in Calls :
       /\ op[c].does = "create" /\ pc[c] = "done"
       /\ c \notin disturbed /\ failures = 0
       => \A i \in DOMAIN FillKinds : Found(c, FillKinds[i])

\* Where StopTicker finds a ticker (vcenter.go:79-89), or will, or never could.
Stoppable(t) ==
    \/ TickerKey \in DOMAIN cache /\ kept = t
    \/ pc[t] \in Keeping \/ Ignore(TickerKey)

\* A ticker that runs is the one StopTicker finds: no clean takes it away and no
\* other replaces it.  Excepted are a vCenter that is ignored as a whole, a client
\* that cleans the ticker by its key, which no kind has, and tickers that two calls
\* had made when neither was stored (vcenter.go:67-73), of which one is found.
TickersAreFound ==
    /\ \A t \in tickers \ raced : Stoppable(t)
    /\ tickers # {} => \E t \in Calls : Stoppable(t)

\* vcenter.go:67-71: a ticker that exists already is not made again, so that every
\* ticker that runs is the one under its key.
EveryTickerIsFound == \A t \in tickers : Stoppable(t)

-----------------------------------------------------------------------------
(* The inductive invariant behind the properties.                          *)

\* What a call does where it is.
Walking == {"datacenters", "keeping", "keepWrite", "listing", "policies", "storing",
            "storeWrite"}
Placed(c) ==
    /\ pc[c] = "idle" <=> op[c].does = "none"
    /\ pc[c] \in {"looking", "asking", "fetching", "panicked"} => op[c].does = "query"
    /\ pc[c] \in {"asking", "fetching"} => ~Walks(op[c].kind, Query(c))
    /\ op[c].does = "clean" => Elements(todo[c]) \subseteq Elements(op[c].keys)
    /\ pc[c] = "deleting" => op[c].does \in {"cleanAll", "create"}
    /\ pc[c] \in {"filling", "ticker"} \cup Keeping => op[c].does = "create"
    /\ pc[c] \in {"ticker", "done"} \cup Keeping /\ op[c].does = "create" => todo[c] = << >>
    /\ pc[c] \in Walking =>
         \/ op[c].does = "query" /\ Walks(op[c].kind, Query(c))
         \/ op[c].does = "create" /\ todo[c] # << >>
    /\ pc[c] \in {"datacenters", "keeping", "keepWrite"} => Kind(c) # "policy"
    /\ pc[c] = "listing" => Kind(c) \notin {"datacenter", "policy"}
    /\ pc[c] = "storing" => Kind(c) \in {"policy", "osfamily"}
    /\ pc[c] = "policies" => Kind(c) = "policy"
    /\ pc[c] = "storeWrite" => Kind(c) \in CachedKinds \ {"datacenter"}
    /\ pc[c] \notin Reading \cup {"fetching"} => acc[c] = {}
    /\ \A i \in acc[c] : i.dc \notin rest[c]
    /\ pc[c] # "idle" => present \in seen[c]
    /\ pc[c] = "deleting" => present \in mark[c] /\ mark[c] \subseteq seen[c]
    /\ TickerKey \notin doomed[c]

PlacesInv ==
    /\ \A c \in Calls : Placed(c)
    /\ \A k \in CachedKinds : present \in since[k]
    /\ overtaken \subseteq disturbed

\* A list lacks nothing that some inventories all have, but for what is in the
\* datacenters that are still to be visited.
Complete(k, list, left, worlds) ==
    \A o \in Steady(k, worlds) : Above[o] \cap left = {} => o \in Ids(list)
Sure(k, list, left, worlds) ==
    /\ Explained(k, list, worlds)
    /\ failures = 0 => Complete(k, list, left, worlds)

\* The calls whose delete is still to come and will not take a key: for them, too,
\* what is cached has to be from after they listed the keys.
Deleting(key) == {e \in Calls : pc[e] = "deleting" /\ key \notin doomed[e]}
CacheInv ==
    \A k \in CachedKinds \ Unfelt :
       SetKey(k) \in DOMAIN cache \ late =>
         /\ Sure(k, cache[SetKey(k)], {}, since[k])
         /\ \A e \in Deleting(SetKey(k)) : Sure(k, cache[SetKey(k)], {}, mark[e])

\* So has what a call has read and may still store.
ReadKind(c) == IF pc[c] \in {"keeping", "keepWrite"} THEN "datacenter" ELSE Kind(c)
Left(c) == IF pc[c] = "listing" THEN rest[c] ELSE {}
ReadInv ==
    \A c \in Calls \ overtaken :
       pc[c] \in Reading /\ ReadKind(c) # "osfamily" =>
         /\ Sure(ReadKind(c), acc[c], Left(c), seen[c])
         /\ ReadKind(c) \in CachedKinds =>
              /\ Sure(ReadKind(c), acc[c], Left(c), since[ReadKind(c)])
              /\ \A e \in Calls : pc[e] = "deleting" =>
                                   Sure(ReadKind(c), acc[c], Left(c), mark[e])

\* However old a list of datacenters is, it has those that are always there.
AreDatacenters(ids) ==
    /\ \A d \in ids : Type[d] = "datacenter"
    /\ \A d \in Objects : Type[d] = "datacenter" /\ (\A w \in Inventories : d \in w)
                          => d \in ids
DatacentersInv ==
    /\ DatacenterKey \in DOMAIN cache => AreDatacenters(Ids(cache[DatacenterKey]))
    /\ \A c \in Calls :
         /\ pc[c] \in {"keeping", "keepWrite"} => AreDatacenters(Ids(acc[c]))
         /\ pc[c] = "listing" => \A d \in rest[c] : Type[d] = "datacenter"

\* What a call has been told of the objects it asks for one after the other.
ToldOf(c) ==
    /\ rest[c] \subseteq Query(c).ids
    /\ \A i \in acc[c] : /\ Type[i.id] = op[c].kind /\ i.id \in Query(c).ids
                         /\ \E w \in seen[c] : i.id \in w
    /\ failures = 0 =>
         \A o \in Query(c).ids \ rest[c] :
            Type[o] = op[c].kind /\ (\A w \in seen[c] : o \in w) => o \in Ids(acc[c])
FetchInv ==
    \A c \in Calls :
       pc[c] = "fetching" =>
         /\ Turns(op[c].kind, Query(c)) # {}
         /\ op[c].kind \notin MachineKinds \cup {"pool"} => ToldOf(c)

\* The ticker of a call that made it alone is under its key, or is stored before
\* another can be made.
TickerInv ==
    /\ TickersAreFound
    /\ TickerKey \in DOMAIN cache => kept \in Calls
    /\ \A t \in tickers \ raced :
         \/ Ignore(TickerKey)
         \/ /\ pc[t] \in Keeping /\ TickerKey \notin DOMAIN cache
            /\ \A d \in Calls \ {t} : pc[d] \notin Keeping
         \/ /\ TickerKey \in DOMAIN cache /\ kept = t
            /\ \A d \in Calls : pc[d] \notin Keeping

\* CreateCache has filled the kinds that are no more on its list, and nobody has
\* cleaned since it did unless it is disturbed.
FillInv ==
    \A c \in Calls \ disturbed :
       op[c].does = "create" /\ pc[c] \notin {"cleaning", "deleting"} =>
         /\ \A k \in CachedKinds : since[k] \subseteq seen[c]
         /\ Len(todo[c]) <= Len(FillKinds)
         /\ \A j \in 1..Len(todo[c]) :
               todo[c][j] = FillKinds[Len(FillKinds) - Len(todo[c]) + j]
         /\ failures = 0 =>
              \A i \in 1..(Len(FillKinds) - Len(todo[c])) : Found(c, FillKinds[i])

CacheSystemInv ==
    /\ PlacesInv /\ CacheInv /\ ReadInv /\ FetchInv /\ DatacentersInv /\ FillInv
    /\ AnswersFit /\ TickerInv

=============================================================================
