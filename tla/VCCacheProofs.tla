---------------------------- MODULE VCCacheProofs ----------------------------
(***************************************************************************)
(* What the cache of vCenter's inventory promises, proved of every         *)
(* inventory, every parameter of the queries and any number of requests at *)
(* once: the types, that a clean is felt, that both implementations of a   *)
(* query agree, what an answer holds, that what was filled is found, and   *)
(* that a ticker can be stopped.                                           *)
(***************************************************************************)
EXTENDS VCCache, TLAPS

-----------------------------------------------------------------------------
(* The keys and the lists.                                                 *)

\* Every list has a key of its own, and none has that of the ticker.
LEMMA KeysApart ==
  /\ \A k, l \in CachedKinds : SetKey(k) = SetKey(l) => k = l
  /\ \A k \in CachedKinds : SetKey(k) # TickerKey /\ SetKey(k) \in Keys
  /\ \A k \in CachedKinds \ {"pool", "osfamily"} : SetKey(k) = Single(k)
  /\ \A k \in CachedKinds : TickerKey # Single(k)
  /\ TickerKey \in Keys
  /\ \A key \in Keys \ {TickerKey} : \E k \in CachedKinds : key = SetKey(k)
<1> USE DEF CachedKinds, SetKey, Shared, TickerKey, Keys, Single, Double, DatacenterKey,
            ClusterKey, DatastoreKey, NetworkKey, FolderKey, HostKey, PolicyKey, PoolKey,
            FamilySetKey
<1>1. \A k \in CachedKinds \ {"pool", "osfamily"} : SetKey(k) = <<"single", k>>
  OBVIOUS
<1>2. SetKey("pool") = <<"double", "pool">> /\ SetKey("osfamily") = <<"double", "osfamily">>
  OBVIOUS
<1>3. \A k, l \in CachedKinds : SetKey(k) = SetKey(l) => k = l
  <2> HIDE DEF SetKey
  <2>. QED
    BY <1>1, <1>2
<1>4. \A k \in CachedKinds : SetKey(k) # TickerKey /\ SetKey(k) \in Keys
  <2> HIDE DEF SetKey
  <2>. QED
    BY <1>1, <1>2
<1>5. \A key \in Keys \ {TickerKey} : \E k \in CachedKinds : key = SetKey(k)
  <2> HIDE DEF SetKey
  <2>. QED
    BY <1>1, <1>2
<1>. QED
  BY <1>1, <1>3, <1>4, <1>5

LEMMA KindOfKey == \A k \in CachedKinds : KindOf(SetKey(k)) = k
<1>. TAKE k \in CachedKinds
<1>1. \E l \in CachedKinds : SetKey(l) = SetKey(k)
  OBVIOUS
<1>2. KindOf(SetKey(k)) \in CachedKinds /\ SetKey(KindOf(SetKey(k))) = SetKey(k)
  BY <1>1 DEF KindOf
<1>. QED
  BY <1>2, KeysApart

\* But for the OS families a list is looked up under the key it is stored under.
LEMMA GetIsSet == \A k \in CachedKinds \ {"osfamily"} : GetKey(k) = SetKey(k)
  BY DEF GetKey, SetKey

\* The kinds that a walk lists by datacenter.
WalkedKinds == Kinds \ {"datacenter", "policy", "osfamily"}

\* The entry that a walk makes of an object.
Entry(k, o, d) ==
  IF k = "host" THEN HostInfo(o, d) ELSE IF k = "pool" THEN PoolInfo(o, d) ELSE Info(o, d)

Entries == [id : Objects, dc : Objects \cup {None},
            cluster : Objects \cup {None}, host : Objects \cup {None}]

LEMMA EntryIs ==
  ASSUME NEW k, NEW o \in Objects, NEW d \in Objects \cup {None}
  PROVE  /\ Entry(k, o, d) \in Entries
         /\ Entry(k, o, d).id = o /\ Entry(k, o, d).dc = d
         /\ k = "host" => Entry(k, o, d).cluster = OwnedBy(o, "cluster")
         /\ Info(o, d) \in Entries /\ HostInfo(o, d) \in Entries /\ PoolInfo(o, d) \in Entries
<1>1. \A t : OwnedBy(o, t) \in Objects \cup {None}
  BY InventoryAssumption DEF OwnedBy
<1>2. Info(o, d) \in Entries /\ Info(o, d).id = o /\ Info(o, d).dc = d
  BY DEF Info, Entries
<1>3. /\ HostInfo(o, d) \in Entries /\ HostInfo(o, d).id = o /\ HostInfo(o, d).dc = d
      /\ HostInfo(o, d).cluster = OwnedBy(o, "cluster")
  BY <1>1 DEF HostInfo, Info, Entries
<1>4. PoolInfo(o, d) \in Entries /\ PoolInfo(o, d).id = o /\ PoolInfo(o, d).dc = d
  BY <1>1 DEF PoolInfo, Info, Entries
<1>. QED
  BY <1>2, <1>3, <1>4 DEF Entry

LEMMA ListedIs ==
  ASSUME NEW k \in WalkedKinds, NEW d, NEW w
  PROVE  Listed(k, d, w) = {Entry(k, o, d) : o \in Retrieve(k, d, w)}
<1>1. CASE k = "cluster"
  <2>1. Listed(k, d, w) = Infos(ClustersIn(d, w), d)
    BY <1>1 DEF Listed, MachineKinds
  <2>. QED
    BY <1>1, <2>1 DEF Entry, Infos, ClustersIn
<1>2. CASE k = "datastore"
  <2>1. Listed(k, d, w) = Infos(DatastoresIn(d, w), d)
    BY <1>2 DEF Listed, MachineKinds
  <2>. QED
    BY <1>2, <2>1 DEF Entry, Infos, DatastoresIn
<1>3. CASE k = "network"
  <2>1. Listed(k, d, w) = Infos(NetworksIn(d, w), d)
    BY <1>3 DEF Listed, MachineKinds
  <2>. QED
    BY <1>3, <2>1 DEF Entry, Infos, NetworksIn
<1>4. CASE k = "folder"
  <2>1. Listed(k, d, w) = Infos(FoldersIn(d, w), d)
    BY <1>4 DEF Listed, MachineKinds
  <2>. QED
    BY <1>4, <2>1 DEF Entry, Infos, FoldersIn
<1>5. CASE k = "host"
  <2>1. Listed(k, d, w) = {HostInfo(o, d) : o \in HostsIn(d, w)}
    BY <1>5 DEF Listed, MachineKinds
  <2>. QED
    BY <1>5, <2>1 DEF Entry, HostsIn
<1>6. CASE k = "pool"
  <2>1. Listed(k, d, w) = {PoolInfo(o, d) : o \in PoolsIn(d, w)}
    BY <1>6 DEF Listed, MachineKinds
  <2>. QED
    BY <1>6, <2>1 DEF Entry, PoolsIn
<1>7. CASE k \in MachineKinds
  <2>1. Listed(k, d, w) = Infos(MachinesIn(k, d, w), d)
    BY <1>7 DEF Listed, MachineKinds
  <2>2. k # "host" /\ k # "pool"
    BY <1>7 DEF MachineKinds
  <2>. QED
    BY <2>1, <2>2 DEF Entry, Infos, MachinesIn
<1>. QED
  BY <1>1, <1>2, <1>3, <1>4, <1>5, <1>6, <1>7 DEF WalkedKinds, Kinds, CachedKinds, MachineKinds

\* What a walk lists in a datacenter is what is of the kind and below it.
LEMMA ListedHas ==
  ASSUME NEW k \in WalkedKinds, NEW d \in Objects \cup {None}, NEW w \in SUBSET Objects
  PROVE  /\ Listed(k, d, w) \subseteq Entries
         /\ \A i \in Listed(k, d, w) :
              /\ i.dc = d /\ i.id \in w /\ Type[i.id] = k /\ d \in Above[i.id]
              /\ k = "host" => i.cluster = OwnedBy(i.id, "cluster")
         /\ \A o \in w : Type[o] = k /\ d \in Above[o] => o \in Ids(Listed(k, d, w))
<1>1. Retrieve(k, d, w) \subseteq Objects
  BY DEF Retrieve
<1>. QED
  BY <1>1, ListedIs, EntryIs DEF Retrieve, Ids

LEMMA FamiliesHas ==
  ASSUME NEW d, NEW w \in SUBSET Objects
  PROVE  Listed("osfamily", d, w) \subseteq Entries /\ \A i \in Listed("osfamily", d, w) : i.dc = None
<1>1. FamiliesIn(d, w) \subseteq Objects
  BY DEF FamiliesIn, Retrieve
<1>2. Listed("osfamily", d, w) = {Info(o, None) : o \in FamiliesIn(d, w)}
  BY DEF Listed, Infos, MachineKinds
<1>3. \A o \in Objects : Info(o, None).dc = None
  BY DEF Info
<1>4. Listed("osfamily", d, w) \subseteq Entries
  BY <1>1, <1>2, EntryIs
<1>. QED
  BY <1>1, <1>2, <1>3, <1>4

LEMMA WholeHas ==
  ASSUME NEW k \in {"datacenter", "policy"}, NEW w \in SUBSET Objects
  PROVE  /\ Whole(k, w) \subseteq Entries
         /\ Ids(Whole(k, w)) = {o \in w : Type[o] = k}
         /\ \A i \in Whole(k, w) : i.dc = None
<1>1. Whole(k, w) = {Info(o, None) : o \in {o \in w : Type[o] = k}}
  BY DEF Whole, Infos, DatacentersOf, PoliciesOf
<1>2. \A o \in Objects : Info(o, None).id = o /\ Info(o, None).dc = None
  BY DEF Info
<1>3. \A o \in w : o \in Objects
  OBVIOUS
<1>4. Whole(k, w) \subseteq Entries /\ \A i \in Whole(k, w) : i.dc = None
  BY <1>1, <1>2, <1>3, EntryIs
<1>5. Ids(Whole(k, w)) = {o \in w : Type[o] = k}
  BY <1>1, <1>2, <1>3 DEF Ids
<1>. QED
  BY <1>4, <1>5

LEMMA ListsAre == Lists = SUBSET Entries
  BY DEF Lists, Entries

\* A query keeps the types of its parameters whatever the handler binds of them.
LEMMA BoundType ==
  ASSUME NEW k \in Kinds \ {"osfamily"}, NEW s, NEW q \in QueryParams
  PROVE  Bind(k, s, q) \in QueryParams
<1>1. NoQuery \in QueryParams
  BY DEF NoQuery, QueryParams
<1>2. \A t : Bound(t, s, q) \in QueryParams
  BY <1>1 DEF Bound
<1> HIDE DEF Bound
<1>3. \A b \in QueryParams :
        /\ b.ids \in SUBSET Objects /\ b.dc \in Objects \cup {None}
        /\ b.cluster \in Objects \cup {None} /\ b.folder \in Objects \cup {None}
  BY DEF QueryParams
<1>4. /\ \A i \in SUBSET Objects : [NoQuery EXCEPT !.ids = i] \in QueryParams
      /\ \A i \in SUBSET Objects, d \in Objects \cup {None} :
           [NoQuery EXCEPT !.ids = i, !.dc = d] \in QueryParams
      /\ \A i \in SUBSET Objects, d, f \in Objects \cup {None} :
           /\ [NoQuery EXCEPT !.ids = i, !.dc = d, !.folder = f] \in QueryParams
           /\ [NoQuery EXCEPT !.ids = i, !.dc = d, !.cluster = f] \in QueryParams
      /\ \A b \in QueryParams : /\ [b EXCEPT !.folder = None] \in QueryParams
                                /\ [b EXCEPT !.cluster = None, !.host = None] \in QueryParams
  BY DEF NoQuery, QueryParams
<1>5. BindDatacenters(s, q) \in QueryParams
  BY <1>2, <1>3, <1>4 DEF BindDatacenters
<1>6. BindClusters(s, q) \in QueryParams
  BY <1>2, <1>3, <1>4 DEF BindClusters
<1>7. BindDatastores(s, q) \in QueryParams
  BY <1>2, <1>3, <1>4 DEF BindDatastores
<1>8. BindNetworks(s, q) \in QueryParams
  BY <1>2, <1>3, <1>4 DEF BindNetworks
<1>9. BindFolders(s, q) \in QueryParams
  BY <1>2, <1>3, <1>4 DEF BindFolders
<1>10. BindHosts(s, q) \in QueryParams
  BY <1>2, <1>3, <1>4 DEF BindHosts
<1>11. BindPools(s, q) \in QueryParams
  BY <1>2, <1>4 DEF BindPools
<1>12. BindPolicies(s, q) \in QueryParams /\ BindMachines(s, q) \in QueryParams
  BY <1>1, <1>2 DEF BindPolicies, BindMachines
<1>13. BindTemplates(s, q) \in QueryParams
  BY <1>2, <1>4 DEF BindTemplates
<1>. QED
  BY <1>5, <1>6, <1>7, <1>8, <1>9, <1>10, <1>11, <1>12, <1>13
     DEF Bind, Kinds, CachedKinds, MachineKinds

\* A cached list answers with some of its entries.
LEMMA HitsAreCached ==
  ASSUME NEW k \in CachedKinds, NEW q, NEW list
  PROVE  QueryCache(k, q, list) \subseteq list
<1> USE DEF WithIDs, WithDatacenter
<1>1. CASE k = "datacenter"
  BY <1>1 DEF QueryCache, DatacentersFromCache
<1>2. CASE k = "cluster"
  BY <1>2 DEF QueryCache, ClustersFromCache
<1>3. CASE k = "datastore"
  BY <1>3 DEF QueryCache, DatastoresFromCache
<1>4. CASE k = "network"
  BY <1>4 DEF QueryCache, NetworksFromCache
<1>5. CASE k = "folder"
  BY <1>5 DEF QueryCache, FoldersFromCache
<1>6. CASE k = "host"
  BY <1>6 DEF QueryCache, HostsFromCache
<1>7. CASE k = "pool"
  BY <1>7 DEF QueryCache, PoolsFromCache
<1>8. CASE k \in {"policy", "osfamily"}
  BY <1>8 DEF QueryCache
<1>. QED
  BY <1>1, <1>2, <1>3, <1>4, <1>5, <1>6, <1>7, <1>8 DEF CachedKinds

\* The containers by which the handler of a kind lets its objects be asked for.
Shaped(k, q) ==
  /\ k = "policy" => q = NoQuery
  /\ k = "datacenter" => q.dc = None
  /\ k \notin MachineKinds \cup {"folder"} => q.folder = None
  /\ k \notin {"host", "pool", "machine"} => q.cluster = None
  /\ k \notin {"pool", "machine"} => q.host = None

LEMMA BoundShape ==
  ASSUME NEW k \in Kinds \ {"osfamily"}, NEW s, NEW q \in QueryParams
  PROVE  Shaped(k, Bind(k, s, q))
<1>1. NoQuery \in QueryParams
  BY DEF NoQuery, QueryParams
<1>2. \A t : Bound(t, s, q) \in QueryParams
  BY <1>1 DEF Bound
<1> HIDE DEF Bound
<1>3. \A i, d, f :
        /\ LET b == [NoQuery EXCEPT !.ids = i] IN
             b.dc = None /\ b.cluster = None /\ b.host = None /\ b.folder = None
        /\ LET b == [NoQuery EXCEPT !.ids = i, !.dc = d] IN
             b.cluster = None /\ b.host = None /\ b.folder = None
        /\ LET b == [NoQuery EXCEPT !.ids = i, !.dc = d, !.folder = f] IN
             b.cluster = None /\ b.host = None
        /\ LET b == [NoQuery EXCEPT !.ids = i, !.dc = d, !.cluster = f] IN
             b.host = None /\ b.folder = None
  BY DEF NoQuery
<1>4. \A b \in QueryParams :
        /\ [b EXCEPT !.folder = None].folder = None
        /\ [b EXCEPT !.cluster = None, !.host = None].cluster = None
        /\ [b EXCEPT !.cluster = None, !.host = None].host = None
  BY DEF QueryParams
<1> USE DEF Shaped, Bind, MachineKinds
<1>5. CASE k = "datacenter"
  BY <1>3, <1>5 DEF BindDatacenters
<1>6. CASE k = "cluster"
  BY <1>3, <1>6 DEF BindClusters
<1>7. CASE k = "datastore"
  BY <1>3, <1>7 DEF BindDatastores
<1>8. CASE k = "network"
  BY <1>3, <1>8 DEF BindNetworks
<1>9. CASE k = "folder"
  BY <1>9 DEF BindFolders, NoQuery
<1>10. CASE k = "host"
  BY <1>10 DEF BindHosts, NoQuery
<1>11. CASE k = "pool"
  BY <1>2, <1>4, <1>11 DEF BindPools
<1>12. CASE k = "policy"
  BY <1>12 DEF BindPolicies, NoQuery
<1>13. CASE k = "machine"
  BY <1>13 DEF BindMachines
<1>14. CASE k = "template"
  BY <1>2, <1>4, <1>14 DEF BindTemplates
<1>. QED
  BY <1>5, <1>6, <1>7, <1>8, <1>9, <1>10, <1>11, <1>12, <1>13, <1>14
     DEF Kinds, CachedKinds

\* What a cached list is asked: an id, the cluster of a host, or a datacenter.
LEMMA HitsAre ==
  ASSUME NEW k \in CachedKinds \ {"osfamily"}, NEW q \in QueryParams, NEW list,
         ~Walks(k, q), ~ReadOtherwise(k, q), Shaped(k, q),
         QueryCache(k, q, list) # {}
  PROVE  \/ q.ids # {} /\ k # "policy" /\ k # "pool"
              /\ QueryCache(k, q, list) = {i \in list : i.id \in q.ids}
         \/ q.ids = {} /\ k = "host" /\ q.cluster # None
              /\ QueryCache(k, q, list) = {i \in list : i.cluster = q.cluster}
         \/ q.ids = {} /\ k \in WalkedKinds \ {"folder"} /\ q.dc # None
              /\ (k = "host" => q.cluster = None)
              /\ QueryCache(k, q, list) = {i \in list : i.dc = q.dc}
<1> USE DEF WithIDs, WithDatacenter, Shaped, ReadOtherwise, MachineKinds
<1>1. CASE k = "datacenter"
  <2>1. QueryCache(k, q, list) = DatacentersFromCache(q, list)
    BY <1>1 DEF QueryCache
  <2>. QED
    BY <1>1, <2>1 DEF DatacentersFromCache, Walks
<1>2. CASE k = "cluster"
  <2>1. QueryCache(k, q, list) = ClustersFromCache(q, list)
    BY <1>2 DEF QueryCache
  <2>. QED
    BY <1>2, <2>1 DEF ClustersFromCache, Walks, WalkedKinds, Kinds, CachedKinds
<1>3. CASE k = "datastore"
  <2>1. QueryCache(k, q, list) = DatastoresFromCache(q, list)
    BY <1>3 DEF QueryCache
  <2>. QED
    BY <1>3, <2>1 DEF DatastoresFromCache, Walks, WalkedKinds, Kinds, CachedKinds
<1>4. CASE k = "network"
  <2>1. QueryCache(k, q, list) = NetworksFromCache(q, list)
    BY <1>4 DEF QueryCache
  <2>. QED
    BY <1>4, <2>1 DEF NetworksFromCache, Walks, WalkedKinds, Kinds, CachedKinds
<1>5. CASE k = "folder"
  <2>1. QueryCache(k, q, list) = FoldersFromCache(q, list)
    BY <1>5 DEF QueryCache
  <2>. QED
    BY <1>5, <2>1 DEF FoldersFromCache, Walks
<1>6. CASE k = "host"
  <2>1. QueryCache(k, q, list) = HostsFromCache(q, list)
    BY <1>6 DEF QueryCache
  <2>. QED
    BY <1>6, <2>1 DEF HostsFromCache, Walks, WalkedKinds, Kinds, CachedKinds
<1>7. CASE k = "pool"
  <2>1. QueryCache(k, q, list) = PoolsFromCache(q, list)
    BY <1>7 DEF QueryCache
  <2>. QED
    BY <1>7, <2>1 DEF PoolsFromCache, Walks, WalkedKinds, Kinds, CachedKinds
<1>8. CASE k = "policy"
  BY <1>8 DEF Walks
<1>. QED
  BY <1>1, <1>2, <1>3, <1>4, <1>5, <1>6, <1>7, <1>8 DEF CachedKinds

\* The ids of a list of entries made of some objects.
LEMMA IdsOf ==
  ASSUME NEW os \in SUBSET Objects, NEW d \in Objects \cup {None}
  PROVE  /\ Ids(Infos(os, d)) = os /\ Infos(os, d) \subseteq Entries
         /\ Ids({HostInfo(o, d) : o \in os}) = os /\ {HostInfo(o, d) : o \in os} \subseteq Entries
         /\ Ids({PoolInfo(o, d) : o \in os}) = os /\ {PoolInfo(o, d) : o \in os} \subseteq Entries
<1>1. \A o \in os : /\ Info(o, d).id = o /\ Info(o, d) \in Entries
                    /\ HostInfo(o, d).id = o /\ HostInfo(o, d) \in Entries
                    /\ PoolInfo(o, d).id = o /\ PoolInfo(o, d) \in Entries
  <2>. SUFFICES ASSUME NEW o \in os
                PROVE  /\ Info(o, d).id = o /\ Info(o, d) \in Entries
                       /\ HostInfo(o, d).id = o /\ HostInfo(o, d) \in Entries
                       /\ PoolInfo(o, d).id = o /\ PoolInfo(o, d) \in Entries
    OBVIOUS
  <2>1. Info(o, d).id = o
    BY DEF Info
  <2>2. HostInfo(o, d).id = o /\ PoolInfo(o, d).id = o
    BY DEF HostInfo, PoolInfo, Info
  <2>. QED
    BY <2>1, <2>2, EntryIs
<1>. QED
  BY <1>1 DEF Ids, Infos

LEMMA FoundAre ==
  ASSUME NEW k, NEW s, NEW w \in SUBSET Objects
  PROVE  Retrieve(k, s, w) \in SUBSET Objects /\ Find(k, s, w) \in SUBSET Objects
  BY DEF Retrieve, Find

\* What is asked of vCenter when a query names something.
AskedFor(k, q, w) ==
  IF q.ids # {} THEN Find(k, q.ids, w)
  ELSE Retrieve(k, IF k = "folder" \/ (k \in MachineKinds /\ q.dc = None) THEN q.folder
                   ELSE IF k = "host" /\ q.cluster # None THEN q.cluster ELSE q.dc, w)

\* An answer from vCenter that tells of some objects.
HostInfos(os, d) == {HostInfo(o, d) : o \in os}
PoolInfos(os, d) == {PoolInfo(o, d) : o \in os}
Tells(a, os) == a \in [panic : BOOLEAN, list : SUBSET Entries] /\ Ids(a.list) = os

LEMMA AnswerTells ==
  ASSUME NEW os \in SUBSET Objects, NEW d \in Objects \cup {None}
  PROVE  /\ Tells(Answer(Infos(os, d)), os)
         /\ Tells(Answer(HostInfos(os, d)), os) /\ Tells(Answer(PoolInfos(os, d)), os)
<1>1. \A l : l \subseteq Entries /\ Ids(l) = os => Tells(Answer(l), os)
  BY DEF Answer, Tells
<1>2. /\ Infos(os, d) \subseteq Entries /\ Ids(Infos(os, d)) = os
      /\ HostInfos(os, d) \subseteq Entries /\ Ids(HostInfos(os, d)) = os
      /\ PoolInfos(os, d) \subseteq Entries /\ Ids(PoolInfos(os, d)) = os
  BY IdsOf DEF HostInfos, PoolInfos
<1>. QED
  BY <1>1, <1>2

LEMMA VCenterHas ==
  ASSUME NEW k \in Kinds \ {"osfamily", "policy"}, NEW q \in QueryParams,
         NEW w \in SUBSET Objects, ~Walks(k, q), Shaped(k, q)
  PROVE  /\ QueryVCenter(k, q, w) \in [panic : BOOLEAN, list : SUBSET Entries]
         /\ \/ ReadOtherwise(k, q) \/ (k \in MachineKinds /\ q.ids # {})
            \/ QueryVCenter(k, q, w).panic
            \/ Ids(QueryVCenter(k, q, w).list) = AskedFor(k, q, w)
<1>1. /\ q.ids \in SUBSET Objects /\ q.dc \in Objects \cup {None}
      /\ q.folder \in Objects \cup {None}
      /\ q.cluster \in Objects \cup {None} /\ q.host \in Objects \cup {None}
  BY DEF QueryParams
<1>2. /\ \A l : Answer(l).list = l /\ Answer(l).panic = FALSE
      /\ \A l \in SUBSET Entries : Answer(l) \in [panic : BOOLEAN, list : SUBSET Entries]
      /\ Panic \in [panic : BOOLEAN, list : SUBSET Entries] /\ Panic.panic = TRUE
  BY DEF Answer, Panic
<1>3. Ids({}) = {}
  BY DEF Ids
<1>12. \A s : Retrieve(k, s, w) \in SUBSET Objects /\ Find(k, s, w) \in SUBSET Objects
  BY FoundAre
<1>13. \A os : Tells(QueryVCenter(k, q, w), os) /\ AskedFor(k, q, w) = os
         => /\ QueryVCenter(k, q, w) \in [panic : BOOLEAN, list : SUBSET Entries]
            /\ Ids(QueryVCenter(k, q, w).list) = AskedFor(k, q, w)
  BY DEF Tells
<1> USE DEF MachineKinds
<1>4. CASE k = "datacenter"
  <2>1. QueryVCenter(k, q, w) = Answer(Infos(Find(k, q.ids, w), None)) /\ q.ids # {}
    BY <1>4 DEF QueryVCenter, QueryDatacenters, Walks, Shaped
  <2>9. Tells(QueryVCenter(k, q, w), Find(k, q.ids, w))
    BY <1>1, <1>12, <2>1, AnswerTells
  <2>. QED
    BY <1>13, <2>1, <2>9 DEF AskedFor
<1>5. CASE k = "cluster"
  <2>1. QueryVCenter(k, q, w) = Answer(IF q.ids # {} THEN Infos(Find(k, q.ids, w), None)
                                       ELSE Infos(Retrieve(k, q.dc, w), q.dc))
    BY <1>5 DEF QueryVCenter, QueryClusters, ClustersIn
  <2>2. CASE q.ids # {}
    <3>1. Tells(QueryVCenter(k, q, w), Find(k, q.ids, w))
      BY <1>12, <2>1, <2>2, AnswerTells
    <3>. QED
      BY <1>13, <2>2, <3>1 DEF AskedFor
  <2>3. CASE q.ids = {}
    <3>1. Tells(QueryVCenter(k, q, w), Retrieve(k, q.dc, w))
      BY <1>1, <1>12, <2>1, <2>3, AnswerTells
    <3>. QED
      BY <1>13, <1>5, <2>3, <3>1 DEF AskedFor
  <2>. QED
    BY <2>2, <2>3
<1>6. CASE k = "datastore"
  <2>1. QueryVCenter(k, q, w) = Answer(IF q.ids # {} THEN Infos(Find(k, q.ids, w), None)
                                       ELSE Infos(Retrieve(k, q.dc, w), q.dc))
    BY <1>6 DEF QueryVCenter, QueryDatastores, DatastoresIn
  <2>2. CASE q.ids # {}
    <3>1. Tells(QueryVCenter(k, q, w), Find(k, q.ids, w))
      BY <1>12, <2>1, <2>2, AnswerTells
    <3>. QED
      BY <1>13, <2>2, <3>1 DEF AskedFor
  <2>3. CASE q.ids = {}
    <3>1. Tells(QueryVCenter(k, q, w), Retrieve(k, q.dc, w))
      BY <1>1, <1>12, <2>1, <2>3, AnswerTells
    <3>. QED
      BY <1>13, <1>6, <2>3, <3>1 DEF AskedFor
  <2>. QED
    BY <2>2, <2>3
<1>7. CASE k = "network"
  <2>1. QueryVCenter(k, q, w) = Answer(IF q.ids # {} THEN Infos(Find(k, q.ids, w), None)
                                       ELSE Infos(Retrieve(k, q.dc, w), q.dc))
    BY <1>7 DEF QueryVCenter, QueryNetworks, NetworksIn
  <2>2. CASE q.ids # {}
    <3>1. Tells(QueryVCenter(k, q, w), Find(k, q.ids, w))
      BY <1>12, <2>1, <2>2, AnswerTells
    <3>. QED
      BY <1>13, <2>2, <3>1 DEF AskedFor
  <2>3. CASE q.ids = {}
    <3>1. Tells(QueryVCenter(k, q, w), Retrieve(k, q.dc, w))
      BY <1>1, <1>12, <2>1, <2>3, AnswerTells
    <3>. QED
      BY <1>13, <1>7, <2>3, <3>1 DEF AskedFor
  <2>. QED
    BY <2>2, <2>3
<1>8. CASE k = "folder"
  <2>1. QueryVCenter(k, q, w) = QueryFolders(q, w)
    BY <1>8 DEF QueryVCenter
  <2>2. CASE q.ids # {}
    <3>1. QueryVCenter(k, q, w) = Answer(Infos(Find(k, q.ids, w), None))
      BY <1>8, <2>1, <2>2 DEF QueryFolders
    <3>9. Tells(QueryVCenter(k, q, w), Find(k, q.ids, w))
      BY <1>1, <1>12, <3>1, AnswerTells
    <3>. QED
      BY <1>13, <3>1, <2>2, <3>9 DEF AskedFor
  <2>3. CASE q.ids = {} /\ q.folder # None
    <3>1. QueryVCenter(k, q, w) = Answer(Infos(Retrieve(k, q.folder, w), None))
      BY <1>8, <2>1, <2>3 DEF QueryFolders
    <3>9. Tells(QueryVCenter(k, q, w), Retrieve(k, q.folder, w))
      BY <1>1, <1>12, <3>1, AnswerTells
    <3>. QED
      BY <1>13, <3>1, <1>8, <2>3, <3>9 DEF AskedFor
  <2>4. CASE q.ids = {} /\ q.folder = None
    <3>1. QueryVCenter(k, q, w) = Answer(Infos(VMFoldersIn(q.dc, w), q.dc)) /\ q.dc # None
      BY <1>8, <2>1, <2>4 DEF QueryFolders, Walks
    <3>2. VMFoldersIn(q.dc, w) \in SUBSET Objects
      BY DEF VMFoldersIn, Retrieve
    <3>3. Tells(QueryVCenter(k, q, w), VMFoldersIn(q.dc, w))
      BY <1>1, <3>1, <3>2, AnswerTells
    <3>. QED
      BY <1>8, <2>4, <3>1, <3>3 DEF ReadOtherwise, Tells
  <2>. QED
    BY <2>2, <2>3, <2>4
<1>9. CASE k = "host"
  <2>1. QueryVCenter(k, q, w) = QueryHosts(q, w)
    BY <1>9 DEF QueryVCenter
  <2>2. CASE q.ids # {}
    <3>1. QueryVCenter(k, q, w) = Answer(HostInfos(Find(k, q.ids, w), None))
      BY <1>9, <2>1, <2>2 DEF HostInfos, QueryHosts
    <3>9. Tells(QueryVCenter(k, q, w), Find(k, q.ids, w))
      BY <1>1, <1>12, <3>1, AnswerTells
    <3>. QED
      BY <1>13, <3>1, <2>2, <3>9 DEF AskedFor
  <2>3. CASE q.ids = {} /\ q.cluster # None
    <3>1. QueryVCenter(k, q, w) = Answer(HostInfos(Retrieve(k, q.cluster, w), None))
      BY <1>9, <2>1, <2>3 DEF HostInfos, QueryHosts, HostsIn
    <3>9. Tells(QueryVCenter(k, q, w), Retrieve(k, q.cluster, w))
      BY <1>1, <1>12, <3>1, AnswerTells
    <3>. QED
      BY <1>13, <3>1, <1>9, <2>3, <3>9 DEF AskedFor
  <2>4. CASE q.ids = {} /\ q.cluster = None
    <3>1. QueryVCenter(k, q, w) = Answer(HostInfos(Retrieve(k, q.dc, w), q.dc))
      BY <1>9, <2>1, <2>4 DEF HostInfos, QueryHosts, HostsIn
    <3>9. Tells(QueryVCenter(k, q, w), Retrieve(k, q.dc, w))
      BY <1>1, <1>12, <3>1, AnswerTells
    <3>. QED
      BY <1>13, <3>1, <1>9, <2>4, <3>9 DEF AskedFor
  <2>. QED
    BY <2>2, <2>3, <2>4
<1>10. CASE k = "pool"
  <2>1. QueryVCenter(k, q, w) = QueryPools(q, w)
    BY <1>10 DEF QueryVCenter
  <2>2. CASE q.ids # {}
    BY <1>2, <1>10, <2>1, <2>2 DEF PoolInfos, QueryPools, PoolsByIDs, ReadOtherwise
  <2>3. CASE q.ids = {} /\ (q.cluster # None \/ q.host # None)
    <3>1. QueryVCenter(k, q, w) = Answer(PoolInfos(PoolsIn(q.cluster, w) \cup PoolsIn(q.host, w), None))
      BY <2>1, <2>3 DEF PoolInfos, QueryPools
    <3>2. PoolsIn(q.cluster, w) \cup PoolsIn(q.host, w) \in SUBSET Objects
      BY DEF PoolsIn, Retrieve
    <3>3. Tells(QueryVCenter(k, q, w), PoolsIn(q.cluster, w) \cup PoolsIn(q.host, w))
      BY <1>1, <3>1, <3>2, AnswerTells
    <3>. QED
      BY <1>10, <2>3, <3>3 DEF ReadOtherwise, Tells
  <2>4. CASE q.ids = {} /\ q.cluster = None /\ q.host = None
    <3>1. QueryVCenter(k, q, w) = Answer(PoolInfos(Retrieve(k, q.dc, w), q.dc))
      BY <1>10, <2>1, <2>4 DEF PoolInfos, QueryPools, PoolsIn
    <3>9. Tells(QueryVCenter(k, q, w), Retrieve(k, q.dc, w))
      BY <1>1, <1>12, <3>1, AnswerTells
    <3>. QED
      BY <1>13, <3>1, <1>10, <2>4, <3>9 DEF AskedFor
  <2>. QED
    BY <2>2, <2>3, <2>4
<1>11. CASE k \in MachineKinds
  <2>1. MachinesByIDs(q, w) \in [panic : BOOLEAN, list : SUBSET Entries]
    BY <1>2 DEF MachinesByIDs
  <2>2. CASE q.dc # None
    <3>1. QueryVCenter(k, q, w) = Answer(Infos(Retrieve(k, q.dc, w), None))
      BY <1>11, <2>2 DEF QueryVCenter, QueryMachines, QueryTemplates, MachinesIn
    <3>9. Tells(QueryVCenter(k, q, w), Retrieve(k, q.dc, w))
      BY <1>1, <1>12, <3>1, AnswerTells
    <3>. QED
      BY <1>11, <2>2, <3>9 DEF AskedFor, Tells
  <2>3. CASE q.dc = None /\ q.folder # None
    <3>1. CASE k = "machine"
      <4>1. QueryVCenter(k, q, w) = IF Retrieve(k, q.folder, w) = {} THEN Answer({}) ELSE Panic
        BY <2>3, <3>1 DEF QueryVCenter, QueryMachines, MachinesIn
      <4>. QED
        BY <1>2, <1>3, <1>11, <2>3, <3>1, <4>1 DEF AskedFor
    <3>2. CASE k = "template"
      <4>1. QueryVCenter(k, q, w) = Answer(Infos(Retrieve(k, q.folder, w), None))
        BY <2>3, <3>2 DEF QueryVCenter, QueryTemplates, MachinesIn
      <4>9. Tells(QueryVCenter(k, q, w), Retrieve(k, q.folder, w))
        BY <1>1, <1>12, <4>1, AnswerTells
      <4>. QED
        BY <1>11, <2>3, <3>2, <4>9 DEF AskedFor, Tells
    <3>. QED
      BY <1>11, <3>1, <3>2
  <2>4. CASE q.dc = None /\ q.folder = None
    <3>1. QueryVCenter(k, q, w) = MachinesByIDs(q, w)
      BY <1>11, <2>4 DEF QueryVCenter, QueryMachines, QueryTemplates
    <3>2. q.ids # {}
      BY <1>11, <2>4 DEF Walks
    <3>. QED
      BY <1>11, <2>1, <3>1, <3>2
  <2>. QED
    BY <2>2, <2>3, <2>4
<1>. QED
  BY <1>4, <1>5, <1>6, <1>7, <1>8, <1>9, <1>10, <1>11 DEF Kinds, CachedKinds

-----------------------------------------------------------------------------
(* What the queries answer.                                                *)

LEMMA InventoriesAre ==
  /\ \A w \in Inventories : w \in SUBSET Objects
  /\ \A o \in Objects : Above[o] \in SUBSET Objects
  BY CacheAssumption, InventoryAssumption

\* A query that names nothing asks for all there is of a kind.
LEMMA WalksAsksAll ==
  ASSUME NEW k \in Kinds \ {"osfamily"}, NEW q \in QueryParams,
         Walks(k, q), Shaped(k, q), ~Unheeded(k, q)
  PROVE  \A o : Meets(k, q, o) <=> Type[o] = k
<1>1. q.ids = {} /\ q.dc = None /\ q.cluster = None /\ q.host = None /\ q.folder = None
  <2> USE DEF Walks, Shaped, Unheeded, MachineKinds, NoQuery
  <2>1. CASE k \in MachineKinds
    BY <2>1
  <2>2. CASE k = "policy"
    BY <2>2
  <2>3. CASE k \in {"host", "pool"}
    BY <2>3
  <2>4. CASE k \in {"datacenter", "cluster", "datastore", "network", "folder"}
    BY <2>4
  <2>. QED
    BY <2>1, <2>2, <2>3, <2>4 DEF Kinds, CachedKinds
<1>. QED
  BY <1>1 DEF Meets

\* ... and the cache answers it with the whole list.
LEMMA WalksHitsAll ==
  ASSUME NEW k \in CachedKinds \ {"osfamily"}, NEW q \in QueryParams, NEW list,
         Walks(k, q), Shaped(k, q)
  PROVE  QueryCache(k, q, list) = list
<1> USE DEF Walks, Shaped, MachineKinds, QueryCache, WithDatacenter
<1>1. CASE k = "datacenter"
  BY <1>1 DEF DatacentersFromCache
<1>2. CASE k = "cluster"
  BY <1>2 DEF ClustersFromCache
<1>3. CASE k = "datastore"
  BY <1>3 DEF DatastoresFromCache
<1>4. CASE k = "network"
  BY <1>4 DEF NetworksFromCache
<1>5. CASE k = "folder"
  BY <1>5 DEF FoldersFromCache
<1>6. CASE k = "host"
  BY <1>6 DEF HostsFromCache
<1>7. CASE k = "pool"
  BY <1>7 DEF PoolsFromCache
<1>8. CASE k = "policy"
  BY <1>8
<1>. QED
  BY <1>1, <1>2, <1>3, <1>4, <1>5, <1>6, <1>7, <1>8 DEF CachedKinds

\* What vCenter is asked, and found to have, is what was asked for.
LEMMA VCenterFits ==
  ASSUME NEW k \in Kinds \ {"osfamily"}, NEW q \in QueryParams, NEW w \in Inventories,
         ~Walks(k, q), Shaped(k, q), ~ReadOtherwise(k, q), ~Unheeded(k, q),
         ~QueryVCenter(k, q, w).panic
  PROVE  Ids(QueryVCenter(k, q, w).list) = Meeting(k, q, w)
<1>1. k # "policy"
  <2>. SUFFICES ASSUME k = "policy" PROVE FALSE
    OBVIOUS
  <2>1. Walks("policy", q)
    BY DEF Walks, MachineKinds
  <2>. QED
    BY <2>1
<1>2. Ids(QueryVCenter(k, q, w).list) = AskedFor(k, q, w)
  BY <1>1, VCenterHas, InventoriesAre DEF Unheeded
<1>3. CASE q.ids # {}
  BY <1>2, <1>3 DEF AskedFor, Find, Meeting, Meets
<1>4. CASE q.ids = {}
  <2>1. \A x \in Scopes(q) : AskedFor(k, q, w) = Retrieve(k, x, w) => Scopes(q) = {x}
    BY DEF Unheeded
  <2>2. \E x \in Scopes(q) : AskedFor(k, q, w) = Retrieve(k, x, w)
    <3> USE DEF Walks, Shaped, ReadOtherwise, Scopes, AskedFor, MachineKinds
    <3>1. CASE k = "folder" \/ (k \in MachineKinds /\ q.dc = None)
      <4>1. q.folder # None
        BY <1>4, <3>1
      <4>. QED
        BY <1>4, <3>1, <4>1
    <3>2. CASE k = "host" /\ q.cluster # None
      BY <1>4, <3>2
    <3>3. CASE k # "folder" /\ ~(k \in MachineKinds /\ q.dc = None)
                 /\ ~(k = "host" /\ q.cluster # None)
      <4>1. q.dc # None
        BY <1>1, <1>4, <3>3
      <4>. QED
        BY <1>4, <3>3, <4>1
    <3>. QED
      BY <3>1, <3>2, <3>3
  <2>3. PICK x \in Scopes(q) : AskedFor(k, q, w) = Retrieve(k, x, w) /\ Scopes(q) = {x}
    BY <2>1, <2>2
  <2>4. \A o : Meets(k, q, o) <=> Type[o] = k /\ x \in Above[o]
    BY <1>4, <2>3 DEF Meets, Scopes
  <2>. QED
    BY <1>2, <2>3, <2>4 DEF Retrieve, Meeting
<1>. QED
  BY <1>3, <1>4

\* The entries of a list that is explained.
LEMMA ExplainedHas ==
  ASSUME NEW k \in Kinds \ {"osfamily"}, NEW list \in SUBSET Entries,
         NEW W \in SUBSET Inventories, Explained(k, list, W), NEW i \in list
  PROVE  /\ \E w \in W : i.id \in w
         /\ Type[i.id] = k /\ i.id \in Objects /\ i.dc \in Objects \cup {None}
         /\ k \in WalkedKinds => /\ i.dc \in Above[i.id] /\ Type[i.dc] = "datacenter"
                                 /\ k = "host" => i.cluster = OwnedBy(i.id, "cluster")
<1>0. i.id \in Objects /\ i.dc \in Objects \cup {None}
  BY DEF Entries
<1>1. CASE k \in {"datacenter", "policy"}
  <2>1. PICK w \in W : list = Whole(k, w)
    BY <1>1 DEF Explained
  <2>2. i.id \in Ids(Whole(k, w))
    BY <2>1 DEF Ids
  <2>. QED
    BY <1>0, <1>1, <2>2, WholeHas, InventoriesAre DEF WalkedKinds
<1>2. CASE k \notin {"datacenter", "policy"}
  <2>1. Type[i.dc] = "datacenter"
    BY <1>2 DEF Explained
  <2>2. PICK w \in W : {e \in list : e.dc = i.dc} = Listed(k, i.dc, w)
    BY <1>2 DEF Explained
  <2>3. i \in Listed(k, i.dc, w) /\ k \in WalkedKinds
    BY <1>2, <2>2 DEF WalkedKinds
  <2>. QED
    BY <1>0, <2>1, <2>3, ListedHas, InventoriesAre
<1>. QED
  BY <1>1, <1>2

\* What a cached list answers is what was asked for, as of the inventories that
\* explain it.
LEMMA HitsFit ==
  ASSUME NEW k \in CachedKinds \ {"osfamily"}, NEW q \in QueryParams,
         NEW list \in SUBSET Entries, NEW W \in SUBSET Inventories,
         Shaped(k, q), ~ReadOtherwise(k, q), ~Unheeded(k, q),
         Explained(k, list, W), QueryCache(k, q, list) # {}
  PROVE  /\ Ids(QueryCache(k, q, list)) \subseteq UNION {Meeting(k, q, w) : w \in W}
         /\ Complete(k, list, {}, W) =>
              {o \in Steady(k, W) : Meets(k, q, o)} \subseteq Ids(QueryCache(k, q, list))
<1> DEFINE hits == QueryCache(k, q, list)
<1>1. k \in Kinds \ {"osfamily"} /\ hits \subseteq list
  BY HitsAreCached DEF Kinds
<1>2. \A i \in list : \E w \in W : i.id \in w
  BY <1>1, ExplainedHas
<1>3. SUFFICES /\ \A i \in hits : Meets(k, q, i.id)
               /\ \A i \in list : Meets(k, q, i.id) => i \in hits
  <2>1. Ids(hits) \subseteq UNION {Meeting(k, q, w) : w \in W}
    <3>1. \A i \in hits : \E w \in W : i.id \in Meeting(k, q, w)
      BY <1>1, <1>2, <1>3 DEF Meeting
    <3>. QED
      BY <3>1 DEF Ids
  <2>2. ASSUME Complete(k, list, {}, W), NEW o \in Steady(k, W), Meets(k, q, o)
        PROVE  o \in Ids(hits)
    <3>1. PICK i \in list : i.id = o
      BY <2>2 DEF Complete, Ids
    <3>. QED
      BY <1>3, <2>2, <3>1 DEF Ids
  <2>. QED
    BY <2>1, <2>2
<1>4. \A i \in list : Type[i.id] = k /\ i.id \in Objects
  BY <1>1, ExplainedHas
<1>5. CASE Walks(k, q)
  BY <1>1, <1>4, <1>5, WalksAsksAll, WalksHitsAll
<1>6. CASE ~Walks(k, q)
  <2>1. CASE q.ids # {} /\ hits = {i \in list : i.id \in q.ids}
    BY <1>4, <2>1 DEF Meets
  <2>2. CASE q.ids = {} /\ k = "host" /\ q.cluster # None
               /\ hits = {i \in list : i.cluster = q.cluster}
    <3>1. Scopes(q) = {q.cluster}
      BY <2>2 DEF Scopes, Unheeded
    <3>2. \A o : Meets(k, q, o) <=> Type[o] = k /\ q.cluster \in Above[o]
      BY <2>2, <3>1 DEF Meets, Scopes
    <3>3. \A i \in list : i.cluster = OwnedBy(i.id, "cluster")
      BY <1>1, <2>2, ExplainedHas DEF WalkedKinds
    <3>4. q.cluster \in Objects
      BY <2>2 DEF QueryParams
    <3>5. Type[q.cluster] = "cluster"
      BY <2>2, <3>3 DEF OwnedBy
    <3>6. \A i \in list : q.cluster \in Above[i.id] <=> Owner[i.id] = q.cluster
      BY <1>4, <2>2, <3>4, <3>5, TopologyAssumption
    <3>7. \A i \in list : i.cluster = q.cluster <=> Owner[i.id] = q.cluster
      BY <2>2, <3>3, <3>5 DEF OwnedBy
    <3>. QED
      BY <1>4, <2>2, <3>2, <3>6, <3>7
  <2>3. CASE q.ids = {} /\ k \in WalkedKinds \ {"folder"} /\ q.dc # None
               /\ hits = {i \in list : i.dc = q.dc}
    <3>1. Scopes(q) = {q.dc}
      BY <2>3 DEF Scopes, Unheeded
    <3>2. \A o : Meets(k, q, o) <=> Type[o] = k /\ q.dc \in Above[o]
      BY <2>3, <3>1 DEF Meets, Scopes
    <3>3. \A i \in list : i.dc \in Above[i.id] /\ Type[i.dc] = "datacenter"
      BY <1>1, <2>3, ExplainedHas
    <3>4. Type[q.dc] = "datacenter"
      BY <2>3, <3>3
    <3>5. \A i \in list : q.dc \in Above[i.id] => i.dc = q.dc
      <4>1. \A i \in list : \E d : {a \in Above[i.id] : Type[a] = "datacenter"} = {d}
        <5>1. k \in Kinds \ {"datacenter", "policy", "osfamily"}
          BY <2>3 DEF WalkedKinds
        <5>2. \A i \in list : i.id \in Objects /\ Type[i.id] \in Kinds \ {"datacenter", "policy", "osfamily"}
          BY <1>4, <5>1
        <5>. QED
          BY <5>2, TopologyAssumption
      <4>2. \A i \in list : \A d : {a \in Above[i.id] : Type[a] = "datacenter"} = {d}
              => i.dc = d /\ (q.dc \in Above[i.id] => q.dc = d)
        BY <3>3, <3>4
      <4>. QED
        BY <4>1, <4>2
    <3>. QED
      BY <1>4, <2>3, <3>2, <3>3, <3>5
  <2>. QED
    BY <1>6, <2>1, <2>2, <2>3, HitsAre
<1>. QED
  BY <1>5, <1>6

\* All that a walk returns, when nothing disturbs it.
LEMMA WalkedIs ==
  ASSUME NEW k \in Kinds \ {"osfamily"}, NEW w \in Inventories
  PROVE  /\ Walked(k, w) \in SUBSET Entries
         /\ Explained(k, Walked(k, w), {w})
         /\ Complete(k, Walked(k, w), {}, {w})
         /\ Ids(Walked(k, w)) = {o \in w : Type[o] = k}
<1>0. w \in SUBSET Objects
  BY InventoriesAre
<1>1. CASE k \in {"datacenter", "policy"}
  <2>1. Walked(k, w) = Whole(k, w)
    BY <1>1 DEF Walked
  <2>2. Ids(Walked(k, w)) = {o \in w : Type[o] = k} /\ Walked(k, w) \in SUBSET Entries
    BY <1>0, <1>1, <2>1, WholeHas
  <2>. QED
    BY <1>1, <2>1, <2>2 DEF Explained, Complete, Steady
<1>2. CASE k \in WalkedKinds
  <2>1. Walked(k, w) = UNION {Listed(k, d, w) : d \in DatacentersOf(w)}
    BY <1>2 DEF Walked, WalkedKinds
  <2>2. \A d \in DatacentersOf(w) : d \in Objects /\ Type[d] = "datacenter"
    BY <1>0 DEF DatacentersOf
  <2>3. \A d \in DatacentersOf(w) : /\ Listed(k, d, w) \subseteq Entries
                                    /\ \A i \in Listed(k, d, w) : i.dc = d /\ i.id \in w /\ Type[i.id] = k
    BY <1>0, <1>2, <2>2, ListedHas
  <2>4. Walked(k, w) \in SUBSET Entries
    BY <2>1, <2>3
  <2>5. \A d \in DatacentersOf(w) : {e \in Walked(k, w) : e.dc = d} = Listed(k, d, w)
    BY <2>1, <2>3
  <2>6. \A i \in Walked(k, w) : i.dc \in DatacentersOf(w)
    BY <2>1, <2>3
  <2>7. Explained(k, Walked(k, w), {w})
    BY <1>2, <2>2, <2>5, <2>6 DEF Explained, WalkedKinds
  <2>8. \A o \in w : Type[o] = k => o \in Ids(Walked(k, w))
    <3>. SUFFICES ASSUME NEW o \in w, Type[o] = k PROVE o \in Ids(Walked(k, w))
      OBVIOUS
    <3>1. PICK d \in Objects : Type[d] = "datacenter" /\ d \in Above[o]
      BY <1>0, <1>2, TopologyAssumption DEF WalkedKinds
    <3>2. d \in DatacentersOf(w)
      BY <3>1, CacheAssumption DEF DatacentersOf
    <3>3. o \in Ids(Listed(k, d, w))
      BY <1>0, <1>2, <3>1, ListedHas
    <3>4. Listed(k, d, w) \subseteq Walked(k, w)
      BY <2>1, <3>2
    <3>. QED
      BY <3>3, <3>4 DEF Ids
  <2>9. Ids(Walked(k, w)) = {o \in w : Type[o] = k}
    <3>1. \A i \in Walked(k, w) : i.id \in w /\ Type[i.id] = k
      BY <2>1, <2>3
    <3>. QED
      BY <2>8, <3>1 DEF Ids
  <2>. QED
    BY <2>4, <2>7, <2>9 DEF Complete, Steady
<1>. QED
  BY <1>1, <1>2 DEF WalkedKinds

\* Whatever is asked, both implementations of a query agree.
LEMMA NoneDisagree ==
  ASSUME NEW k \in CachedKinds \ {"osfamily"}, NEW s \in Spellings, NEW p \in QueryParams,
         NEW w \in Inventories
  PROVE  ~Disagree(k, s, p, w)
<1> DEFINE q == Bind(k, s, p)
<1> DEFINE hits == QueryCache(k, q, Walked(k, w))
<1>. SUFFICES ASSUME ~Walks(k, q), ~ReadOtherwise(k, q), hits # {}
              PROVE  Ids(hits) = Ids(QueryVCenter(k, q, w).list)
  BY DEF Disagree
<1>1. k \in Kinds \ {"osfamily"} /\ k \notin MachineKinds
  BY DEF Kinds, CachedKinds, MachineKinds
<1>2. q \in QueryParams /\ Shaped(k, q)
  BY <1>1, BoundType, BoundShape
<1> HIDE DEF q
<1>3. w \in SUBSET Objects /\ {w} \in SUBSET Inventories
  BY InventoriesAre
<1>4. /\ Walked(k, w) \in SUBSET Entries /\ Explained(k, Walked(k, w), {w})
      /\ Ids(Walked(k, w)) = {o \in w : Type[o] = k}
  BY <1>1, WalkedIs
<1>5. \A i \in Walked(k, w) :
        /\ i.id \in w /\ Type[i.id] = k
        /\ k \in WalkedKinds => /\ i.dc \in Above[i.id] /\ Type[i.dc] = "datacenter"
                                /\ k = "host" => i.cluster = OwnedBy(i.id, "cluster")
  BY <1>1, <1>3, <1>4, ExplainedHas
<1>6. SUFFICES Ids(hits) = AskedFor(k, q, w)
  <2>1. k # "policy"
    <3>1. Walks("policy", q)
      BY DEF Walks, MachineKinds
    <3>. QED
      BY <3>1
  <2>2. ~QueryVCenter(k, q, w).panic
    <3> USE <1>1 DEF Answer, MachineKinds
    <3>1. CASE k = "datacenter"
      BY <3>1 DEF QueryVCenter, QueryDatacenters
    <3>2. CASE k = "cluster"
      BY <3>2 DEF QueryVCenter, QueryClusters
    <3>3. CASE k = "datastore"
      BY <3>3 DEF QueryVCenter, QueryDatastores
    <3>4. CASE k = "network"
      BY <3>4 DEF QueryVCenter, QueryNetworks
    <3>5. CASE k = "folder"
      BY <3>5 DEF QueryVCenter, QueryFolders
    <3>6. CASE k = "host"
      BY <3>6 DEF QueryVCenter, QueryHosts
    <3>7. CASE k = "pool"
      BY <3>7 DEF QueryVCenter, QueryPools, PoolsByIDs
    <3>. QED
      BY <2>1, <3>1, <3>2, <3>3, <3>4, <3>5, <3>6, <3>7 DEF CachedKinds
  <2>. QED
    BY <1>1, <1>2, <1>3, <1>6, <2>1, <2>2, VCenterHas
<1>7. \A o \in w : Type[o] = k => \E i \in Walked(k, w) : i.id = o
  BY <1>4 DEF Ids
<1>8. CASE q.ids # {} /\ hits = {i \in Walked(k, w) : i.id \in q.ids}
  BY <1>5, <1>7, <1>8 DEF AskedFor, Find, Ids
<1>9. CASE q.ids = {} /\ k = "host" /\ q.cluster # None
             /\ hits = {i \in Walked(k, w) : i.cluster = q.cluster}
  <2>1. \A i \in Walked(k, w) : i.cluster = OwnedBy(i.id, "cluster")
    BY <1>5, <1>9 DEF WalkedKinds, Kinds, CachedKinds
  <2>2. Type[q.cluster] = "cluster" /\ q.cluster \in Objects
    BY <1>2, <1>9, <2>1 DEF OwnedBy, QueryParams
  <2>3. \A i \in Walked(k, w) : i.cluster = q.cluster <=> q.cluster \in Above[i.id]
    <3>1. \A i \in Walked(k, w) : i.id \in Objects /\ Type[i.id] = "host"
      BY <1>3, <1>5, <1>9
    <3>2. \A i \in Walked(k, w) : q.cluster \in Above[i.id] <=> Owner[i.id] = q.cluster
      BY <2>2, <3>1, TopologyAssumption
    <3>3. \A i \in Walked(k, w) : i.cluster = q.cluster <=> Owner[i.id] = q.cluster
      BY <1>9, <2>1, <2>2 DEF OwnedBy
    <3>. QED
      BY <3>2, <3>3
  <2>4. AskedFor(k, q, w) = {o \in w : Type[o] = k /\ q.cluster \in Above[o]}
    BY <1>9 DEF AskedFor, Retrieve, MachineKinds
  <2>. QED
    BY <1>5, <1>7, <1>9, <2>3, <2>4 DEF Ids
<1>10. CASE q.ids = {} /\ k \in WalkedKinds \ {"folder"} /\ q.dc # None
              /\ (k = "host" => q.cluster = None)
              /\ hits = {i \in Walked(k, w) : i.dc = q.dc}
  <2>1. \A i \in Walked(k, w) : i.dc \in Above[i.id] /\ Type[i.dc] = "datacenter"
    BY <1>5, <1>10
  <2>2. Type[q.dc] = "datacenter"
    BY <1>10, <2>1
  <2>3. \A i \in Walked(k, w) : i.dc = q.dc <=> q.dc \in Above[i.id]
    <3>1. k \in Kinds \ {"datacenter", "policy", "osfamily"}
      BY <1>10 DEF WalkedKinds
    <3>2. \A i \in Walked(k, w) : \E d : {a \in Above[i.id] : Type[a] = "datacenter"} = {d}
      <4>1. \A i \in Walked(k, w) : i.id \in Objects /\ Type[i.id] \in Kinds \ {"datacenter", "policy", "osfamily"}
        BY <1>3, <1>5, <3>1
      <4>. QED
        BY <4>1, TopologyAssumption
    <3>3. \A i \in Walked(k, w) : \A d : {a \in Above[i.id] : Type[a] = "datacenter"} = {d}
            => i.dc = d /\ (q.dc \in Above[i.id] => q.dc = d)
      BY <2>1, <2>2
    <3>. QED
      BY <2>1, <3>2, <3>3
  <2>4. AskedFor(k, q, w) = {o \in w : Type[o] = k /\ q.dc \in Above[o]}
    BY <1>1, <1>10 DEF AskedFor, Retrieve
  <2>. QED
    BY <1>5, <1>7, <1>10, <2>3, <2>4 DEF Ids
<1>. QED
  BY <1>2, <1>8, <1>9, <1>10, HitsAre

-----------------------------------------------------------------------------
(* Types.                                                                  *)

OpSet == {NoOp} \cup Queries \cup Cleans \cup CleanAlls \cup Creates

\* What a request asks.
LEMMA OpsAre ==
  ASSUME NEW o \in OpSet
  PROVE  /\ o.does \in {"none", "query", "clean", "cleanAll", "create"}
         /\ o.does = "none" <=> o = NoOp
         /\ o.does = "query" => /\ o.kind \in Kinds \ {"osfamily"} /\ o.q \in QueryParams
                                /\ o.spelling \in Spellings
         /\ o.keys \in Seq(CachedKinds)
         /\ o.does = "create" => Enabled
         /\ o.does # "clean" => o.keys = << >>
<1>1. CASE o = NoOp
  BY <1>1 DEF NoOp
<1>2. CASE o \in Queries
  <2>1. PICK a \in Asked : o = [does |-> "query", kind |-> a[1], spelling |-> a[2],
                               q |-> a[3], keys |-> << >>]
    BY <1>2 DEF Queries
  <2>2. a[1] \in Kinds \ {"osfamily"} /\ a[2] \in Spellings /\ a[3] \in QueryParams
    BY CacheAssumption
  <2>. QED
    BY <2>1, <2>2 DEF NoOp
<1>3. CASE o \in Cleans
  <2>1. PICK l \in CleanLists : o = [NoOp EXCEPT !.does = "clean", !.keys = l]
    BY <1>3 DEF Cleans
  <2>2. o.does = "clean" /\ o.keys = l
    BY <2>1 DEF NoOp
  <2>3. NoOp.does = "none" /\ l \in Seq(CachedKinds)
    BY CacheAssumption DEF NoOp
  <2>. QED
    BY <2>2, <2>3
<1>6. << >> \in Seq(CachedKinds) /\ NoOp.does = "none"
  BY DEF NoOp
<1>4. CASE o \in CleanAlls
  <2>1. o.does = "cleanAll" /\ o.keys = << >>
    BY <1>4 DEF CleanAlls, NoOp
  <2>. QED
    BY <1>6, <2>1
<1>5. CASE o \in Creates
  <2>1. o.does = "create" /\ o.keys = << >> /\ Enabled
    BY <1>5 DEF Creates, NoOp
  <2>. QED
    BY <1>6, <2>1
<1>. QED
  BY <1>1, <1>2, <1>3, <1>4, <1>5 DEF OpSet

\* What is known of a call from where it is, of its kind and of its parameters.
LEMMA KindIs ==
  ASSUME TypeOK, NEW c \in Calls, Placed(c), pc[c] \in Walking \cup {"looking", "asking", "fetching"}
  PROVE  /\ Kind(c) \in Kinds
         /\ op[c].does = "query" => /\ Kind(c) = op[c].kind /\ Kind(c) # "osfamily"
                                    /\ op[c].q \in QueryParams
                                    /\ Query(c) \in QueryParams /\ Shaped(Kind(c), Query(c))
         /\ op[c].does # "query" => Kind(c) \in CachedKinds /\ todo[c] # << >>
                                      /\ Kind(c) = Head(todo[c])
<1>1. op[c] \in OpSet
  BY DEF TypeOK, OpSet
<1>2. CASE op[c].does = "query"
  BY <1>1, <1>2, OpsAre, BoundType, BoundShape DEF Kind, Query
<1>3. CASE op[c].does # "query"
  <2>1. todo[c] # << >> /\ todo[c] \in Seq(CachedKinds)
    BY <1>3 DEF Placed, TypeOK, Walking
  <2>. QED
    BY <1>3, <2>1 DEF Kind, Kinds
<1>. QED
  BY <1>2, <1>3

\* The types, part by part.
WorldType == present \in Inventories /\ changes \in 0..MaxChanges /\ failures \in 0..MaxFailures
CacheType == DOMAIN cache \subseteq Keys /\ \A k \in DOMAIN cache : cache[k] \in SUBSET Entries
TickingType == tickers \subseteq Calls /\ kept \in Calls \cup {None} /\ raced \subseteq Calls
LocalType ==
    /\ pc \in [Calls -> Pcs] /\ op \in [Calls -> OpSet] /\ todo \in [Calls -> Seq(CachedKinds)]
    /\ rest \in [Calls -> SUBSET Objects] /\ acc \in [Calls -> SUBSET Entries]
    /\ doomed \in [Calls -> SUBSET Keys]
    /\ answer \in [Calls -> [panic : BOOLEAN, list : SUBSET Entries]]
HistoryType ==
    /\ since \in [CachedKinds -> SUBSET Inventories] /\ mark \in [Calls -> SUBSET Inventories]
    /\ late \subseteq Keys /\ overtaken \subseteq Calls /\ disturbed \subseteq Calls
    /\ seen \in [Calls -> SUBSET Inventories]

LEMMA TypeParts == TypeOK <=> WorldType /\ CacheType /\ TickingType /\ LocalType /\ HistoryType
  BY ListsAre DEF TypeOK, WorldType, CacheType, TickingType, LocalType, HistoryType, OpSet

LEMMA TypePartsNext ==
  TypeOK' <=> WorldType' /\ CacheType' /\ TickingType' /\ LocalType' /\ HistoryType'
  BY ListsAre DEF TypeOK, WorldType, CacheType, TickingType, LocalType, HistoryType, OpSet

LEMMA GetType == ASSUME CacheType, NEW k PROVE Get(k) \in SUBSET Entries
  BY DEF CacheType, Get

LEMMA IdsType == ASSUME NEW list \in SUBSET Entries PROVE Ids(list) \in SUBSET Objects
  BY DEF Ids, Entries

LEMMA ReturnType ==
  ASSUME LocalType, HistoryType, NEW c \in Calls, NEW from, NEW list \in SUBSET Entries,
         op[c].does # "query" => todo[c] # << >>, Return(c, from, list)
  PROVE  LocalType' /\ overtaken' \subseteq Calls
<1>1. "done" \in Pcs /\ "filling" \in Pcs
  BY DEF Pcs
<1>2. pc' \in [Calls -> Pcs]
  BY <1>1 DEF Return, Goto, LocalType
<1>3. todo' \in [Calls -> Seq(CachedKinds)]
  <2>1. todo[c] \in Seq(CachedKinds)
    BY DEF LocalType
  <2>2. op[c].does # "query" => Tail(todo[c]) \in Seq(CachedKinds)
    BY <2>1
  <2>. QED
    BY <2>2 DEF Return, LocalType
<1>4. answer' \in [Calls -> [panic : BOOLEAN, list : SUBSET Entries]]
  <2>1. Answer(list) \in [panic : BOOLEAN, list : SUBSET Entries]
    BY DEF Answer
  <2>. QED
    BY <2>1 DEF Return, LocalType
<1>. QED
  BY <1>2, <1>3, <1>4 DEF Return, LocalType, HistoryType

LEMMA StoreType ==
  ASSUME CacheType, HistoryType, NEW c, NEW key \in Keys, NEW list \in SUBSET Entries,
         Store(c, key, list)
  PROVE  CacheType' /\ late' \subseteq Keys
  BY DEF CacheType, HistoryType, Store

LEMMA DeleteType ==
  ASSUME CacheType, HistoryType, NEW key, Delete(key)
  PROVE  CacheType' /\ late' \subseteq Keys
  BY DEF CacheType, HistoryType, Delete

LEMMA CleanedType ==
  ASSUME HistoryType, NEW kinds, NEW worlds \in SUBSET Inventories, Cleaned(kinds, worlds)
  PROVE  since' \in [CachedKinds -> SUBSET Inventories]
  BY DEF HistoryType, Cleaned

\* What a query asks one after the other, and what it is told.
LEMMA ToldHas ==
  ASSUME NEW k \in Kinds \ {"osfamily"}, NEW q \in QueryParams, NEW w \in SUBSET Objects,
         NEW o \in Objects
  PROVE  /\ Turns(k, q) \in SUBSET Objects /\ Told(k, o, w) \in SUBSET Entries
         /\ \A i \in Told(k, o, w) : i.dc = None
<1>1. Turns(k, q) \in SUBSET Objects
  BY DEF Turns, QueryParams
<1>2. Told(k, o, w) \in SUBSET Entries
  <2>1. \A s \in SUBSET w : Infos(s, None) \in SUBSET Entries
    <3>1. \A p \in Objects : Info(p, None) \in Entries
      BY EntryIs
    <3>. QED
      BY <3>1 DEF Infos
  <2>2. Find("folder", {o}, w) \in SUBSET w /\ Find(k, {o}, w) \in SUBSET w
        /\ Find("host", {o}, w) \in SUBSET w /\ PoolsIn(o, w) \in SUBSET w
    BY DEF Find, PoolsIn, Retrieve
  <2>3. \A p \in w : PoolInfo(p, None) \in Entries /\ HostInfo(p, None) \in Entries
    BY EntryIs
  <2>. QED
    BY <2>1, <2>2, <2>3 DEF Told
<1>3. \A i \in Told(k, o, w) : i.dc = None
  <2>1. \A p : /\ Info(p, None).dc = None /\ PoolInfo(p, None).dc = None
               /\ HostInfo(p, None).dc = None
    BY DEF Info, PoolInfo, HostInfo
  <2>. QED
    BY <2>1 DEF Told, Infos
<1>. QED
  BY <1>1, <1>2, <1>3

LEMMA OutcomeType ==
  ASSUME WorldType, HistoryType, NEW c \in Calls, NEW ok \in BOOLEAN, Outcome(c, ok)
  PROVE  WorldType' /\ disturbed' \subseteq Calls
<1>1. MaxFailures \in Nat
  BY CacheAssumption
<1>. QED
  BY <1>1 DEF WorldType, HistoryType, Outcome

\* The lists of a cache that queries have filled.
LEMMA WarmIs ==
  ASSUME NEW w \in Inventories, NEW ks \in SUBSET CachedKinds
  PROVE  /\ DOMAIN Warm(ks, w) = {SetKey(k) : k \in ks}
         /\ \A k \in ks : Warm(ks, w)[SetKey(k)] = Walked(k, w)
         /\ \A k \in CachedKinds : Walked(k, w) \in SUBSET Entries
<1>1. \A k \in ks : Warm(ks, w)[SetKey(k)] = Walked(KindOf(SetKey(k)), w)
  BY DEF Warm, KindOf
<1>2. Walked("osfamily", w) \in SUBSET Entries
  BY FamiliesHas, InventoriesAre DEF Walked
<1>3. \A k \in CachedKinds \ {"osfamily"} : Walked(k, w) \in SUBSET Entries
  BY WalkedIs DEF Kinds
<1>. QED
  BY <1>1, <1>2, <1>3, KindOfKey DEF Warm

LEMMA TypeInit == Init => TypeOK
<1> SUFFICES ASSUME Init PROVE TypeOK
  OBVIOUS
<1>1. WorldType
  BY CacheAssumption DEF Init, WorldType
<1>2. CacheType
  <2>1. present \in Inventories
    BY <1>1 DEF WorldType
  <2>2. CASE cache = Empty
    BY <2>2 DEF CacheType, Empty, Warm
  <2>3. ASSUME NEW ks \in SUBSET CachedKinds, cache = Warm(ks, present)
        PROVE  CacheType
    <3>1. DOMAIN cache = {SetKey(k) : k \in ks}
      BY <2>1, <2>3, WarmIs
    <3>2. \A k \in ks : cache[SetKey(k)] \in SUBSET Entries
      BY <2>1, <2>3, WarmIs
    <3>. QED
      BY <3>1, <3>2, KeysApart DEF CacheType
  <2>. QED
    BY <2>2, <2>3, CacheAssumption DEF Init
<1>3. TickingType /\ LocalType
  <2>1. TickingType
    BY DEF Init, TickingType
  <2>2. << >> \in Seq(CachedKinds)
    OBVIOUS
  <2>3. LocalType
    BY <2>2 DEF Init, LocalType, OpSet, Pcs, Answer
  <2>. QED
    BY <2>1, <2>3
<1>4. HistoryType
  BY DEF Init, HistoryType
<1>. QED
  BY <1>1, <1>2, <1>3, <1>4, TypeParts

\* What is not cached and who made a ticker change in the steps of the ticker only.
LEMMA TickingStep ==
  ASSUME TickingType, NEW c \in Calls, Receive(c) \/ Step(c)
  PROVE  /\ TickingType'
         /\ MakeTicker(c) \/ StoreTicker(c) \/ UNCHANGED <<tickers, kept, raced>>
<1>1. CASE MakeTicker(c)
  BY <1>1 DEF MakeTicker, TickingType
<1>2. CASE StoreTicker(c)
  BY <1>2 DEF StoreTicker, TickingType
<1>3. CASE UNCHANGED ticking
  BY <1>3 DEF ticking, TickingType
<1>4. \A from, a : Conclusion(c, from, a) => UNCHANGED ticking
  BY DEF Conclusion
<1>. QED
  BY <1>1, <1>2, <1>3, <1>4
     DEF Step, Receive, LookInCache, AskVCenter, FetchNext, FetchEnds, FillNext,
         GetDatacenters, KeepDatacenters, StoreDatacenters, ListNext, WalkEnds, StoreWalk,
         GetPolicies, CleanKeys, CleanNext, CleanEnds, CleanAll, DeleteNext, AllDeleted,
         KeepTicker

\* What a turn of a walk lists: all of a datacenter, nothing or, of OS families, some.
ListsPart(c, ok, d) ==
  /\ rest' = [rest EXCEPT ![c] = @ \ {d}]
  /\ \E part \in SUBSET Listed(Kind(c), d, present) :
       /\ acc' = [acc EXCEPT ![c] = @ \cup part]
       /\ Kind(c) # "osfamily" => part = IF ok THEN Listed(Kind(c), d, present) ELSE {}

LEMMA TurnListsPart ==
  ASSUME NEW c, NEW ok \in BOOLEAN, ListNext(c, ok)
  PROVE  \E d \in rest[c] : ListsPart(c, ok, d)
  BY DEF ListNext, ListsPart

\* Every step keeps to the types.
LEMMA TypeStep ==
  ASSUME TypeOK, PlacesInv, [Next]_vars PROVE TypeOK'
<1>0. WorldType /\ CacheType /\ LocalType /\ HistoryType
  BY TypeParts
<1>00. TickingType'
  <2>1. TickingType
    BY TypeParts
  <2>2. CASE Change \/ UNCHANGED vars
    BY <2>1, <2>2 DEF Change, vars, ticking, TickingType
  <2>. QED
    BY <2>1, <2>2, TickingStep DEF Next, Quiet
<1>. SUFFICES WorldType' /\ CacheType' /\ LocalType' /\ HistoryType'
  BY <1>00, TypePartsNext
<1>1. ASSUME NEW c \in Calls, Receive(c)
      PROVE  WorldType' /\ CacheType' /\ LocalType' /\ HistoryType'
  <2>1. \A o \in Queries \cup Cleans \cup CleanAlls \cup Creates : o \in OpSet
    BY DEF OpSet
  <2>2. PICK o \in OpSet : op' = [op EXCEPT ![c] = o] /\
               pc' = [pc EXCEPT ![c] = IF o.does = "query" THEN "looking" ELSE "cleaning"]
               /\ todo' = [todo EXCEPT ![c] = o.keys]
    BY <1>1, <2>1 DEF Receive
  <2>3. WorldType' /\ CacheType'
    BY <1>0, <1>1 DEF Receive, WorldType, CacheType, vcenter
  <2>4. LocalType'
    BY <1>0, <1>1, <2>2, OpsAre DEF Receive, LocalType, Pcs
  <2>5. HistoryType'
    BY <1>0, <1>1 DEF Receive, HistoryType, WorldType
  <2>. QED
    BY <2>3, <2>4, <2>5
<1>2. ASSUME NEW c \in Calls, LookInCache(c)
      PROVE  WorldType' /\ CacheType' /\ LocalType' /\ HistoryType'
  <2> DEFINE k == op[c].kind
             hits == IF k \in CachedKinds THEN QueryCache(k, Query(c), Get(k)) ELSE {}
  <2>1. WorldType' /\ CacheType'
    BY <1>0, <1>2 DEF LookInCache, WorldType, CacheType, vcenter
  <2>2. hits \in SUBSET Entries
    BY <1>0, GetType, HitsAreCached
  <2>3. op[c].does = "query"
    BY <1>2 DEF LookInCache, PlacesInv, Placed
  <2>4. LocalType' /\ overtaken' \subseteq Calls
    <3>1. CASE hits # {}
      BY <1>0, <1>2, <2>2, <2>3, <3>1, ReturnType DEF LookInCache
    <3>2. CASE hits = {}
      <4>1. pc[c] = "looking"
        BY <1>2 DEF LookInCache
      <4>2. k \in Kinds \ {"osfamily"} /\ Query(c) \in QueryParams
        BY <2>3, <4>1, KindIs DEF PlacesInv
      <4>3. present \in SUBSET Objects
        BY <1>0, InventoriesAre DEF WorldType
      <4>4. Turns(k, Query(c)) \in SUBSET Objects
        BY <4>2 DEF Turns, QueryParams
      <4>5. PICK t \in Pcs, turns \in SUBSET Objects :
              /\ Goto(c, "looking", t)
              /\ rest' = [rest EXCEPT ![c] = turns]
              /\ UNCHANGED <<op, todo, acc, doomed, answer, overtaken>>
        BY <1>2, <3>2, <4>4 DEF LookInCache, Pcs
      <4>. QED
        BY <1>0, <4>5 DEF LocalType, HistoryType, Goto
    <3>. QED
      BY <3>1, <3>2
  <2>5. HistoryType'
    BY <1>0, <1>2, <2>4 DEF LookInCache, HistoryType
  <2>. QED
    BY <2>1, <2>4, <2>5
<1>3. ASSUME NEW c \in Calls, NEW ok \in BOOLEAN, AskVCenter(c, ok)
      PROVE  WorldType' /\ CacheType' /\ LocalType' /\ HistoryType'
  <2>1. WorldType' /\ disturbed' \subseteq Calls
    BY <1>0, <1>3, OutcomeType DEF AskVCenter
  <2>2. PICK a : /\ Conclusion(c, "asking", a)
                 /\ \/ a = QueryVCenter(op[c].kind, Query(c), present)
                    \/ a \in {Answer({}), Panic}
    BY <1>3 DEF AskVCenter, PoolsUnread
  <2>3. a \in [panic : BOOLEAN, list : SUBSET Entries]
    <3>1. pc[c] = "asking" /\ op[c].does = "query" /\ ~Walks(op[c].kind, Query(c))
      BY <1>3 DEF AskVCenter, PlacesInv, Placed
    <3>2. /\ op[c].kind \in Kinds \ {"osfamily"} /\ Query(c) \in QueryParams
          /\ Shaped(op[c].kind, Query(c))
      BY <3>1, KindIs DEF PlacesInv
    <3>3. op[c].kind # "policy"
      <4>1. \A q : Walks("policy", q)
        BY DEF Walks, MachineKinds
      <4>. QED
        BY <3>1, <4>1
    <3>4. present \in SUBSET Objects
      BY <1>0, InventoriesAre DEF WorldType
    <3>5. op[c].kind \in Kinds \ {"osfamily", "policy"}
      BY <3>2, <3>3
    <3>6. QueryVCenter(op[c].kind, Query(c), present) \in [panic : BOOLEAN, list : SUBSET Entries]
      BY <3>1, <3>2, <3>4, <3>5, VCenterHas
    <3>7. {Answer({}), Panic} \subseteq [panic : BOOLEAN, list : SUBSET Entries]
      BY DEF Answer, Panic
    <3>. QED
      BY <2>2, <3>6, <3>7
  <2>4. CacheType' /\ HistoryType'
    BY <1>0, <1>3, <2>1, <2>2 DEF AskVCenter, Conclusion, CacheType, HistoryType
  <2>5. LocalType'
    BY <1>0, <1>3, <2>2, <2>3 DEF AskVCenter, Conclusion, Goto, LocalType, Pcs
  <2>. QED
    BY <2>1, <2>4, <2>5
<1>17. ASSUME NEW c \in Calls, NEW ok \in BOOLEAN, FetchNext(c, ok)
       PROVE  WorldType' /\ CacheType' /\ LocalType' /\ HistoryType'
  <2>1. WorldType' /\ disturbed' \subseteq Calls
    BY <1>0, <1>17, OutcomeType DEF FetchNext
  <2>2. CacheType' /\ HistoryType'
    BY <1>0, <1>17, <2>1 DEF FetchNext, CacheType, HistoryType
  <2>3. PICK o \in rest[c] :
          /\ rest' = [rest EXCEPT ![c] = @ \ {o}]
          /\ acc' = [acc EXCEPT ![c] = IF ok THEN @ \cup Told(op[c].kind, o, present) ELSE @]
    BY <1>17 DEF FetchNext
  <2>4. Told(op[c].kind, o, present) \in SUBSET Entries
    <3>1. pc[c] = "fetching" /\ op[c].does = "query"
      BY <1>17 DEF FetchNext, PlacesInv, Placed
    <3>2. op[c].kind \in Kinds \ {"osfamily"} /\ Query(c) \in QueryParams
      BY <3>1, KindIs DEF PlacesInv
    <3>3. o \in Objects /\ present \in SUBSET Objects
      BY <1>0, InventoriesAre DEF LocalType, WorldType
    <3>. QED
      BY <3>2, <3>3, ToldHas
  <2>5. LocalType'
    BY <1>0, <1>17, <2>3, <2>4 DEF FetchNext, LocalType
  <2>. QED
    BY <2>1, <2>2, <2>5
<1>18. ASSUME NEW c \in Calls, FetchEnds(c)
       PROVE  WorldType' /\ CacheType' /\ LocalType' /\ HistoryType'
  <2> DEFINE a == Conclude(op[c].kind, acc[c])
  <2>1. a \in [panic : BOOLEAN, list : SUBSET Entries]
    BY <1>0 DEF LocalType, Conclude, Answer, Panic
  <2>2. WorldType' /\ CacheType' /\ HistoryType'
    BY <1>0, <1>18 DEF FetchEnds, Conclusion, WorldType, CacheType, HistoryType, vcenter
  <2>3. Conclusion(c, "fetching", a) /\ acc' = [acc EXCEPT ![c] = {}] /\ UNCHANGED rest
    BY <1>18 DEF FetchEnds
  <2>4. LocalType'
    <3> HIDE DEF a
    <3>. QED
      BY <1>0, <2>1, <2>3 DEF Conclusion, Goto, LocalType, Pcs
  <2>. QED
    BY <2>2, <2>4
<1>4. ASSUME NEW c \in Calls, FillNext(c)
      PROVE  WorldType' /\ CacheType' /\ LocalType' /\ HistoryType'
  <2>1. WorldType' /\ CacheType'
    BY <1>0, <1>4 DEF FillNext, WorldType, CacheType, vcenter
  <2>2. LocalType' /\ overtaken' \subseteq Calls
    <3>1. CASE todo[c] # << >> /\ Return(c, "filling", {})
      BY <1>0, <3>1, ReturnType
    <3>2. CASE ~(todo[c] # << >> /\ Return(c, "filling", {}))
      BY <1>0, <1>4, <3>2 DEF FillNext, LocalType, HistoryType, Goto, Pcs
    <3>. QED
      BY <3>1, <3>2
  <2>3. HistoryType'
    BY <1>0, <1>4, <2>2 DEF FillNext, HistoryType
  <2>. QED
    BY <2>1, <2>2, <2>3
<1>5. ASSUME NEW c \in Calls, NEW ok \in BOOLEAN, GetDatacenters(c, ok)
      PROVE  WorldType' /\ CacheType' /\ LocalType' /\ HistoryType'
  <2>1. CacheType'
    BY <1>0, <1>5 DEF GetDatacenters, CacheType
  <2>2. WorldType' /\ disturbed' \subseteq Calls
    <3>1. CASE Outcome(c, ok)
      BY <1>0, <3>1, OutcomeType
    <3>2. CASE UNCHANGED <<vcenter, disturbed>>
      BY <1>0, <3>2 DEF WorldType, HistoryType, vcenter
    <3>. QED
      BY <1>5, <3>1, <3>2 DEF GetDatacenters
  <2>3. op[c].does # "query" => todo[c] # << >>
    BY <1>5 DEF GetDatacenters, PlacesInv, Placed, Walking
  <2>4. Get("datacenter") \in SUBSET Entries /\ Ids(Get("datacenter")) \in SUBSET Objects
    BY <1>0, GetType, IdsType
  <2>5. Whole("datacenter", present) \in SUBSET Entries /\ {} \in SUBSET Entries
    BY <1>0, WholeHas, InventoriesAre DEF WorldType
  <2>6. LocalType' /\ overtaken' \subseteq Calls
    <3>1. CASE \/ Return(c, "datacenters", Get("datacenter")) \/ Return(c, "datacenters", {})
      BY <1>0, <2>3, <2>4, <2>5, <3>1, ReturnType
    <3>2. CASE /\ Goto(c, "datacenters", "listing")
               /\ rest' = [rest EXCEPT ![c] = Ids(Get("datacenter"))]
               /\ UNCHANGED <<op, todo, acc, doomed, answer, overtaken>>
      BY <1>0, <2>4, <3>2 DEF LocalType, HistoryType, Goto, Pcs
    <3>3. CASE /\ Goto(c, "datacenters", "keeping")
               /\ acc' = [acc EXCEPT ![c] = Whole("datacenter", present)]
               /\ UNCHANGED <<op, todo, rest, doomed, answer, overtaken>>
      BY <1>0, <2>5, <3>3 DEF LocalType, HistoryType, Goto, Pcs
    <3>4. CASE /\ Goto(c, "datacenters", "storing")
               /\ UNCHANGED <<op, todo, rest, acc, doomed, answer, overtaken>>
      BY <1>0, <3>4 DEF LocalType, HistoryType, Goto, Pcs
    <3>. QED
      BY <1>5, <3>1, <3>2, <3>3, <3>4 DEF GetDatacenters
  <2>7. HistoryType'
    BY <1>0, <1>5, <2>2, <2>6 DEF GetDatacenters, HistoryType
  <2>. QED
    BY <2>1, <2>2, <2>6, <2>7
<1>19. ASSUME NEW c \in Calls, NEW from \in {"keeping", "keepWrite"}, pc[c] = from,
              WalkDatacenters(c, from)
       PROVE  LocalType' /\ overtaken' \subseteq Calls
  <2>1. acc[c] \in SUBSET Entries /\ Ids(acc[c]) \in SUBSET Objects
    BY <1>0, IdsType DEF LocalType
  <2>2. CASE Return(c, from, acc[c])
    <3>1. op[c].does # "query" => todo[c] # << >>
      BY <1>19 DEF PlacesInv, Placed, Walking
    <3>. QED
      BY <1>0, <2>1, <2>2, <3>1, ReturnType
  <2>3. CASE /\ Goto(c, from, "listing")
             /\ rest' = [rest EXCEPT ![c] = Ids(acc[c])]
             /\ acc' = [acc EXCEPT ![c] = {}]
             /\ overtaken' = overtaken \ {c}
             /\ UNCHANGED <<op, todo, doomed, answer>>
    BY <1>0, <2>1, <2>3 DEF LocalType, HistoryType, Goto, Pcs
  <2>. QED
    BY <1>19, <2>2, <2>3 DEF WalkDatacenters
<1>6. ASSUME NEW c \in Calls, KeepDatacenters(c)
      PROVE  WorldType' /\ CacheType' /\ LocalType' /\ HistoryType'
  <2>1. LocalType' /\ overtaken' \subseteq Calls
    <3>1. CASE Settable(DatacenterKey)
      BY <1>0, <1>6, <3>1 DEF KeepDatacenters, LocalType, HistoryType, Goto, Pcs
    <3>2. CASE ~Settable(DatacenterKey)
      BY <1>6, <1>19, <3>2 DEF KeepDatacenters
    <3>. QED
      BY <3>1, <3>2
  <2>2. WorldType' /\ CacheType' /\ HistoryType'
    BY <1>0, <1>6, <2>1 DEF KeepDatacenters, WorldType, CacheType, HistoryType, vcenter
  <2>. QED
    BY <2>1, <2>2
<1>20. ASSUME NEW c \in Calls, StoreDatacenters(c)
       PROVE  WorldType' /\ CacheType' /\ LocalType' /\ HistoryType'
  <2>1. LocalType' /\ overtaken' \subseteq Calls
    BY <1>19, <1>20 DEF StoreDatacenters
  <2>2. CacheType' /\ late' \subseteq Keys
    <3>1. DatacenterKey \in Keys /\ acc[c] \in SUBSET Entries
      BY <1>0, KeysApart DEF LocalType, SetKey, Shared, CachedKinds
    <3>. QED
      BY <1>0, <1>20, <3>1, StoreType DEF StoreDatacenters
  <2>3. WorldType' /\ HistoryType'
    BY <1>0, <1>20, <2>1, <2>2 DEF StoreDatacenters, WorldType, HistoryType, vcenter
  <2>. QED
    BY <2>1, <2>2, <2>3
<1>7. ASSUME NEW c \in Calls, NEW ok \in BOOLEAN, ListNext(c, ok)
      PROVE  WorldType' /\ CacheType' /\ LocalType' /\ HistoryType'
  <2>1. WorldType' /\ disturbed' \subseteq Calls
    BY <1>0, <1>7, OutcomeType DEF ListNext
  <2>2. CacheType' /\ HistoryType'
    BY <1>0, <1>7, <2>1 DEF ListNext, CacheType, HistoryType
  <2>3. LocalType'
    <3>1. PICK d \in rest[c] : ListsPart(c, ok, d)
      BY <1>7, TurnListsPart
    <3>2. Listed(Kind(c), d, present) \in SUBSET Entries
      <4>1. Kind(c) \in WalkedKinds \cup {"osfamily"}
        BY <1>7, KindIs DEF ListNext, PlacesInv, Placed, Walking, WalkedKinds
      <4>2. d \in Objects /\ present \in SUBSET Objects
        BY <1>0, InventoriesAre DEF LocalType, WorldType
      <4>. QED
        BY <4>1, <4>2, ListedHas, FamiliesHas
    <3>. QED
      BY <1>0, <1>7, <3>1, <3>2 DEF ListNext, ListsPart, LocalType
  <2>. QED
    BY <2>1, <2>2, <2>3
<1>8. ASSUME NEW c \in Calls, WalkEnds(c)
      PROVE  WorldType' /\ CacheType' /\ LocalType' /\ HistoryType'
  <2>1. acc[c] \in SUBSET Entries
    BY <1>0 DEF LocalType
  <2>2. op[c].does # "query" => todo[c] # << >>
    BY <1>8 DEF WalkEnds, PlacesInv, Placed, Walking
  <2>3. LocalType' /\ overtaken' \subseteq Calls
    <3>1. CASE Return(c, pc[c], acc[c])
      BY <1>0, <2>1, <2>2, <3>1, ReturnType
    <3>2. CASE /\ Goto(c, pc[c], "storeWrite")
               /\ UNCHANGED <<op, todo, rest, acc, doomed, answer, overtaken>>
      BY <1>0, <3>2 DEF LocalType, HistoryType, Goto, Pcs
    <3>. QED
      BY <1>8, <3>1, <3>2 DEF WalkEnds
  <2>4. WorldType' /\ CacheType' /\ HistoryType'
    BY <1>0, <1>8, <2>3 DEF WalkEnds, WorldType, CacheType, HistoryType, vcenter
  <2>. QED
    BY <2>3, <2>4
<1>21. ASSUME NEW c \in Calls, StoreWalk(c)
       PROVE  WorldType' /\ CacheType' /\ LocalType' /\ HistoryType'
  <2>1. acc[c] \in SUBSET Entries
    BY <1>0 DEF LocalType
  <2>2. (op[c].does # "query" => todo[c] # << >>) /\ Kind(c) \in CachedKinds
    BY <1>21 DEF StoreWalk, PlacesInv, Placed, Walking
  <2>3. LocalType' /\ overtaken' \subseteq Calls
    BY <1>0, <1>21, <2>1, <2>2, ReturnType DEF StoreWalk
  <2>4. CacheType' /\ late' \subseteq Keys
    BY <1>0, <1>21, <2>1, <2>2, StoreType, KeysApart DEF StoreWalk
  <2>5. WorldType' /\ HistoryType'
    BY <1>0, <1>21, <2>3, <2>4 DEF StoreWalk, WorldType, HistoryType, vcenter
  <2>. QED
    BY <2>3, <2>4, <2>5
<1>9. ASSUME NEW c \in Calls, NEW ok \in BOOLEAN, GetPolicies(c, ok)
      PROVE  WorldType' /\ CacheType' /\ LocalType' /\ HistoryType'
  <2>1. WorldType' /\ disturbed' \subseteq Calls
    BY <1>0, <1>9, OutcomeType DEF GetPolicies
  <2>2. LocalType' /\ overtaken' \subseteq Calls
    <3>1. CASE ok
      <4>1. Whole("policy", present) \in SUBSET Entries
        BY <1>0, WholeHas, InventoriesAre DEF WorldType
      <4>2. /\ pc' = [pc EXCEPT ![c] = "storing"] /\ acc' = [acc EXCEPT ![c] = Whole("policy", present)]
            /\ UNCHANGED <<op, todo, rest, doomed, answer, overtaken>>
        BY <1>9, <3>1 DEF GetPolicies, Goto
      <4>3. "storing" \in Pcs
        BY DEF Pcs
      <4>. QED
        BY <1>0, <4>1, <4>2, <4>3 DEF LocalType, HistoryType
    <3>2. CASE ~ok
      <4>1. op[c].does # "query" => todo[c] # << >>
        BY <1>9 DEF GetPolicies, PlacesInv, Placed, Walking
      <4>. QED
        BY <1>0, <1>9, <3>2, <4>1, ReturnType DEF GetPolicies
    <3>. QED
      BY <3>1, <3>2
  <2>3. CacheType' /\ HistoryType'
    BY <1>0, <1>9, <2>1, <2>2 DEF GetPolicies, CacheType, HistoryType
  <2>. QED
    BY <2>1, <2>2, <2>3
<1>10. ASSUME NEW c \in Calls, CleanKeys(c)
       PROVE  WorldType' /\ CacheType' /\ LocalType' /\ HistoryType'
  <2>1. CASE CleanEnds(c)
    BY <1>0, <2>1 DEF CleanEnds, WorldType, CacheType, LocalType, HistoryType, vcenter, history,
                      Goto, Pcs
  <2>2. CASE todo[c] # << >> /\ CleanNext(c, Single(Head(todo[c])))
    <3>1. {present} \in SUBSET Inventories
      BY <1>0 DEF WorldType
    <3>2. CacheType' /\ late' \subseteq Keys /\ since' \in [CachedKinds -> SUBSET Inventories]
      BY <1>0, <2>2, <3>1, DeleteType, CleanedType DEF CleanNext
    <3>3. todo' \in [Calls -> Seq(CachedKinds)]
      <4>1. todo[c] \in Seq(CachedKinds)
        BY <1>0 DEF LocalType
      <4>2. Tail(todo[c]) \in Seq(CachedKinds)
        BY <2>2, <4>1
      <4>. QED
        BY <1>0, <2>2, <4>2 DEF CleanNext, LocalType
    <3>4. LocalType' /\ WorldType'
      BY <1>0, <2>2, <3>3 DEF CleanNext, LocalType, WorldType, vcenter
    <3>5. HistoryType'
      BY <1>0, <2>2, <3>2 DEF CleanNext, HistoryType, Overtake, Disturb
    <3>. QED
      BY <3>2, <3>4, <3>5
  <2>. QED
    BY <1>10, <2>1, <2>2 DEF CleanKeys
<1>11. ASSUME NEW c \in Calls, CleanAll(c)
       PROVE  WorldType' /\ CacheType' /\ LocalType' /\ HistoryType'
  <2>1. CacheType' /\ WorldType' /\ LocalType'
    BY <1>0, <1>11 DEF CleanAll, CacheType, LocalType, WorldType, vcenter, Goto, Pcs
  <2>2. HistoryType'
    BY <1>0, <1>11 DEF CleanAll, HistoryType, WorldType, Overtake, Disturb
  <2>. QED
    BY <2>1, <2>2
<1>12. ASSUME NEW c \in Calls, DeleteNext(c)
       PROVE  WorldType' /\ CacheType' /\ LocalType' /\ HistoryType'
  <2>1. PICK key : Delete(key) /\ doomed' = [doomed EXCEPT ![c] = @ \ {key}]
    BY <1>12 DEF DeleteNext
  <2>2. CacheType' /\ late' \subseteq Keys
    BY <1>0, <2>1, DeleteType
  <2>3. LocalType' /\ WorldType'
    BY <1>0, <1>12, <2>1 DEF DeleteNext, LocalType, WorldType, vcenter
  <2>4. HistoryType'
    BY <1>0, <1>12, <2>2 DEF DeleteNext, HistoryType, Disturb
  <2>. QED
    BY <2>2, <2>3, <2>4
<1>22. ASSUME NEW c \in Calls, AllDeleted(c)
       PROVE  WorldType' /\ CacheType' /\ LocalType' /\ HistoryType'
  <2>1. mark[c] \in SUBSET Inventories
    BY <1>0 DEF HistoryType
  <2>2. since' \in [CachedKinds -> SUBSET Inventories]
    BY <1>0, <1>22, <2>1, CleanedType DEF AllDeleted
  <2>3. LocalType' /\ WorldType' /\ CacheType'
    <3>1. FillKinds \in Seq(CachedKinds) /\ << >> \in Seq(CachedKinds)
      BY CacheAssumption
    <3>. QED
      BY <1>0, <1>22, <3>1 DEF AllDeleted, LocalType, WorldType, CacheType, vcenter, Goto, Pcs
  <2>4. HistoryType'
    BY <1>0, <1>22, <2>2 DEF AllDeleted, HistoryType, Disturb
  <2>. QED
    BY <2>2, <2>3, <2>4
<1>13. ASSUME NEW c \in Calls, MakeTicker(c) \/ KeepTicker(c)
       PROVE  WorldType' /\ CacheType' /\ LocalType' /\ HistoryType'
  <2>1. WorldType' /\ HistoryType' /\ CacheType'
    BY <1>0, <1>13 DEF MakeTicker, KeepTicker, WorldType, HistoryType, CacheType, vcenter, history
  <2>2. LocalType'
    BY <1>0, <1>13 DEF MakeTicker, KeepTicker, LocalType, Goto, Pcs
  <2>. QED
    BY <2>1, <2>2
<1>14. ASSUME NEW c \in Calls, StoreTicker(c)
       PROVE  WorldType' /\ CacheType' /\ LocalType' /\ HistoryType'
  <2>1. CacheType' /\ late' \subseteq Keys
    BY <1>0, <1>14, KeysApart, StoreType DEF StoreTicker
  <2>2. WorldType' /\ LocalType' /\ HistoryType'
    BY <1>0, <1>14, <2>1 DEF StoreTicker, WorldType, LocalType, HistoryType, vcenter, Goto, Pcs
  <2>. QED
    BY <2>1, <2>2
<1>15. CASE Change
  <2>1. PICK w \in Inventories :
          /\ present' = w
          /\ since' = [k \in CachedKinds |-> since[k] \cup {w}]
          /\ mark' = [c \in Calls |-> IF mark[c] = {} THEN {} ELSE mark[c] \cup {w}]
          /\ seen' = [c \in Calls |-> IF seen[c] = {} THEN {} ELSE seen[c] \cup {w}]
    BY <1>15 DEF Change
  <2>2. WorldType'
    BY <1>0, <1>15, <2>1, CacheAssumption DEF Change, WorldType
  <2>3. CacheType' /\ LocalType'
    BY <1>0, <1>15 DEF Change, CacheType, LocalType, local
  <2>4. HistoryType'
    BY <1>0, <1>15, <2>1 DEF Change, HistoryType
  <2>. QED
    BY <2>2, <2>3, <2>4
<1>16. CASE UNCHANGED vars
  BY <1>0, <1>16 DEF vars, vcenter, local, history, WorldType, CacheType, LocalType,
                     HistoryType
<1>. QED
  BY <1>1, <1>2, <1>3, <1>4, <1>5, <1>6, <1>7, <1>8, <1>9, <1>10, <1>11, <1>12, <1>13, <1>14,
     <1>15, <1>16, <1>17, <1>18, <1>20, <1>21, <1>22 DEF Next, Quiet, Step
-----------------------------------------------------------------------------
(* Where the calls are.                                                    *)

\* A step of one call is nothing that another notices.
SameCall(g) ==
    /\ pc'[g] = pc[g] /\ op'[g] = op[g] /\ todo'[g] = todo[g] /\ rest'[g] = rest[g]
    /\ acc'[g] = acc[g] /\ doomed'[g] = doomed[g] /\ answer'[g] = answer[g]
    /\ mark'[g] = mark[g] /\ seen'[g] = seen[g]

LEMMA OthersStay ==
  ASSUME TypeOK, NEW c \in Calls, Receive(c) \/ Step(c), NEW g \in Calls, g # c
  PROVE  SameCall(g) /\ present' = present
<1>0. /\ pc \in [Calls -> Pcs] /\ op \in [Calls -> OpSet] /\ todo \in [Calls -> Seq(CachedKinds)]
      /\ rest \in [Calls -> SUBSET Objects] /\ acc \in [Calls -> SUBSET Entries]
      /\ doomed \in [Calls -> SUBSET Keys] /\ DOMAIN answer = Calls
      /\ DOMAIN mark = Calls /\ DOMAIN seen = Calls
  BY TypeParts DEF LocalType, HistoryType
<1> USE DEF SameCall, vcenter, Outcome
<1>1. CASE Receive(c)
  <2>1. PICK o : op' = [op EXCEPT ![c] = o] /\
               pc' = [pc EXCEPT ![c] = IF o.does = "query" THEN "looking" ELSE "cleaning"]
               /\ todo' = [todo EXCEPT ![c] = o.keys]
    BY <1>1 DEF Receive
  <2>. QED
    BY <1>0, <1>1, <2>1 DEF Receive
<1>2. \A from, list : Return(c, from, list) =>
        /\ pc'[g] = pc[g] /\ op'[g] = op[g] /\ todo'[g] = todo[g] /\ rest'[g] = rest[g]
        /\ acc'[g] = acc[g] /\ doomed'[g] = doomed[g] /\ answer'[g] = answer[g]
  BY <1>0 DEF Return, Goto
<1>3. \A from, to : Goto(c, from, to) => pc'[g] = pc[g]
  BY <1>0 DEF Goto
<1> HIDE DEF Return, Goto
<1>4. CASE LookInCache(c)
  <2>1. \/ \E l : Return(c, "looking", l)
        \/ /\ \E t : Goto(c, "looking", t)
           /\ \E t : rest' = [rest EXCEPT ![c] = t]
           /\ UNCHANGED <<op, todo, acc, doomed, answer>>
    BY <1>4 DEF LookInCache
  <2>2. UNCHANGED <<mark, seen, present>>
    BY <1>4 DEF LookInCache
  <2>. QED
    BY <1>0, <1>2, <1>3, <2>1, <2>2
<1>17. \A from, a : Conclusion(c, from, a) =>
         /\ pc'[g] = pc[g] /\ answer'[g] = answer[g] /\ UNCHANGED <<op, todo, doomed, mark, seen>>
  BY <1>0, <1>3 DEF Conclusion
<1> HIDE DEF Conclusion
<1>5. ASSUME NEW ok \in BOOLEAN, AskVCenter(c, ok) PROVE SameCall(g) /\ present' = present
  BY <1>17, <1>5 DEF AskVCenter
<1>18. ASSUME NEW ok \in BOOLEAN, FetchNext(c, ok) PROVE SameCall(g) /\ present' = present
  BY <1>0, <1>18 DEF FetchNext
<1>19. CASE FetchEnds(c)
  BY <1>0, <1>17, <1>19 DEF FetchEnds
<1>6. CASE FillNext(c)
  BY <1>0, <1>2, <1>3, <1>6 DEF FillNext
<1>7. ASSUME NEW ok \in BOOLEAN, GetDatacenters(c, ok) PROVE SameCall(g) /\ present' = present
  BY <1>0, <1>2, <1>3, <1>7 DEF GetDatacenters
<1>20. \A from : WalkDatacenters(c, from) =>
         /\ pc'[g] = pc[g] /\ op'[g] = op[g] /\ todo'[g] = todo[g] /\ rest'[g] = rest[g]
         /\ acc'[g] = acc[g] /\ doomed'[g] = doomed[g] /\ answer'[g] = answer[g]
  BY <1>0, <1>2, <1>3 DEF WalkDatacenters
<1> HIDE DEF WalkDatacenters
<1>8. CASE KeepDatacenters(c)
  BY <1>3, <1>8, <1>20 DEF KeepDatacenters
<1>21. CASE StoreDatacenters(c)
  BY <1>20, <1>21 DEF StoreDatacenters
<1>9. ASSUME NEW ok \in BOOLEAN, ListNext(c, ok) PROVE SameCall(g) /\ present' = present
  BY <1>0, <1>9 DEF ListNext
<1>10. CASE WalkEnds(c)
  BY <1>2, <1>3, <1>10 DEF WalkEnds
<1>22. CASE StoreWalk(c)
  BY <1>2, <1>22 DEF StoreWalk
<1>11. ASSUME NEW ok \in BOOLEAN, GetPolicies(c, ok) PROVE SameCall(g) /\ present' = present
  BY <1>0, <1>2, <1>3, <1>11 DEF GetPolicies
<1>12. CASE CleanKeys(c)
  BY <1>0, <1>3, <1>12 DEF CleanKeys, CleanNext, CleanEnds, history
<1>13. CASE CleanAll(c)
  BY <1>0, <1>3, <1>13 DEF CleanAll
<1>14. CASE DeleteNext(c)
  BY <1>0, <1>14 DEF DeleteNext
<1>23. CASE AllDeleted(c)
  BY <1>0, <1>3, <1>23 DEF AllDeleted
<1>15. CASE MakeTicker(c)
  BY <1>3, <1>15 DEF MakeTicker, history
<1>16. CASE KeepTicker(c) \/ StoreTicker(c)
  BY <1>3, <1>16 DEF KeepTicker, StoreTicker, history
<1>. QED
  BY <1>1, <1>4, <1>5, <1>6, <1>7, <1>8, <1>9, <1>10, <1>11, <1>12, <1>13, <1>14, <1>15,
     <1>16, <1>18, <1>19, <1>21, <1>22, <1>23 DEF Step

LEMMA TailIsPart ==
  ASSUME NEW S, NEW q \in Seq(S), q # << >>
  PROVE  Elements(Tail(q)) \subseteq Elements(q) /\ Head(q) \in Elements(q)
  BY DEF Elements

LEMMA PlacesInit == ASSUME Init PROVE PlacesInv
<1>1. ASSUME NEW c \in Calls PROVE Placed(c)
  BY DEF Init, Placed, NoOp, Walking, Reading, Keeping
<1>. QED
  BY <1>1 DEF Init, PlacesInv

\* A call that nothing has happened to is where it was.
LEMMA PlacedStays ==
  ASSUME NEW g \in Calls, Placed(g), SameCall(g), present' = present PROVE Placed(g)'
  BY DEF Placed, SameCall, Kind, Query

LEMMA PlacedReturns ==
  ASSUME LocalType, NEW c \in Calls, NEW from, NEW list, Placed(c), from # "idle",
         Return(c, from, list), op[c].does \in {"query", "create"},
         UNCHANGED <<present, mark, seen>>
  PROVE  Placed(c)'
<1>1. /\ pc[c] = from /\ pc'[c] = (IF op[c].does = "query" THEN "done" ELSE "filling")
      /\ op' = op /\ doomed' = doomed /\ acc'[c] = {}
  BY DEF Return, Goto, LocalType
<1>. QED
  BY <1>1 DEF Placed, Walking, Reading, Keeping

\* What a step of a call does to the history: only a delete changes since when a
\* list is explained, only a clean overtakes, and what is disturbed stays so.
Goes(c) ==
    /\ disturbed \subseteq disturbed'
    /\ failures \in Nat /\ failures' \in Nat
    /\ failures' = 0 => failures = 0
    /\ failures' = failures \/ (c \in disturbed' /\ failures' # 0)
    /\ CleanKeys(c) \/ AllDeleted(c) \/ since' = since
    /\ CleanKeys(c) \/ CleanAll(c) \/ overtaken' \in {overtaken, overtaken \ {c}}

LEMMA HistoryGoes ==
  ASSUME TypeOK, NEW c \in Calls, Receive(c) \/ Step(c)
  PROVE  Goes(c)
<1> USE DEF Goes
<1>0. failures \in Nat /\ overtaken = overtaken
  BY CacheAssumption, TypeParts DEF WorldType
<1>1. \A ok \in BOOLEAN : Outcome(c, ok) =>
        /\ disturbed \subseteq disturbed' /\ failures' \in Nat /\ (failures' = 0 => failures = 0)
        /\ failures' = failures \/ (c \in disturbed' /\ failures' # 0)
  BY <1>0 DEF Outcome
<1>2. UNCHANGED <<vcenter, disturbed>> =>
        disturbed \subseteq disturbed' /\ failures' = failures
  BY DEF vcenter
<1>3. \A from, list : Return(c, from, list) => overtaken' = overtaken \ {c}
  BY DEF Return
<1> HIDE DEF Return, Outcome
<1>4. CASE Receive(c)
  BY <1>0, <1>2, <1>4 DEF Receive
<1>5. CASE LookInCache(c)
  BY <1>0, <1>2, <1>3, <1>5 DEF LookInCache
<1>6. ASSUME NEW ok \in BOOLEAN, AskVCenter(c, ok)
      PROVE  Goes(c)
  BY <1>0, <1>1, <1>6 DEF AskVCenter, Conclusion
<1>18. ASSUME NEW ok \in BOOLEAN, FetchNext(c, ok)
       PROVE  Goes(c)
  BY <1>0, <1>1, <1>18 DEF FetchNext
<1>19. CASE FetchEnds(c)
  BY <1>0, <1>2, <1>19 DEF FetchEnds, Conclusion
<1>7. CASE FillNext(c)
  BY <1>0, <1>2, <1>3, <1>7 DEF FillNext
<1>8. ASSUME NEW ok \in BOOLEAN, GetDatacenters(c, ok)
      PROVE  Goes(c)
  BY <1>0, <1>1, <1>2, <1>3, <1>8 DEF GetDatacenters
<1>20. \A from : WalkDatacenters(c, from) => overtaken' = overtaken \ {c}
  BY <1>3 DEF WalkDatacenters
<1>9. CASE KeepDatacenters(c) \/ StoreDatacenters(c)
  BY <1>0, <1>2, <1>9, <1>20 DEF KeepDatacenters, StoreDatacenters
<1>10. ASSUME NEW ok \in BOOLEAN, ListNext(c, ok)
      PROVE  Goes(c)
  BY <1>0, <1>1, <1>10 DEF ListNext
<1>11. CASE WalkEnds(c) \/ StoreWalk(c)
  BY <1>0, <1>2, <1>3, <1>11 DEF WalkEnds, StoreWalk
<1>12. ASSUME NEW ok \in BOOLEAN, GetPolicies(c, ok)
      PROVE  Goes(c)
  BY <1>0, <1>1, <1>3, <1>12 DEF GetPolicies
<1>13. CASE CleanKeys(c)
  BY <1>0, <1>13 DEF CleanKeys, CleanNext, CleanEnds, vcenter, Overtake, Disturb, history
<1>14. CASE CleanAll(c)
  BY <1>0, <1>14 DEF CleanAll, vcenter, Overtake, Disturb
<1>15. CASE DeleteNext(c) \/ AllDeleted(c)
  BY <1>0, <1>15 DEF DeleteNext, AllDeleted, vcenter, Disturb
<1>16. CASE MakeTicker(c)
  BY <1>0, <1>16 DEF MakeTicker, vcenter, history
<1>17. CASE KeepTicker(c) \/ StoreTicker(c)
  BY <1>0, <1>17 DEF KeepTicker, StoreTicker, vcenter, history
<1> HIDE DEF Goes
<1>. QED
  BY <1>4, <1>5, <1>6, <1>7, <1>8, <1>9, <1>10, <1>11, <1>12, <1>13, <1>14, <1>15, <1>16, <1>17,
     <1>18, <1>19 DEF Step

\* Each call is where its operation has it, and what is there now is among what
\* it has seen.
LEMMA PlacesStep ==
  ASSUME TypeOK, PlacesInv, [Next]_vars PROVE PlacesInv'
<1>0. WorldType /\ LocalType /\ HistoryType
  BY TypeParts
<1>1. \A c \in Calls : Placed(c)
  BY DEF PlacesInv
<1>2. ASSUME NEW c \in Calls, Receive(c) \/ Step(c) PROVE PlacesInv'
  <2>0. present' = present
    BY <1>2 DEF Receive, Step, LookInCache, AskVCenter, FetchNext, FetchEnds, FillNext,
         GetDatacenters, KeepDatacenters, StoreDatacenters, ListNext, WalkEnds, StoreWalk,
         GetPolicies, CleanKeys, CleanNext, CleanEnds, CleanAll, DeleteNext, AllDeleted,
         MakeTicker, KeepTicker, StoreTicker, Outcome, vcenter
  <2>. SUFFICES /\ Placed(c)' /\ \A k \in CachedKinds : present \in since'[k]
                /\ overtaken' \subseteq disturbed'
    <3>1. \A g \in Calls \ {c} : Placed(g)'
      BY <1>1, <1>2, OthersStay, PlacedStays
    <3>. QED
      BY <2>0, <3>1 DEF PlacesInv
  <2>1. \A k \in CachedKinds : present \in since'[k]
    <3>1. CASE CleanKeys(c)
      BY <3>1 DEF CleanKeys, CleanNext, CleanEnds, Cleaned, PlacesInv, history
    <3>2. CASE AllDeleted(c)
      BY <1>1, <3>2 DEF AllDeleted, Cleaned, Placed, Goto
    <3>. QED
      BY <1>2, <3>1, <3>2, HistoryGoes DEF PlacesInv, Goes
  <2>2. overtaken' \subseteq disturbed'
    <3>1. CASE CleanKeys(c)
      BY <3>1 DEF CleanKeys, CleanNext, CleanEnds, Overtake, Disturb, PlacesInv, Reading, history
    <3>2. CASE CleanAll(c)
      BY <3>2 DEF CleanAll, Overtake, Disturb, PlacesInv, Reading
    <3>. QED
      BY <1>2, <3>1, <3>2, HistoryGoes DEF PlacesInv, Goes
  <2>3. op[c] \in OpSet
    BY <1>0 DEF LocalType
  <2>. SUFFICES Placed(c)'
    BY <2>1, <2>2
  <2>4. CASE Receive(c)
    <3>1. PICK o \in Queries \cup Cleans \cup CleanAlls \cup Creates :
             /\ op' = [op EXCEPT ![c] = o]
             /\ pc' = [pc EXCEPT ![c] = IF o.does = "query" THEN "looking" ELSE "cleaning"]
             /\ todo' = [todo EXCEPT ![c] = o.keys]
      BY <2>4 DEF Receive
    <3>2. o.does # "none"
      <4>1. o \in Queries => o.does # "none"
        BY DEF Queries
      <4>2. o \in Cleans => o.does # "none"
        BY DEF Cleans, NoOp
      <4>3. o \in CleanAlls \cup Creates => o.does # "none"
        BY DEF CleanAlls, Creates, NoOp
      <4>. QED
        BY <4>1, <4>2, <4>3
    <3>3. /\ op'[c] = o /\ pc'[c] = (IF o.does = "query" THEN "looking" ELSE "cleaning")
          /\ acc' = acc /\ rest' = rest /\ doomed' = doomed /\ mark' = mark /\ todo'[c] = o.keys
          /\ seen'[c] = {present} /\ pc[c] = "idle"
      BY <1>0, <2>4, <3>1 DEF Receive, LocalType, HistoryType
    <3>. QED
      BY <1>1, <2>0, <3>2, <3>3 DEF Placed, Walking, Reading, Keeping
  <2>5. CASE LookInCache(c)
    <3>1. UNCHANGED <<present, mark, seen>> /\ pc[c] = "looking" /\ op[c].does = "query"
      BY <1>1, <2>0, <2>5 DEF LookInCache, Placed
    <3>2. CASE \E l : Return(c, "looking", l)
      BY <1>0, <1>1, <3>1, <3>2, PlacedReturns
    <3>3. CASE ~\E l : Return(c, "looking", l)
      <4> DEFINE k == op[c].kind
      <4> DEFINE turns == IF Walks(k, Query(c)) THEN {} ELSE Turns(k, Query(c))
      <4>1. /\ UNCHANGED <<op, todo, acc, doomed>>
            /\ pc'[c] = (CASE turns # {} -> "fetching"
                           [] turns = {} /\ ~Walks(k, Query(c)) -> "asking"
                           [] turns = {} /\ Walks(k, Query(c)) /\ k = "policy" -> "policies"
                           [] OTHER -> "datacenters")
        BY <1>0, <2>5, <3>3 DEF LookInCache, Goto, LocalType
      <4>2. Kind(c) = k /\ acc[c] = {}
        BY <1>1, <3>1 DEF Kind, Placed, Reading
      <4>3. CASE ~Walks(k, Query(c))
        <5>1. pc'[c] \in {"fetching", "asking"}
          BY <4>1, <4>3
        <5>. QED
          BY <1>1, <3>1, <4>1, <4>2, <4>3, <5>1 DEF Placed, Walking, Reading, Query, Keeping
      <4>4. CASE Walks(k, Query(c))
        <5>1. pc'[c] = IF k = "policy" THEN "policies" ELSE "datacenters"
          BY <4>1, <4>4
        <5>. QED
          BY <1>1, <3>1, <4>1, <4>2, <4>4, <5>1 DEF Placed, Walking, Reading, Query, Kind, Keeping
      <4>. QED
        BY <4>3, <4>4
    <3>. QED
      BY <3>2, <3>3
  <2>20. ASSUME NEW from \in {"asking", "fetching"}, NEW a, Conclusion(c, from, a),
                acc'[c] = {}, rest' = rest
         PROVE  Placed(c)'
    <3>1. /\ UNCHANGED <<present, mark, seen, op, todo, doomed>> /\ pc[c] = from
          /\ pc'[c] \in {"panicked", "done"}
      BY <1>0, <2>0, <2>20 DEF Conclusion, Goto, LocalType, HistoryType
    <3>2. op[c].does = "query"
      BY <1>1, <2>20, <3>1 DEF Placed
    <3>. QED
      BY <1>1, <2>20, <3>1, <3>2 DEF Placed, Walking, Reading, Keeping
  <2>6. ASSUME NEW ok \in BOOLEAN, AskVCenter(c, ok) PROVE Placed(c)'
    <3>1. acc[c] = {}
      BY <1>1, <2>6 DEF AskVCenter, Placed, Reading
    <3>. QED
      BY <2>6, <2>20, <3>1 DEF AskVCenter
  <2>18. ASSUME NEW ok \in BOOLEAN, FetchNext(c, ok) PROVE Placed(c)'
    <3>1. PICK o \in rest[c] :
            /\ rest' = [rest EXCEPT ![c] = @ \ {o}]
            /\ acc' = [acc EXCEPT ![c] = IF ok THEN @ \cup Told(op[c].kind, o, present) ELSE @]
      BY <2>18 DEF FetchNext
    <3>2. UNCHANGED <<present, mark, seen, pc, op, todo, doomed>> /\ pc[c] = "fetching"
      BY <2>0, <2>18 DEF FetchNext
    <3>3. op[c].kind \in Kinds \ {"osfamily"} /\ Query(c) \in QueryParams
      BY <1>1, <3>2, KindIs DEF Placed
    <3>4. o \in Objects /\ present \in SUBSET Objects /\ None \notin rest[c]
      BY <1>0, InventoriesAre, InventoryAssumption DEF LocalType, WorldType
    <3>5. \A i \in Told(op[c].kind, o, present) : i.dc = None
      BY <3>3, <3>4, ToldHas
    <3>6. /\ rest'[c] = rest[c] \ {o}
          /\ acc'[c] \subseteq acc[c] \cup Told(op[c].kind, o, present)
      BY <1>0, <3>1 DEF LocalType
    <3>7. \A i \in acc'[c] : i.dc \notin rest'[c]
      BY <1>1, <3>4, <3>5, <3>6 DEF Placed
    <3>. QED
      BY <1>1, <3>2, <3>7 DEF Placed, Walking, Reading, Kind, Query, Keeping
  <2>19. CASE FetchEnds(c)
    BY <1>0, <2>19, <2>20 DEF FetchEnds, LocalType
  <2>7. CASE FillNext(c)
    <3>1. UNCHANGED <<present, mark, seen>> /\ pc[c] = "filling" /\ op[c].does = "create"
      BY <1>1, <2>0, <2>7 DEF FillNext, Placed
    <3>2. CASE Return(c, "filling", {})
      BY <1>0, <1>1, <3>1, <3>2, PlacedReturns
    <3>3. CASE todo[c] = << >> /\ Goto(c, "filling", IF Refresh THEN "ticker" ELSE "done")
                 /\ UNCHANGED <<todo, rest, acc, answer, overtaken, op, doomed>>
      <4>1. pc'[c] \in {"ticker", "done"}
        BY <1>0, <3>3 DEF Goto, LocalType
      <4>. QED
        BY <1>1, <3>1, <3>3, <4>1 DEF Placed, Walking, Reading, Keeping
    <3>4. CASE /\ todo[c] # << >>
               /\ Goto(c, "filling", IF Kind(c) = "policy" THEN "policies" ELSE "datacenters")
               /\ UNCHANGED <<todo, rest, acc, answer, overtaken, op, doomed>>
      <4>1. pc'[c] = IF Kind(c) = "policy" THEN "policies" ELSE "datacenters"
        BY <1>0, <3>4 DEF Goto, LocalType
      <4>. QED
        BY <1>1, <3>1, <3>4, <4>1 DEF Placed, Walking, Reading, Keeping, Kind
    <3>. QED
      BY <2>7, <3>2, <3>3, <3>4 DEF FillNext
  <2>8. ASSUME NEW ok \in BOOLEAN, GetDatacenters(c, ok) PROVE Placed(c)'
    <3>1. /\ UNCHANGED <<present, mark, seen>> /\ pc[c] = "datacenters"
          /\ op[c].does \in {"query", "create"}
      BY <1>1, <2>0, <2>8 DEF GetDatacenters, Placed, Walking
    <3>2. CASE \E l : Return(c, "datacenters", l)
      BY <1>0, <1>1, <3>1, <3>2, PlacedReturns
    <3>3. CASE /\ Kind(c) # "datacenter" /\ Goto(c, "datacenters", "listing")
               /\ rest' = [rest EXCEPT ![c] = Ids(Get("datacenter"))]
               /\ UNCHANGED <<op, todo, acc, doomed, answer, overtaken>>
      <4>1. pc'[c] = "listing" /\ acc'[c] = {}
        BY <1>0, <1>1, <3>1, <3>3 DEF Goto, LocalType, Placed, Reading
      <4>. QED
        BY <1>1, <3>1, <3>3, <4>1 DEF Placed, Walking, Reading, Keeping, Kind, Query
    <3>4. CASE /\ Goto(c, "datacenters", "keeping")
               /\ acc' = [acc EXCEPT ![c] = Whole("datacenter", present)]
               /\ UNCHANGED <<op, todo, rest, doomed, answer, overtaken>>
      <4>1. pc'[c] = "keeping" /\ acc'[c] = Whole("datacenter", present)
        BY <1>0, <3>4 DEF Goto, LocalType
      <4>2. \A i \in acc'[c] : i.dc = None
        BY <1>0, <4>1, WholeHas, InventoriesAre DEF WorldType
      <4>3. None \notin rest[c]
        BY <1>0, InventoryAssumption DEF LocalType
      <4>. QED
        BY <1>1, <3>1, <3>4, <4>1, <4>2, <4>3 DEF Placed, Walking, Reading, Keeping, Kind, Query
    <3>5. CASE /\ Kind(c) = "osfamily" /\ Goto(c, "datacenters", "storing")
               /\ UNCHANGED <<op, todo, rest, acc, doomed, answer, overtaken>>
      <4>1. pc'[c] = "storing"
        BY <1>0, <3>5 DEF Goto, LocalType
      <4>. QED
        BY <1>1, <3>1, <3>5, <4>1 DEF Placed, Walking, Reading, Keeping, Kind, Query
    <3>. QED
      BY <2>8, <3>2, <3>3, <3>4, <3>5 DEF GetDatacenters
  <2>21. ASSUME NEW from \in {"keeping", "keepWrite"}, WalkDatacenters(c, from), pc[c] = from,
                UNCHANGED <<present, mark, seen>>
         PROVE  Placed(c)'
    <3>1. op[c].does \in {"query", "create"}
      BY <1>1, <2>21 DEF Placed, Walking
    <3>2. CASE Return(c, from, acc[c])
      BY <1>0, <1>1, <2>21, <3>1, <3>2, PlacedReturns
    <3>3. CASE /\ Kind(c) # "datacenter" /\ Goto(c, from, "listing")
               /\ acc' = [acc EXCEPT ![c] = {}]
               /\ UNCHANGED <<op, todo, doomed, answer>>
      <4>1. pc'[c] = "listing" /\ acc'[c] = {}
        BY <1>0, <3>3 DEF Goto, LocalType
      <4>. QED
        BY <1>1, <2>21, <3>1, <3>3, <4>1 DEF Placed, Walking, Reading, Kind, Query, Keeping
    <3>. QED
      BY <2>21, <3>2, <3>3 DEF WalkDatacenters
  <2>9. CASE KeepDatacenters(c)
    <3>1. UNCHANGED <<present, mark, seen>> /\ pc[c] = "keeping"
      BY <2>0, <2>9 DEF KeepDatacenters
    <3>2. CASE /\ Goto(c, "keeping", "keepWrite")
               /\ UNCHANGED <<op, todo, rest, acc, doomed, answer, overtaken>>
      <4>1. pc'[c] = "keepWrite"
        BY <1>0, <3>2 DEF Goto, LocalType
      <4>. QED
        BY <1>1, <3>1, <3>2, <4>1 DEF Placed, Walking, Reading, Kind, Query, Keeping
    <3>. QED
      BY <2>9, <2>21, <3>1, <3>2 DEF KeepDatacenters
  <2>22. CASE StoreDatacenters(c)
    BY <2>0, <2>21, <2>22 DEF StoreDatacenters
  <2>10. ASSUME NEW ok \in BOOLEAN, ListNext(c, ok) PROVE Placed(c)'
    <3>1. PICK d \in rest[c] : ListsPart(c, ok, d)
      BY <2>10, TurnListsPart
    <3>2. /\ rest'[c] = rest[c] \ {d} /\ d \in Objects
          /\ acc'[c] \subseteq acc[c] \cup Listed(Kind(c), d, present)
      BY <1>0, <3>1 DEF LocalType, ListsPart
    <3>3. \A i \in Listed(Kind(c), d, present) : i.dc = d \/ i.dc = None
      <4>1. Kind(c) \in WalkedKinds \cup {"osfamily"}
        BY <1>1, <2>10, KindIs DEF ListNext, Placed, Walking, WalkedKinds
      <4>2. present \in SUBSET Objects
        BY <1>0, InventoriesAre DEF WorldType
      <4>. QED
        BY <3>2, <4>1, <4>2, ListedHas, FamiliesHas
    <3>4. \A i \in acc'[c] : i.dc \notin rest'[c]
      <4>1. None \notin rest[c]
        BY <1>0, InventoryAssumption DEF LocalType
      <4>. QED
        BY <1>1, <3>2, <3>3, <4>1 DEF Placed
    <3>5. UNCHANGED <<present, mark, seen, pc, op, todo, doomed>> /\ pc[c] = "listing"
      BY <2>0, <2>10 DEF ListNext
    <3>. QED
      BY <1>1, <3>4, <3>5 DEF Placed, Walking, Reading, Keeping, Kind, Query
  <2>11. CASE WalkEnds(c)
    <3>1. /\ UNCHANGED <<present, mark, seen>> /\ pc[c] \in {"listing", "storing"}
          /\ op[c].does \in {"query", "create"}
      BY <1>1, <2>0, <2>11 DEF WalkEnds, Placed, Walking
    <3>2. CASE Return(c, pc[c], acc[c])
      BY <1>0, <1>1, <3>1, <3>2, PlacedReturns
    <3>3. CASE /\ Kind(c) \notin MachineKinds /\ Goto(c, pc[c], "storeWrite")
               /\ UNCHANGED <<op, todo, rest, acc, doomed, answer, overtaken>>
      <4>1. pc'[c] = "storeWrite"
        BY <1>0, <3>3 DEF Goto, LocalType
      <4>2. Kind(c) \in CachedKinds \ {"datacenter"}
        <5>1. Kind(c) \in Kinds
          BY <1>1, <3>1, KindIs DEF Walking
        <5>. QED
          BY <1>1, <3>1, <3>3, <5>1 DEF Placed, Kinds, CachedKinds
      <4>. QED
        BY <1>1, <3>1, <3>3, <4>1, <4>2 DEF Placed, Walking, Reading, Kind, Query, Keeping
    <3>. QED
      BY <2>11, <3>2, <3>3 DEF WalkEnds
  <2>23. CASE StoreWalk(c)
    <3>1. /\ UNCHANGED <<present, mark, seen>> /\ pc[c] = "storeWrite"
          /\ op[c].does \in {"query", "create"}
      BY <1>1, <2>0, <2>23 DEF StoreWalk, Placed, Walking
    <3>. QED
      BY <1>0, <1>1, <2>23, <3>1, PlacedReturns DEF StoreWalk
  <2>12. ASSUME NEW ok \in BOOLEAN, GetPolicies(c, ok) PROVE Placed(c)'
    <3>1. /\ UNCHANGED <<present, mark, seen>> /\ pc[c] = "policies"
          /\ op[c].does \in {"query", "create"}
      BY <1>1, <2>0, <2>12 DEF GetPolicies, Placed, Walking
    <3>2. CASE Return(c, "policies", {})
      BY <1>0, <1>1, <3>1, <3>2, PlacedReturns
    <3>3. CASE /\ Goto(c, "policies", "storing")
               /\ acc' = [acc EXCEPT ![c] = Whole("policy", present)]
               /\ UNCHANGED <<op, todo, rest, doomed, answer, overtaken>>
      <4>1. pc'[c] = "storing" /\ acc'[c] = Whole("policy", present)
        BY <1>0, <3>3 DEF Goto, LocalType
      <4>2. \A i \in acc'[c] : i.dc = None
        BY <1>0, <4>1, WholeHas, InventoriesAre DEF WorldType
      <4>3. None \notin rest[c]
        BY <1>0, InventoryAssumption DEF LocalType
      <4>. QED
        BY <1>1, <3>1, <3>3, <4>1, <4>2, <4>3 DEF Placed, Walking, Reading, Keeping, Kind, Query
    <3>. QED
      BY <2>12, <3>2, <3>3 DEF GetPolicies
  <2>13. CASE CleanKeys(c)
    <3>1. /\ UNCHANGED <<present, mark, seen, op, rest, acc, doomed>> /\ pc[c] = "cleaning"
          /\ pc'[c] \in {"cleaning", "done"} /\ op[c].does = "clean"
      BY <1>0, <2>0, <2>13 DEF CleanKeys, CleanNext, CleanEnds, Goto, LocalType, history
    <3>2. Elements(todo'[c]) \subseteq Elements(todo[c])
      <4>1. todo'[c] = todo[c] \/ (todo[c] # << >> /\ todo'[c] = Tail(todo[c]))
        BY <1>0, <2>13 DEF CleanKeys, CleanNext, CleanEnds, LocalType
      <4>2. todo[c] # << >> => Elements(Tail(todo[c])) \subseteq Elements(todo[c])
        BY <1>0, TailIsPart DEF LocalType
      <4>. QED
        BY <4>1, <4>2
    <3>. QED
      BY <1>1, <3>1, <3>2 DEF Placed, Walking, Reading, Keeping
  <2>14. CASE CleanAll(c)
    <3>1. /\ UNCHANGED <<present, seen, op, todo, rest, acc>> /\ pc[c] = "cleaning"
          /\ pc'[c] = "deleting" /\ op[c].does \in {"cleanAll", "create"}
          /\ mark'[c] = {present} /\ doomed'[c] = DOMAIN cache \ {TickerKey}
      BY <1>0, <2>0, <2>14 DEF CleanAll, Goto, LocalType, HistoryType
    <3>. QED
      BY <1>1, <3>1 DEF Placed, Walking, Reading, Keeping
  <2>15. CASE DeleteNext(c)
    <3>1. /\ UNCHANGED <<present, mark, seen, pc, op, rest, acc, todo>> /\ pc[c] = "deleting"
          /\ doomed'[c] \subseteq doomed[c]
      BY <1>0, <2>0, <2>15 DEF DeleteNext, LocalType
    <3>. QED
      BY <1>1, <3>1 DEF Placed, Walking, Reading, Keeping, Kind, Query
  <2>24. CASE AllDeleted(c)
    <3>1. /\ UNCHANGED <<present, seen, op, mark, rest, acc, doomed>> /\ pc[c] = "deleting"
          /\ pc'[c] = (IF op[c].does = "create" THEN "filling" ELSE "done")
          /\ todo'[c] = (IF op[c].does = "create" THEN FillKinds ELSE << >>)
      BY <1>0, <2>0, <2>24 DEF AllDeleted, Goto, LocalType, HistoryType
    <3>. QED
      BY <1>1, <3>1 DEF Placed, Walking, Reading, Keeping
  <2>16. CASE MakeTicker(c)
    <3>1. /\ UNCHANGED <<present, seen, op, mark, rest, acc, todo, doomed>> /\ pc[c] = "ticker"
          /\ pc'[c] \in {"tickerMade", "done"}
      BY <1>0, <2>0, <2>16 DEF MakeTicker, Goto, LocalType, history
    <3>. QED
      BY <1>1, <3>1 DEF Placed, Walking, Reading, Keeping
  <2>17. CASE KeepTicker(c) \/ StoreTicker(c)
    <3>1. /\ UNCHANGED <<present, seen, op, mark, rest, acc, todo, doomed>>
          /\ pc[c] \in Keeping /\ pc'[c] \in {"tickerWrite", "done"}
      BY <1>0, <2>0, <2>17 DEF KeepTicker, StoreTicker, Goto, LocalType, history, Keeping
    <3>. QED
      BY <1>1, <3>1 DEF Placed, Walking, Reading, Keeping
  <2>. QED
    BY <1>2, <2>4, <2>5, <2>6, <2>7, <2>8, <2>9, <2>10, <2>11, <2>12, <2>13, <2>14, <2>15,
       <2>16, <2>17, <2>18, <2>19, <2>22, <2>23, <2>24 DEF Step
<1>3. CASE Change
  <2>1. PICK w \in Inventories :
          /\ present' = w
          /\ since' = [k \in CachedKinds |-> since[k] \cup {w}]
          /\ mark' = [c \in Calls |-> IF mark[c] = {} THEN {} ELSE mark[c] \cup {w}]
          /\ seen' = [c \in Calls |-> IF seen[c] = {} THEN {} ELSE seen[c] \cup {w}]
    BY <1>3 DEF Change
  <2>2. UNCHANGED <<pc, op, todo, rest, acc, doomed, overtaken, disturbed>>
    BY <1>3 DEF Change, local
  <2>3. ASSUME NEW c \in Calls PROVE Placed(c)'
    BY <1>1, <2>1, <2>2 DEF Placed, Kind, Query
  <2>. QED
    BY <2>1, <2>2, <2>3 DEF PlacesInv
<1>4. CASE UNCHANGED vars
  <2>1. UNCHANGED <<present, pc, op, todo, rest, acc, doomed, since, mark, seen, overtaken,
                    disturbed>>
    BY <1>4 DEF vars, vcenter, local, history
  <2>2. ASSUME NEW c \in Calls PROVE Placed(c)'
    BY <1>1, <2>1 DEF Placed, Kind, Query
  <2>. QED
    BY <2>1, <2>2 DEF PlacesInv
<1>. QED
  BY <1>2, <1>3, <1>4 DEF Next, Quiet

-----------------------------------------------------------------------------
(* What a step does to the cache.                                          *)

LEMMA StoreKeeps ==
  ASSUME NEW c, NEW key, NEW list, Store(c, key, list)
  PROVE  /\ \A x : x \in DOMAIN cache' <=> x \in DOMAIN cache \/ x = key
         /\ \A x \in DOMAIN cache' : cache'[x] = IF x = key THEN list ELSE cache[x]
         /\ \A x : x # key => (x \in late' <=> x \in late)
         /\ key \in late' <=> c \in overtaken \/ key \in late
  BY DEF Store

LEMMA DeleteKeeps ==
  ASSUME NEW key, Delete(key)
  PROVE  /\ \A x : x \in DOMAIN cache' <=> x \in DOMAIN cache /\ x # key
         /\ \A x \in DOMAIN cache' : cache'[x] = cache[x]
         /\ \A x : x \in late' <=> x \in late /\ x # key
  BY DEF Delete

\* A step either leaves the cache, or deletes a key, or stores one; no step but the
\* receipt of a request changes what a call does.
CacheGoes(c) ==
    /\ UNCHANGED <<cache, late>> \/ CleanKeys(c) \/ DeleteNext(c) \/ StoreDatacenters(c)
         \/ StoreWalk(c) \/ StoreTicker(c)
    /\ Receive(c) \/ op' = op

LEMMA CacheStepIs == ASSUME NEW c \in Calls, Receive(c) \/ Step(c) PROVE CacheGoes(c)
<1> USE DEF CacheGoes
<1>1. \A from, list : Return(c, from, list) => op' = op
  BY DEF Return
<1> HIDE DEF Return
<1>2. CASE Receive(c)
  BY <1>2 DEF Receive
<1>3. CASE LookInCache(c)
  BY <1>1, <1>3 DEF LookInCache
<1>4. ASSUME NEW ok \in BOOLEAN, AskVCenter(c, ok) \/ FetchNext(c, ok) PROVE CacheGoes(c)
  BY <1>4 DEF AskVCenter, FetchNext, Conclusion
<1>17. CASE FetchEnds(c)
  BY <1>17 DEF FetchEnds, Conclusion
<1>5. CASE FillNext(c)
  BY <1>1, <1>5 DEF FillNext
<1>6. ASSUME NEW ok \in BOOLEAN, GetDatacenters(c, ok) PROVE CacheGoes(c)
  BY <1>1, <1>6 DEF GetDatacenters
<1>7. CASE KeepDatacenters(c) \/ StoreDatacenters(c)
  BY <1>1, <1>7 DEF KeepDatacenters, StoreDatacenters, WalkDatacenters
<1>8. ASSUME NEW ok \in BOOLEAN, ListNext(c, ok) PROVE CacheGoes(c)
  BY <1>8 DEF ListNext
<1>9. CASE WalkEnds(c) \/ StoreWalk(c)
  BY <1>1, <1>9 DEF WalkEnds, StoreWalk
<1>10. ASSUME NEW ok \in BOOLEAN, GetPolicies(c, ok) PROVE CacheGoes(c)
  BY <1>1, <1>10 DEF GetPolicies
<1>11. CASE CleanKeys(c)
  BY <1>11 DEF CleanKeys, CleanNext, CleanEnds
<1>12. CASE CleanAll(c)
  BY <1>12 DEF CleanAll
<1>13. CASE DeleteNext(c) \/ AllDeleted(c)
  BY <1>13 DEF DeleteNext, AllDeleted
<1>14. CASE MakeTicker(c)
  BY <1>14 DEF MakeTicker, history
<1>15. CASE KeepTicker(c) \/ StoreTicker(c)
  BY <1>15 DEF KeepTicker, StoreTicker, history
<1> HIDE DEF CacheGoes
<1>. QED
  BY <1>2, <1>3, <1>4, <1>5, <1>6, <1>7, <1>8, <1>9, <1>10, <1>11, <1>12, <1>13, <1>14, <1>15,
     <1>17 DEF Step

\* A clean deletes its next key, or ends.
LEMMA CleanIs ==
  ASSUME NEW c, CleanKeys(c)
  PROVE  \/ UNCHANGED <<cache, late, since, overtaken, disturbed, tickers, kept, raced>>
         \/ /\ todo[c] # << >> /\ Delete(Single(Head(todo[c])))
            /\ Cleaned({Head(todo[c])}, {present}) /\ Overtake(c)
            /\ UNCHANGED <<tickers, kept, raced>>
  BY DEF CleanKeys, CleanNext, CleanEnds, history, ticking

\* What a clean need not reach only grows.
LEMMA UnfeltGrows ==
  ASSUME TypeOK, PlacesInv, [Next]_vars PROVE Unfelt \subseteq Unfelt'
<1>1. ASSUME NEW c \in Calls, Receive(c) \/ Step(c)
      PROVE  \A g \in Calls : Elements(op[g].keys) \subseteq Elements(op'[g].keys)
  <2>1. CASE op' = op
    BY <2>1
  <2>2. CASE Receive(c)
    <3>1. op[c].does = "none" /\ op[c] \in OpSet
      BY <2>2, TypeParts DEF Receive, PlacesInv, Placed, LocalType
    <3>2. Elements(op[c].keys) = {}
      <4>1. op[c].keys = << >>
        BY <3>1, OpsAre
      <4>. QED
        BY <4>1 DEF Elements
    <3>3. \A g \in Calls \ {c} : op'[g] = op[g]
      BY <2>2, OthersStay DEF SameCall
    <3>. QED
      BY <3>2, <3>3
  <2>. QED
    BY <1>1, <2>1, <2>2, CacheStepIs DEF CacheGoes
<1>2. CASE Change \/ UNCHANGED vars
  BY <1>2 DEF Change, vars, local, Unfelt
<1>. QED
  BY <1>1, <1>2 DEF Next, Quiet, Unfelt

-----------------------------------------------------------------------------
(* The lists of datacenters.                                               *)

LEMMA WholeAre ==
  ASSUME NEW w \in Inventories PROVE AreDatacenters(Ids(Whole("datacenter", w)))
<1>1. Ids(Whole("datacenter", w)) = {o \in w : Type[o] = "datacenter"}
  BY WholeHas, InventoriesAre
<1>. QED
  BY <1>1 DEF AreDatacenters

LEMMA DatacentersInit == ASSUME Init PROVE DatacentersInv
<1>1. \A c \in Calls : pc[c] = "idle"
  BY DEF Init
<1>2. DatacenterKey \in DOMAIN cache => AreDatacenters(Ids(cache[DatacenterKey]))
  <2>1. CASE cache = Empty
    BY <2>1 DEF Empty, Warm
  <2>2. ASSUME NEW ks \in SUBSET CachedKinds, cache = Warm(ks, present)
        PROVE  DatacenterKey \in DOMAIN cache => AreDatacenters(Ids(cache[DatacenterKey]))
    <3>1. /\ present \in Inventories /\ DatacenterKey = SetKey("datacenter")
          /\ "datacenter" \in CachedKinds
      BY DEF Init, SetKey, Shared, CachedKinds
    <3>2. DatacenterKey \in DOMAIN cache => "datacenter" \in ks
      <4>1. DOMAIN cache = {SetKey(k) : k \in ks}
        BY <2>2, <3>1, WarmIs
      <4>. QED
        BY <3>1, <4>1, KeysApart
    <3>3. "datacenter" \in ks => cache[DatacenterKey] = Whole("datacenter", present)
      BY <2>2, <3>1, WarmIs DEF Walked
    <3>. QED
      BY <3>1, <3>2, <3>3, WholeAre
  <2>. QED
    BY <2>1, <2>2, CacheAssumption DEF Init
<1>. QED
  BY <1>1, <1>2 DEF DatacentersInv

LEMMA DatacentersStep ==
  ASSUME TypeOK, PlacesInv, DatacentersInv, [Next]_vars PROVE DatacentersInv'
<1>0. WorldType /\ LocalType /\ HistoryType
  BY TypeParts
<1>1. DatacenterKey = SetKey("datacenter") /\ "datacenter" \in CachedKinds
  BY DEF SetKey, Shared, CachedKinds
<1>2. ASSUME NEW c \in Calls, Receive(c) \/ Step(c) PROVE DatacentersInv'
  <2>1. DatacenterKey \in DOMAIN cache' => AreDatacenters(Ids(cache'[DatacenterKey]))
    <3>1. CASE UNCHANGED <<cache, late>>
      BY <3>1 DEF DatacentersInv
    <3>2. CASE CleanKeys(c)
      BY <3>2, DeleteKeeps, CleanIs DEF DatacentersInv
    <3>3. CASE DeleteNext(c)
      BY <3>3, DeleteKeeps DEF DatacentersInv, DeleteNext
    <3>4. CASE StoreTicker(c)
      <4>1. TickerKey # DatacenterKey /\ Store(c, TickerKey, {})
        BY <1>1, <3>4, KeysApart DEF StoreTicker
      <4>. QED
        BY <4>1, StoreKeeps DEF DatacentersInv
    <3>5. CASE StoreDatacenters(c)
      <4>1. AreDatacenters(Ids(acc[c])) /\ Store(c, DatacenterKey, acc[c])
        BY <3>5 DEF StoreDatacenters, DatacentersInv
      <4>. QED
        BY <4>1, StoreKeeps
    <3>6. CASE StoreWalk(c)
      <4>1. Kind(c) \in CachedKinds \ {"datacenter"}
        BY <3>6 DEF StoreWalk, PlacesInv, Placed
      <4>2. SetKey(Kind(c)) # DatacenterKey /\ Store(c, SetKey(Kind(c)), acc[c])
        BY <1>1, <3>6, <4>1, KeysApart DEF StoreWalk
      <4>. QED
        BY <4>2, StoreKeeps DEF DatacentersInv
    <3>. QED
      BY <1>2, <3>1, <3>2, <3>3, <3>4, <3>5, <3>6, CacheStepIs DEF CacheGoes
  <2>2. /\ pc'[c] \in {"keeping", "keepWrite"} => AreDatacenters(Ids(acc'[c]))
        /\ pc'[c] = "listing" => \A d \in rest'[c] : Type[d] = "datacenter"
    <3> DEFINE Elsewhere == pc'[c] \notin {"keeping", "keepWrite", "listing"}
    <3>0. \A from, list : Return(c, from, list) => Elsewhere
      BY <1>0 DEF Return, Goto, LocalType
    <3>1. \A from, to : Goto(c, from, to) => pc[c] = from /\ pc'[c] = to
      BY <1>0 DEF Goto, LocalType
    <3> HIDE DEF Return, Goto
    <3>3. CASE Receive(c)
      <4>1. PICK o : pc' = [pc EXCEPT ![c] = IF o.does = "query" THEN "looking" ELSE "cleaning"]
        BY <3>3 DEF Receive
      <4>. QED
        BY <1>0, <4>1 DEF LocalType
    <3>4. CASE LookInCache(c)
      <4>1. \/ \E l : Return(c, "looking", l)
            \/ \E t \in {"fetching", "asking", "policies", "datacenters"} : Goto(c, "looking", t)
        BY <3>4 DEF LookInCache
      <4>. QED
        BY <3>0, <3>1, <4>1
    <3>5. ASSUME NEW ok \in BOOLEAN, AskVCenter(c, ok) PROVE Elsewhere
      BY <3>1, <3>5 DEF AskVCenter, Conclusion
    <3>17. ASSUME NEW ok \in BOOLEAN, FetchNext(c, ok) PROVE Elsewhere
      BY <3>17 DEF FetchNext
    <3>18. CASE FetchEnds(c)
      BY <3>1, <3>18 DEF FetchEnds, Conclusion
    <3>6. CASE FillNext(c)
      BY <3>0, <3>1, <3>6 DEF FillNext
    <3>7. ASSUME NEW ok \in BOOLEAN, GetDatacenters(c, ok)
          PROVE  /\ pc'[c] \in {"keeping", "keepWrite"} => AreDatacenters(Ids(acc'[c]))
                 /\ pc'[c] = "listing" => \A d \in rest'[c] : Type[d] = "datacenter"
      <4>1. CASE \E l : Return(c, "datacenters", l)
        BY <3>0, <4>1
      <4>2. CASE /\ Get("datacenter") # {} /\ Goto(c, "datacenters", "listing")
                 /\ rest' = [rest EXCEPT ![c] = Ids(Get("datacenter"))]
        <5>1. rest'[c] = Ids(Get("datacenter")) /\ pc'[c] = "listing"
          BY <1>0, <3>1, <4>2 DEF LocalType
        <5>2. Get("datacenter") = cache[DatacenterKey] /\ DatacenterKey \in DOMAIN cache
          BY <1>1, <4>2, GetIsSet DEF Get
        <5>. QED
          BY <5>1, <5>2 DEF DatacentersInv, AreDatacenters
      <4>3. CASE /\ Goto(c, "datacenters", "keeping")
                 /\ acc' = [acc EXCEPT ![c] = Whole("datacenter", present)]
        <5>1. /\ acc'[c] = Whole("datacenter", present) /\ present \in Inventories
              /\ pc'[c] = "keeping"
          BY <1>0, <3>1, <4>3 DEF LocalType, WorldType
        <5>. QED
          BY <5>1, WholeAre
      <4>4. CASE Goto(c, "datacenters", "storing")
        BY <3>1, <4>4
      <4>. QED
        BY <3>7, <4>1, <4>2, <4>3, <4>4 DEF GetDatacenters
    <3>19. ASSUME NEW from \in {"keeping", "keepWrite"}, pc[c] = from, WalkDatacenters(c, from)
           PROVE  /\ pc'[c] \notin {"keeping", "keepWrite"}
                  /\ pc'[c] = "listing" => \A d \in rest'[c] : Type[d] = "datacenter"
      <4>1. CASE Return(c, from, acc[c])
        BY <3>0, <4>1
      <4>2. CASE Goto(c, from, "listing") /\ rest' = [rest EXCEPT ![c] = Ids(acc[c])]
        <5>1. rest'[c] = Ids(acc[c]) /\ pc'[c] = "listing"
          BY <1>0, <3>1, <4>2 DEF LocalType
        <5>. QED
          BY <3>19, <5>1 DEF DatacentersInv, AreDatacenters
      <4>. QED
        BY <3>19, <4>1, <4>2 DEF WalkDatacenters
    <3>8. CASE KeepDatacenters(c)
      <4>1. CASE Goto(c, "keeping", "keepWrite") /\ acc' = acc
        BY <3>1, <4>1 DEF DatacentersInv
      <4>. QED
        BY <3>8, <3>19, <4>1 DEF KeepDatacenters
    <3>20. CASE StoreDatacenters(c)
      BY <3>19, <3>20 DEF StoreDatacenters
    <3>9. ASSUME NEW ok \in BOOLEAN, ListNext(c, ok)
          PROVE  /\ pc'[c] = "listing"
                 /\ \A d \in rest'[c] : Type[d] = "datacenter"
      BY <1>0, <3>9 DEF ListNext, LocalType, DatacentersInv
    <3>10. CASE WalkEnds(c) \/ StoreWalk(c)
      BY <3>0, <3>1, <3>10 DEF WalkEnds, StoreWalk
    <3>11. ASSUME NEW ok \in BOOLEAN, GetPolicies(c, ok) PROVE Elsewhere
      BY <3>0, <3>1, <3>11 DEF GetPolicies
    <3>12. CASE CleanKeys(c)
      BY <3>1, <3>12 DEF CleanKeys, CleanNext, CleanEnds
    <3>13. CASE CleanAll(c)
      BY <3>1, <3>13 DEF CleanAll
    <3>14. CASE DeleteNext(c) \/ AllDeleted(c)
      BY <3>1, <3>14 DEF DeleteNext, AllDeleted
    <3>15. CASE MakeTicker(c)
      BY <3>1, <3>15 DEF MakeTicker
    <3>16. CASE KeepTicker(c) \/ StoreTicker(c)
      BY <3>1, <3>16 DEF KeepTicker, StoreTicker
    <3>. QED
      BY <1>2, <3>3, <3>4, <3>5, <3>6, <3>7, <3>8, <3>9, <3>10, <3>11, <3>12, <3>13, <3>14,
         <3>15, <3>16, <3>17, <3>18, <3>20 DEF Step
  <2>3. \A g \in Calls \ {c} :
          /\ pc'[g] \in {"keeping", "keepWrite"} => AreDatacenters(Ids(acc'[g]))
          /\ pc'[g] = "listing" => \A d \in rest'[g] : Type[d] = "datacenter"
    BY <1>2, OthersStay DEF SameCall, DatacentersInv
  <2>. QED
    BY <2>1, <2>2, <2>3 DEF DatacentersInv
<1>3. CASE Change \/ UNCHANGED vars
  BY <1>3 DEF Change, vars, local, DatacentersInv
<1>. QED
  BY <1>2, <1>3 DEF Next, Quiet

-----------------------------------------------------------------------------
(* What is read and what is cached is explained.                           *)

\* Sure, as of the next state.
SureNext(k, list, left, worlds) ==
    /\ Explained(k, list, worlds)
    /\ failures' = 0 => Complete(k, list, left, worlds)

\* What was explained stays so when inventories are added.
LEMMA SureGrows ==
  ASSUME NEW k, NEW list, NEW left, NEW W, NEW V, W \subseteq V, Sure(k, list, left, W),
         failures' = 0 => failures = 0
  PROVE  SureNext(k, list, left, V)
<1>1. Explained(k, list, V)
  BY DEF Sure, Explained
<1>2. \A o \in Steady(k, V) : o \in Steady(k, W)
  BY DEF Steady
<1>3. failures' = 0 => Complete(k, list, left, V)
  BY <1>2 DEF Sure, Complete
<1>. QED
  BY <1>1, <1>3 DEF SureNext

\* A list that was made at once.
LEMMA WholeIsSure ==
  ASSUME NEW k \in {"datacenter", "policy"}, NEW w \in Inventories, NEW left,
         NEW W \in SUBSET Inventories, w \in W
  PROVE  SureNext(k, Whole(k, w), left, W)
<1>1. Ids(Whole(k, w)) = {o \in w : Type[o] = k}
  BY WholeHas, InventoriesAre
<1>2. Complete(k, Whole(k, w), left, W)
  BY <1>1 DEF Complete, Steady
<1>. QED
  BY <1>2 DEF SureNext, Explained

\* Nothing is missing from the empty list while no datacenter has been visited.
LEMMA NoneIsSure ==
  ASSUME NEW k \in WalkedKinds, NEW ids, AreDatacenters(ids), NEW W
  PROVE  SureNext(k, {}, ids, W)
<1>1. Explained(k, {}, W)
  BY DEF Explained, WalkedKinds
<1>2. ASSUME NEW o \in Steady(k, W) PROVE Above[o] \cap ids # {}
  <2>1. o \in Objects /\ Type[o] = k /\ Lasting(o)
    BY <1>2 DEF Steady
  <2>2. PICK d \in Objects : Type[d] = "datacenter" /\ d \in Above[o]
    BY <2>1, TopologyAssumption DEF WalkedKinds
  <2>3. d \in ids
    BY <2>1, <2>2 DEF Lasting, AreDatacenters
  <2>. QED
    BY <2>2, <2>3
<1>3. Complete(k, {}, ids, W)
  BY <1>2 DEF Complete
<1>. QED
  BY <1>1, <1>3 DEF SureNext

\* A turn of the walk adds what is in one datacenter.
LEMMA TurnIsSure ==
  ASSUME NEW k \in WalkedKinds, NEW list \in SUBSET Entries, NEW left \in SUBSET Objects,
         NEW w \in Inventories, NEW W \in SUBSET Inventories, w \in W, NEW d \in left,
         Type[d] = "datacenter", \A i \in list : i.dc \notin left,
         Sure(k, list, left, W), failures' = 0 => failures = 0
  PROVE  SureNext(k, list \cup Listed(k, d, w), left \ {d}, W)
<1>0. /\ \A i \in Listed(k, d, w) : i.dc = d
      /\ \A o \in w : Type[o] = k /\ d \in Above[o] => o \in Ids(Listed(k, d, w))
  BY ListedHas, InventoriesAre
<1> DEFINE all == list \cup Listed(k, d, w)
<1>1. Explained(k, all, W)
  <2>1. \A i \in list : i.dc # d
    OBVIOUS
  <2>2. {e \in all : e.dc = d} = Listed(k, d, w)
    BY <1>0, <2>1
  <2>3. \A x : x # d => {e \in all : e.dc = x} = {e \in list : e.dc = x}
    BY <1>0
  <2>4. \A i \in list : /\ Type[i.dc] = "datacenter"
                        /\ \E v \in W : {e \in list : e.dc = i.dc} = Listed(k, i.dc, v)
    BY DEF Sure, Explained, WalkedKinds
  <2>5. ASSUME NEW i \in all
        PROVE  /\ Type[i.dc] = "datacenter"
               /\ \E v \in W : {e \in all : e.dc = i.dc} = Listed(k, i.dc, v)
    <3>1. CASE i.dc = d
      BY <2>2, <3>1
    <3>2. CASE i.dc # d
      <4>1. i \in list /\ {e \in all : e.dc = i.dc} = {e \in list : e.dc = i.dc}
        BY <1>0, <2>3, <2>5, <3>2
      <4>. QED
        BY <2>4, <4>1
    <3>. QED
      BY <3>1, <3>2
  <2> HIDE DEF all
  <2>6. k \notin {"datacenter", "policy"}
    BY DEF WalkedKinds
  <2>. QED
    BY <2>5, <2>6 DEF Explained
<1>2. ASSUME failures' = 0, NEW o \in Steady(k, W), Above[o] \cap (left \ {d}) = {}
      PROVE  o \in Ids(all)
  <2>1. o \in w /\ Type[o] = k
    BY <1>2 DEF Steady
  <2>2. CASE d \in Above[o]
    BY <1>0, <2>1, <2>2 DEF Ids
  <2>3. CASE d \notin Above[o]
    <3>1. Above[o] \cap left = {}
      BY <1>2, <2>3
    <3>2. o \in Ids(list)
      BY <1>2, <3>1 DEF Sure, Complete
    <3>. QED
      BY <3>2 DEF Ids
  <2>. QED
    BY <2>2, <2>3
<1>3. failures' = 0 => Complete(k, all, left \ {d}, W)
  BY <1>2 DEF Complete
<1>. QED
  BY <1>1, <1>3 DEF SureNext

\* ... or nothing, when the call fails.
LEMMA SkipIsSure ==
  ASSUME NEW k, NEW list, NEW left, NEW V, NEW W, Sure(k, list, left, W), failures' # 0
  PROVE  SureNext(k, list, V, W)
  BY DEF Sure, SureNext

\* What is known of the list of kind k that a call has read.
AllSure(k, c) ==
    /\ Sure(k, acc[c], Left(c), seen[c])
    /\ k \in CachedKinds =>
         /\ Sure(k, acc[c], Left(c), since[k])
         /\ \A e \in Calls : pc[e] = "deleting" => Sure(k, acc[c], Left(c), mark[e])

\* It is known after a step, if the list is explained by the present inventory.
LEMMA FreshIsSure ==
  ASSUME TypeOK, PlacesInv, NEW c \in Calls, Step(c), NEW k, since' = since, mark' = mark,
         seen' = seen, pc'[c] # "deleting",
         \A W \in SUBSET Inventories : present \in W /\
            (\/ W = seen[c]
             \/ k \in CachedKinds /\ W = since[k]
             \/ k \in CachedKinds /\ \E e \in Calls : pc[e] = "deleting" /\ W = mark[e])
            => SureNext(k, acc'[c], Left(c)', W),
         pc[c] # "idle"
  PROVE  AllSure(k, c)'
<1>0. /\ \A e \in Calls : mark[e] \in SUBSET Inventories /\ seen[e] \in SUBSET Inventories
      /\ \A l \in CachedKinds : since[l] \in SUBSET Inventories
  BY TypeParts DEF HistoryType
<1>1. /\ present \in seen[c] /\ \A l \in CachedKinds : present \in since[l]
      /\ \A e \in Calls : pc[e] = "deleting" => present \in mark[e]
  BY DEF PlacesInv, Placed
<1>2. \A e \in Calls : pc'[e] = "deleting" => pc[e] = "deleting"
  BY OthersStay DEF SameCall
<1>3. SureNext(k, acc'[c], Left(c)', seen'[c])
  BY <1>0, <1>1
<1>4. k \in CachedKinds => SureNext(k, acc'[c], Left(c)', since'[k])
  BY <1>0, <1>1
<1>5. k \in CachedKinds => \A e \in Calls : pc'[e] = "deleting" =>
                             SureNext(k, acc'[c], Left(c)', mark'[e])
  BY <1>0, <1>1, <1>2
<1>. QED
  BY <1>3, <1>4, <1>5 DEF AllSure, Sure, SureNext

\* By which steps a call comes to delete, to have read a list, and to the ticker.
PcGoes(c) ==
    /\ pc'[c] = "deleting" => CleanAll(c) \/ DeleteNext(c)
    /\ pc'[c] \in Reading => \/ \E ok \in BOOLEAN : \/ GetDatacenters(c, ok) \/ ListNext(c, ok)
                                                   \/ GetPolicies(c, ok)
                             \/ KeepDatacenters(c) \/ StoreDatacenters(c) \/ WalkEnds(c)
    /\ pc'[c] = "fetching" => LookInCache(c) \/ \E ok \in BOOLEAN : FetchNext(c, ok)
    /\ pc[c] \in Keeping => KeepTicker(c) \/ StoreTicker(c)
    /\ pc'[c] \in Keeping => MakeTicker(c) \/ KeepTicker(c)

LEMMA PcStepIs ==
  ASSUME TypeOK, PlacesInv, NEW c \in Calls, Receive(c) \/ Step(c) PROVE PcGoes(c)
<1>0. LocalType
  BY TypeParts
<1>1. \A from, list : Return(c, from, list) =>
        pc[c] = from /\ pc'[c] \in {"done", "filling"}
  BY <1>0 DEF Return, Goto, LocalType
<1>2. \A from, to : Goto(c, from, to) => pc[c] = from /\ pc'[c] = to
  BY <1>0 DEF Goto, LocalType
<1> HIDE DEF Return, Goto
<1> USE DEF PcGoes, Reading, Keeping
<1>3. CASE Receive(c)
  <2>1. PICK o : pc' = [pc EXCEPT ![c] = IF o.does = "query" THEN "looking" ELSE "cleaning"]
    BY <1>3 DEF Receive
  <2>2. pc'[c] \in {"looking", "cleaning"} /\ pc[c] = "idle"
    BY <1>0, <1>3, <2>1 DEF LocalType, Receive
  <2>. QED
    BY <2>2 DEF Reading
<1>4. CASE LookInCache(c)
  <2>1. \/ \E l : Return(c, "looking", l)
        \/ \E t \in {"fetching", "asking", "policies", "datacenters"} : Goto(c, "looking", t)
    BY <1>4 DEF LookInCache
  <2>2. pc[c] = "looking" /\ pc'[c] \in {"done", "filling", "fetching", "asking", "policies",
                                        "datacenters"}
    BY <1>1, <1>2, <2>1
  <2>. QED
    BY <1>4, <2>2
<1>5. ASSUME NEW ok \in BOOLEAN, AskVCenter(c, ok) PROVE PcGoes(c)
  <2>1. pc[c] = "asking" /\ pc'[c] \in {"panicked", "done"}
    BY <1>2, <1>5 DEF AskVCenter, Conclusion
  <2>. QED
    BY <2>1
<1>17. ASSUME NEW ok \in BOOLEAN, FetchNext(c, ok) PROVE PcGoes(c)
  BY <1>17 DEF FetchNext
<1>18. CASE FetchEnds(c)
  <2>1. pc[c] = "fetching" /\ pc'[c] \in {"panicked", "done"}
    BY <1>2, <1>18 DEF FetchEnds, Conclusion
  <2>. QED
    BY <2>1
<1>6. CASE FillNext(c)
  <2>1. pc[c] = "filling" /\ pc'[c] \in {"done", "filling", "ticker", "policies", "datacenters"}
    BY <1>1, <1>2, <1>6 DEF FillNext
  <2>. QED
    BY <2>1
<1>7. ASSUME NEW ok \in BOOLEAN, GetDatacenters(c, ok) PROVE PcGoes(c)
  <2>1. pc[c] = "datacenters" /\ pc'[c] \in {"done", "filling", "listing", "keeping", "storing"}
    BY <1>1, <1>2, <1>7 DEF GetDatacenters
  <2>. QED
    BY <1>7, <2>1
<1>8. CASE KeepDatacenters(c) \/ StoreDatacenters(c)
  <2>1. /\ pc[c] \in {"keeping", "keepWrite"}
        /\ pc'[c] \in {"done", "filling", "listing", "keepWrite"}
    BY <1>1, <1>2, <1>8 DEF KeepDatacenters, StoreDatacenters, WalkDatacenters
  <2>. QED
    BY <1>8, <2>1
<1>9. ASSUME NEW ok \in BOOLEAN, ListNext(c, ok) PROVE PcGoes(c)
  BY <1>9 DEF ListNext
<1>10. CASE WalkEnds(c) \/ StoreWalk(c)
  <2>1. /\ pc[c] \in {"listing", "storing", "storeWrite"}
        /\ \/ pc'[c] \in {"done", "filling"}
           \/ pc'[c] = "storeWrite" /\ WalkEnds(c)
    BY <1>1, <1>2, <1>10 DEF WalkEnds, StoreWalk
  <2>. QED
    BY <2>1
<1>11. ASSUME NEW ok \in BOOLEAN, GetPolicies(c, ok) PROVE PcGoes(c)
  <2>1. pc[c] = "policies" /\ pc'[c] \in {"done", "filling", "storing"}
    BY <1>1, <1>2, <1>11 DEF GetPolicies
  <2>. QED
    BY <1>11, <2>1
<1>12. CASE CleanKeys(c)
  <2>1. pc[c] = "cleaning" /\ pc'[c] \in {"cleaning", "done"}
    BY <1>2, <1>12 DEF CleanKeys, CleanNext, CleanEnds
  <2>. QED
    BY <2>1
<1>13. CASE CleanAll(c)
  <2>1. pc[c] = "cleaning" /\ pc'[c] = "deleting"
    BY <1>2, <1>13 DEF CleanAll
  <2>. QED
    BY <1>13, <2>1
<1>14. CASE DeleteNext(c) \/ AllDeleted(c)
  <2>1. /\ pc[c] = "deleting"
        /\ pc'[c] \in {"filling", "done"} \/ (pc'[c] = "deleting" /\ DeleteNext(c))
    BY <1>2, <1>14 DEF DeleteNext, AllDeleted
  <2>. QED
    BY <2>1
<1>15. CASE MakeTicker(c)
  <2>1. pc[c] = "ticker" /\ pc'[c] \in {"tickerMade", "done"}
    BY <1>2, <1>15 DEF MakeTicker
  <2>. QED
    BY <1>15, <2>1
<1>16. CASE KeepTicker(c) \/ StoreTicker(c)
  <2>1. \/ KeepTicker(c) /\ pc[c] = "tickerMade" /\ pc'[c] \in {"tickerWrite", "done"}
        \/ StoreTicker(c) /\ pc[c] = "tickerWrite" /\ pc'[c] = "done"
    BY <1>2, <1>16 DEF KeepTicker, StoreTicker
  <2>. QED
    BY <2>1
<1> HIDE DEF PcGoes
<1>. QED
  BY <1>3, <1>4, <1>5, <1>6, <1>7, <1>8, <1>9, <1>10, <1>11, <1>12, <1>13, <1>14, <1>15, <1>16,
     <1>17, <1>18 DEF Step

LEMMA ReadParts ==
  ReadInv <=> \A c \in Calls \ overtaken :
                 pc[c] \in Reading /\ ReadKind(c) # "osfamily" => AllSure(ReadKind(c), c)
  BY DEF ReadInv, AllSure

LEMMA ReadPartsNext ==
  ReadInv' <=> \A c \in Calls \ overtaken' :
                 pc'[c] \in Reading /\ ReadKind(c)' # "osfamily" => AllSure(ReadKind(c), c)'
  BY DEF ReadInv, AllSure

LEMMA ReadStep ==
  ASSUME TypeOK, PlacesInv, DatacentersInv, ReadInv, [Next]_vars PROVE ReadInv'
<1>0. WorldType /\ LocalType /\ HistoryType
  BY TypeParts
<1>1. ASSUME NEW c \in Calls, Receive(c) \/ Step(c), NEW g \in Calls \ overtaken', g # c,
             pc'[g] \in Reading, ReadKind(g)' # "osfamily"
      PROVE  AllSure(ReadKind(g), g)'
  <2>1. SameCall(g) /\ Goes(c) /\ PcGoes(c)
    BY <1>1, OthersStay, HistoryGoes, PcStepIs
  <2>2. ~CleanAll(c) /\ (since' = since \/ AllDeleted(c)) /\ g \notin overtaken
    <3>1. pc[g] \in Reading
      BY <1>1, <2>1 DEF SameCall
    <3>2. ~Overtake(c)
      BY <1>1, <3>1 DEF Overtake
    <3>3. CASE CleanKeys(c)
      BY <1>0, <1>1, <3>2, <3>3, CleanIs DEF CleanKeys, CleanAll
    <3>4. CASE ~CleanKeys(c)
      BY <1>1, <2>1, <3>2, <3>4 DEF Goes, CleanAll
    <3>. QED
      BY <3>3, <3>4
  <2>4. ReadKind(g)' = ReadKind(g) /\ Left(g)' = Left(g)
    BY <2>1 DEF SameCall, ReadKind, Left, Kind
  <2>5. AllSure(ReadKind(g), g)
    BY <1>1, <2>1, <2>2, <2>4, ReadParts DEF SameCall
  <2> DEFINE k == ReadKind(g)
  <2> HIDE DEF k
  <2>6. failures' = 0 => failures = 0
    BY <2>1 DEF Goes
  <2>7. \A W : Sure(k, acc[g], Left(g), W) => SureNext(k, acc'[g], Left(g)', W)
    BY <2>1, <2>4, <2>6, SureGrows DEF SameCall
  <2>8. SureNext(k, acc'[g], Left(g)', seen'[g])
    BY <2>1, <2>5, <2>7 DEF AllSure, SameCall, k
  <2>9. k \in CachedKinds => SureNext(k, acc'[g], Left(g)', since'[k])
    <3>1. CASE AllDeleted(c)
      <4>1. pc[c] = "deleting" /\ \A l \in CachedKinds : since'[l] = mark[c]
        BY <3>1 DEF AllDeleted, Goto, Cleaned
      <4>. QED
        BY <2>5, <2>7, <4>1 DEF AllSure, k
    <3>2. CASE since' = since
      BY <2>5, <2>7, <3>2 DEF AllSure, k
    <3>. QED
      BY <2>2, <3>1, <3>2
  <2>10. k \in CachedKinds => \A e \in Calls : pc'[e] = "deleting" =>
                                 SureNext(k, acc'[g], Left(g)', mark'[e])
    <3>1. ASSUME NEW e \in Calls, pc'[e] = "deleting"
          PROVE  pc[e] = "deleting" /\ mark'[e] = mark[e]
      <4>1. CASE e = c
        BY <2>1, <2>2, <3>1, <4>1 DEF PcGoes, DeleteNext
      <4>2. CASE e # c
        BY <1>1, <3>1, <4>2, OthersStay DEF SameCall
      <4>. QED
        BY <4>1, <4>2
    <3>. QED
      BY <2>5, <2>7, <3>1 DEF AllSure, k
  <2>. QED
    BY <2>4, <2>8, <2>9, <2>10 DEF AllSure, Sure, SureNext, k
<1>2. ASSUME NEW c \in Calls \ overtaken', Receive(c) \/ Step(c),
             pc'[c] \in Reading, ReadKind(c)' # "osfamily"
      PROVE  AllSure(ReadKind(c), c)'
  <2>0. present \in Inventories /\ Goes(c) /\ PcGoes(c)
    BY <1>0, <1>2, HistoryGoes, PcStepIs DEF WorldType
  <2>1. \A from, list : ~Return(c, from, list)
    <3>1. \A from, list : Return(c, from, list) => pc'[c] \notin Reading
      BY <1>0 DEF Return, Goto, LocalType, Reading
    <3>. QED
      BY <1>2, <3>1
  <2>2. \A from, to : Goto(c, from, to) => pc[c] = from /\ pc'[c] = to
    BY <1>0 DEF Goto, LocalType
  <2>3. failures' = 0 => failures = 0
    BY <2>0 DEF Goes
  <2> HIDE DEF Return, Goto
  <2>4. ASSUME NEW ok \in BOOLEAN, GetDatacenters(c, ok) PROVE AllSure(ReadKind(c), c)'
    <3>1. /\ since' = since /\ mark' = mark /\ seen' = seen /\ pc[c] = "datacenters" /\ Step(c)
          /\ op' = op /\ todo' = todo
      BY <2>1, <2>4 DEF GetDatacenters, Step
    <3>2. CASE /\ Get("datacenter") # {} /\ Kind(c) # "datacenter"
               /\ Goto(c, "datacenters", "listing")
               /\ rest' = [rest EXCEPT ![c] = Ids(Get("datacenter"))] /\ UNCHANGED acc
      <4>0. acc[c] = {}
        BY <3>1 DEF PlacesInv, Placed, Reading
      <4>1. /\ pc'[c] = "listing" /\ rest'[c] = Ids(Get("datacenter")) /\ acc'[c] = {}
            /\ ReadKind(c)' = Kind(c) /\ Left(c)' = Ids(Get("datacenter"))
        BY <1>0, <2>2, <3>1, <3>2, <4>0 DEF LocalType, ReadKind, Left, Kind
      <4>2. AreDatacenters(Ids(Get("datacenter")))
        BY <3>2, GetIsSet DEF Get, DatacentersInv, SetKey, Shared, CachedKinds
      <4>3. Kind(c) \in WalkedKinds
        BY <1>2, <3>1, <3>2, <4>1, KindIs DEF PlacesInv, Placed, Walking, WalkedKinds
      <4>4. PICK k : k = Kind(c)
        OBVIOUS
      <4>5. \A W : SureNext(k, acc'[c], Left(c)', W)
        BY <4>1, <4>2, <4>3, <4>4, NoneIsSure
      <4>6. AllSure(k, c)'
        BY <3>1, <4>1, <4>5, FreshIsSure
      <4>. QED
        BY <4>1, <4>4, <4>6 DEF AllSure
    <3>3. CASE /\ Goto(c, "datacenters", "keeping")
               /\ acc' = [acc EXCEPT ![c] = Whole("datacenter", present)]
      <4>1. /\ pc'[c] = "keeping" /\ acc'[c] = Whole("datacenter", present)
            /\ ReadKind(c)' = "datacenter"
        BY <1>0, <2>2, <3>3 DEF LocalType, ReadKind
      <4>2. \A W \in SUBSET Inventories : present \in W =>
              SureNext("datacenter", acc'[c], Left(c)', W)
        BY <2>0, <4>1, WholeIsSure
      <4>3. AllSure("datacenter", c)'
        BY <3>1, <4>1, <4>2, FreshIsSure
      <4>. QED
        BY <4>1, <4>3 DEF AllSure, ReadKind
    <3>4. CASE Kind(c) = "osfamily" /\ Goto(c, "datacenters", "storing")
      BY <1>2, <2>2, <3>1, <3>4 DEF ReadKind, Kind
    <3>. QED
      BY <2>1, <2>4, <3>2, <3>3, <3>4 DEF GetDatacenters
  <2>8. ASSUME Step(c), UNCHANGED <<acc, since, mark, seen, op, todo>>, c \notin overtaken,
               pc[c] \in Reading, ReadKind(c)' = ReadKind(c), Left(c)' = Left(c)
        PROVE  AllSure(ReadKind(c), c)'
    <3>1. PICK k : k = ReadKind(c)
      OBVIOUS
    <3>2. AllSure(k, c)
      BY <1>2, <2>8, <3>1, ReadParts
    <3>3. \A W : Sure(k, acc[c], Left(c), W) => SureNext(k, acc'[c], Left(c)', W)
      BY <2>3, <2>8, SureGrows
    <3>4. pc'[c] # "deleting" /\ pc[c] # "idle"
      BY <1>2, <2>8 DEF Reading
    <3>5. AllSure(k, c)'
      BY <2>8, <3>2, <3>3, <3>4, FreshIsSure DEF AllSure
    <3>. QED
      BY <2>8, <3>1, <3>5 DEF AllSure
  <2>5. ASSUME NEW from \in {"keeping", "keepWrite"}, Step(c), WalkDatacenters(c, from),
               pc[c] = from, UNCHANGED <<since, mark, seen>>
        PROVE  AllSure(ReadKind(c), c)'
    <3>1. /\ Goto(c, from, "listing") /\ rest' = [rest EXCEPT ![c] = Ids(acc[c])]
          /\ acc' = [acc EXCEPT ![c] = {}] /\ Kind(c) # "datacenter"
          /\ op' = op /\ todo' = todo
      BY <2>1, <2>5 DEF WalkDatacenters
    <3>2. /\ pc'[c] = "listing" /\ acc'[c] = {} /\ Left(c)' = Ids(acc[c])
          /\ ReadKind(c)' = Kind(c)
      BY <1>0, <2>2, <3>1 DEF LocalType, ReadKind, Left, Kind
    <3>3. Kind(c) \in WalkedKinds
      BY <1>2, <2>5, <3>1, <3>2, KindIs DEF PlacesInv, Placed, Walking, WalkedKinds
    <3>4. PICK k : k = Kind(c)
      OBVIOUS
    <3>5. \A W : SureNext(k, acc'[c], Left(c)', W)
      BY <2>5, <3>1, <3>2, <3>3, <3>4, NoneIsSure DEF DatacentersInv
    <3>7. AllSure(k, c)'
      BY <2>5, <3>1, <3>2, <3>5, FreshIsSure
    <3>. QED
      BY <3>2, <3>4, <3>7 DEF AllSure
  <2>9. CASE KeepDatacenters(c)
    <3>1. Step(c) /\ UNCHANGED <<since, mark, seen>> /\ pc[c] = "keeping"
      BY <2>9 DEF Step, KeepDatacenters
    <3>2. CASE /\ Goto(c, "keeping", "keepWrite")
               /\ UNCHANGED <<op, todo, rest, acc, doomed, answer, overtaken>>
      <4>1. pc'[c] = "keepWrite"
        BY <2>2, <3>2
      <4>2. ReadKind(c)' = ReadKind(c) /\ Left(c)' = Left(c) /\ pc[c] \in Reading
        BY <3>1, <4>1 DEF ReadKind, Left, Reading
      <4>. QED
        BY <1>2, <2>8, <3>1, <3>2, <4>2
    <3>. QED
      BY <2>5, <2>9, <3>1, <3>2 DEF KeepDatacenters
  <2>10. CASE StoreDatacenters(c)
    <3>1. Step(c) /\ UNCHANGED <<since, mark, seen>> /\ pc[c] = "keepWrite"
      BY <2>10 DEF Step, StoreDatacenters
    <3>. QED
      BY <2>5, <2>10, <3>1 DEF StoreDatacenters
  <2>11. CASE WalkEnds(c)
    <3>1. /\ Step(c) /\ UNCHANGED <<since, mark, seen>> /\ Goto(c, pc[c], "storeWrite")
          /\ UNCHANGED <<op, todo, rest, acc, doomed, answer, overtaken>>
          /\ (pc[c] = "listing" /\ rest[c] = {}) \/ pc[c] = "storing"
      BY <2>1, <2>11 DEF Step, WalkEnds
    <3>2. pc'[c] = "storeWrite"
      BY <2>2, <3>1
    <3>3. ReadKind(c)' = ReadKind(c) /\ Left(c)' = Left(c) /\ pc[c] \in Reading
      BY <3>1, <3>2 DEF ReadKind, Left, Reading, Kind
    <3>. QED
      BY <1>2, <2>8, <3>1, <3>3
  <2>6. ASSUME NEW ok \in BOOLEAN, ListNext(c, ok) PROVE AllSure(ReadKind(c), c)'
    <3>1. /\ pc[c] = "listing" /\ pc' = pc /\ since' = since /\ mark' = mark /\ seen' = seen
          /\ op' = op /\ todo' = todo /\ overtaken' = overtaken /\ Step(c)
      BY <2>6 DEF ListNext, Step
    <3>2. PICK d \in rest[c] : ListsPart(c, ok, d)
      BY <2>6, TurnListsPart
    <3>10. ReadKind(c)' = Kind(c) /\ Kind(c) # "osfamily"
      BY <1>2, <3>1 DEF ReadKind, Kind
    <3>3. /\ ReadKind(c) = Kind(c) /\ ReadKind(c)' = Kind(c) /\ Left(c) = rest[c]
          /\ Left(c)' = rest[c] \ {d} /\ rest[c] \in SUBSET Objects /\ acc[c] \in SUBSET Entries
          /\ acc'[c] = IF ok THEN acc[c] \cup Listed(Kind(c), d, present) ELSE acc[c]
      BY <1>0, <3>1, <3>2, <3>10 DEF LocalType, ReadKind, Left, ListsPart
    <3>4. Kind(c) \in WalkedKinds
      BY <1>2, <3>1, <3>3, KindIs DEF PlacesInv, Placed, Walking, WalkedKinds
    <3>5. AllSure(Kind(c), c)
      BY <1>2, <3>1, <3>3, ReadParts
    <3>6. /\ Type[d] = "datacenter" /\ \A i \in acc[c] : i.dc \notin rest[c]
      BY <3>1 DEF DatacentersInv, PlacesInv, Placed
    <3>7. \A W \in SUBSET Inventories : present \in W /\ Sure(Kind(c), acc[c], rest[c], W)
             => SureNext(Kind(c), acc'[c], Left(c)', W)
      <4>1. CASE ok
        BY <2>0, <2>3, <3>3, <3>4, <3>6, <4>1, TurnIsSure
      <4>2. CASE ~ok
        <5>1. failures' # 0
          BY <2>0, <2>6, <4>2 DEF ListNext, Outcome, Goes
        <5>. QED
          BY <3>3, <4>2, <5>1, SkipIsSure
      <4>. QED
        BY <4>1, <4>2
    <3>8. PICK k : k = Kind(c)
      OBVIOUS
    <3>9. AllSure(k, c)'
      BY <3>1, <3>3, <3>5, <3>7, <3>8, FreshIsSure DEF AllSure
    <3>. QED
      BY <3>3, <3>8, <3>9 DEF AllSure
  <2>7. ASSUME NEW ok \in BOOLEAN, GetPolicies(c, ok) PROVE AllSure(ReadKind(c), c)'
    <3>1. /\ Goto(c, "policies", "storing")
          /\ acc' = [acc EXCEPT ![c] = Whole("policy", present)] /\ pc[c] = "policies"
          /\ since' = since /\ mark' = mark /\ seen' = seen /\ op' = op /\ todo' = todo
      BY <2>1, <2>2, <2>7 DEF GetPolicies
    <3>2. /\ pc'[c] = "storing" /\ acc'[c] = Whole("policy", present)
          /\ ReadKind(c)' = "policy" /\ Kind(c) = "policy"
      BY <1>0, <2>2, <3>1 DEF LocalType, ReadKind, Kind, PlacesInv, Placed
    <3>3. \A W \in SUBSET Inventories : present \in W =>
            SureNext("policy", acc'[c], Left(c)', W)
      BY <2>0, <3>2, WholeIsSure
    <3>4. Step(c)
      BY <2>7 DEF Step
    <3>5. AllSure("policy", c)'
      BY <3>1, <3>2, <3>3, <3>4, FreshIsSure
    <3>. QED
      BY <3>2, <3>5 DEF AllSure, ReadKind
  <2>. QED
    BY <1>2, <2>0, <2>4, <2>6, <2>7, <2>9, <2>10, <2>11 DEF PcGoes
<1>3. CASE Change
  <2>1. PICK w \in Inventories :
          /\ since' = [k \in CachedKinds |-> since[k] \cup {w}]
          /\ mark' = [c \in Calls |-> IF mark[c] = {} THEN {} ELSE mark[c] \cup {w}]
          /\ seen' = [c \in Calls |-> IF seen[c] = {} THEN {} ELSE seen[c] \cup {w}]
    BY <1>3 DEF Change
  <2>2. /\ UNCHANGED <<pc, op, todo, rest, acc, doomed, overtaken, failures>>
        /\ \A k \in CachedKinds : since[k] \subseteq since'[k]
        /\ \A c \in Calls : mark[c] \subseteq mark'[c] /\ seen[c] \subseteq seen'[c]
    BY <1>3, <2>1 DEF Change, local
  <2>3. ASSUME NEW c \in Calls \ overtaken', pc'[c] \in Reading, ReadKind(c)' # "osfamily"
        PROVE  AllSure(ReadKind(c), c)'
    <3>1. /\ ReadKind(c)' = ReadKind(c) /\ Left(c)' = Left(c) /\ acc'[c] = acc[c]
          /\ AllSure(ReadKind(c), c)
      BY <2>2, <2>3, ReadParts DEF ReadKind, Left, Kind
    <3> DEFINE k == ReadKind(c)
    <3> HIDE DEF k
    <3>2. \A W, V : Sure(k, acc[c], Left(c), W) /\ W \subseteq V =>
                       SureNext(k, acc'[c], Left(c)', V)
      BY <2>2, <3>1, SureGrows
    <3>3. SureNext(k, acc'[c], Left(c)', seen'[c])
      BY <2>2, <3>1, <3>2 DEF AllSure, k
    <3>4. k \in CachedKinds => SureNext(k, acc'[c], Left(c)', since'[k])
      BY <2>2, <3>1, <3>2 DEF AllSure, k
    <3>5. k \in CachedKinds => \A e \in Calls : pc'[e] = "deleting" =>
                                  SureNext(k, acc'[c], Left(c)', mark'[e])
      BY <2>2, <3>1, <3>2 DEF AllSure, k
    <3>. QED
      BY <3>1, <3>3, <3>4, <3>5 DEF AllSure, Sure, SureNext, k
  <2>. QED
    BY <2>3, ReadPartsNext
<1>4. CASE UNCHANGED vars
  <2>1. UNCHANGED <<pc, op, todo, rest, acc, since, mark, seen, overtaken, failures>>
    BY <1>4 DEF vars, vcenter, local, history
  <2>. QED
    BY <2>1 DEF ReadInv, ReadKind, Left, Kind, Sure
<1>. QED
  BY <1>1, <1>2, <1>3, <1>4, ReadPartsNext DEF Next, Quiet

LEMMA ReadInit == ASSUME Init PROVE ReadInv
  BY DEF Init, ReadInv, Reading

LEMMA CacheInit == ASSUME Init PROVE CacheInv
<1>1. present \in Inventories /\ late = {} /\ (\A k \in CachedKinds : since[k] = {present})
        /\ \A c \in Calls : pc[c] # "deleting"
  BY DEF Init
<1>2. CASE cache = Empty
  BY <1>2 DEF CacheInv, Empty, Warm
<1>3. ASSUME NEW ks \in SUBSET CachedKinds, cache = Warm(ks, present)
      PROVE  CacheInv
  <2>1. ASSUME NEW k \in CachedKinds \ Unfelt, SetKey(k) \in DOMAIN cache
        PROVE  Sure(k, cache[SetKey(k)], {}, since[k])
    <3>1. k \in Kinds \ {"osfamily"}
      BY DEF Unfelt, Kinds
    <3>2. k \in ks
      <4>1. DOMAIN cache = {SetKey(l) : l \in ks}
        BY <1>1, <1>3, WarmIs
      <4>. QED
        BY <2>1, <4>1, KeysApart
    <3>3. cache[SetKey(k)] = Walked(k, present)
      BY <1>1, <1>3, <3>2, WarmIs
    <3>. QED
      BY <1>1, <3>1, <3>3, WalkedIs DEF Sure
  <2>. QED
    BY <1>1, <2>1 DEF CacheInv, Deleting
<1>. QED
  BY <1>2, <1>3, CacheAssumption DEF Init

\* What is known of the cached list of kind k.
KeptSure(k) ==
    /\ Sure(k, cache[SetKey(k)], {}, since[k])
    /\ \A e \in Calls : pc[e] = "deleting" /\ SetKey(k) \notin doomed[e] =>
                          Sure(k, cache[SetKey(k)], {}, mark[e])

LEMMA CacheParts ==
  /\ CacheInv <=> \A k \in CachedKinds \ Unfelt : SetKey(k) \in DOMAIN cache \ late => KeptSure(k)
  /\ CacheInv' <=> \A k \in CachedKinds \ Unfelt' :
                      SetKey(k) \in DOMAIN cache' \ late' => KeptSure(k)'
  BY DEF CacheInv, KeptSure, Deleting

\* What a call stores is explained, unless it was overtaken.
LEMMA StoredIsSure ==
  ASSUME TypeOK, PlacesInv, ReadInv, NEW c \in Calls, Step(c), NEW k \in CachedKinds \ {"osfamily"},
         (StoreDatacenters(c) /\ k = "datacenter") \/ (StoreWalk(c) /\ k = Kind(c)),
         c \notin overtaken
  PROVE  /\ \A W : W = seen[c] \/ W = since[k] => SureNext(k, acc[c], {}, W)
         /\ \A e \in Calls : pc[e] = "deleting" => SureNext(k, acc[c], {}, mark[e])
<1>1. pc[c] \in Reading /\ ReadKind(c) = k /\ Left(c) = {}
  BY DEF StoreDatacenters, StoreWalk, ReadKind, Left, Reading
<1>2. AllSure(k, c)
  BY <1>1, ReadParts
<1>3. failures' = 0 => failures = 0
  BY HistoryGoes DEF Goes
<1>4. \A W : Sure(k, acc[c], {}, W) => SureNext(k, acc[c], {}, W)
  BY <1>3, SureGrows
<1>. QED
  BY <1>1, <1>2, <1>4 DEF AllSure

LEMMA CacheStep ==
  ASSUME TypeOK, PlacesInv, ReadInv, CacheInv, [Next]_vars PROVE CacheInv'
<1>0. WorldType /\ LocalType /\ HistoryType /\ Unfelt \subseteq Unfelt'
  BY TypeParts, UnfeltGrows
<1>1. ASSUME NEW c \in Calls, Receive(c) \/ Step(c), NEW k \in CachedKinds \ Unfelt',
             SetKey(k) \in DOMAIN cache' \ late'
      PROVE  KeptSure(k)'
  <2> DEFINE key == SetKey(k)
  <2>1. Goes(c) /\ PcGoes(c) /\ CacheGoes(c) /\ k \notin Unfelt /\ k # "osfamily"
    BY <1>0, <1>1, HistoryGoes, PcStepIs, CacheStepIs DEF Unfelt
  <2>2. \A e \in Calls \ {c} : SameCall(e)
    BY <1>1, OthersStay
  <2>3. \A list, W : Sure(k, list, {}, W) => SureNext(k, list, {}, W)
    BY <2>1, SureGrows DEF Goes
  <2>4. SUFFICES /\ SureNext(k, cache'[key], {}, since'[k])
                 /\ \A e \in Calls : pc'[e] = "deleting" /\ key \notin doomed'[e] =>
                       SureNext(k, cache'[key], {}, mark'[e])
    BY <2>4 DEF KeptSure, Sure, SureNext
  <2>5. key \in DOMAIN cache \ late => KeptSure(k)
    BY <2>1, CacheParts
  <2> HIDE DEF key
  <2>6. CASE UNCHANGED <<cache, late, since>> /\ ~DeleteNext(c)
    <3>1. KeptSure(k) /\ cache' = cache /\ since' = since
      BY <1>1, <2>5, <2>6 DEF key
    <3>2. ASSUME NEW e \in Calls, pc'[e] = "deleting", key \notin doomed'[e]
          PROVE  e # c
      <4>1. CASE CleanAll(c)
        <5>1. doomed'[c] = DOMAIN cache \ {TickerKey} /\ key # TickerKey
          BY <1>0, <4>1, KeysApart DEF CleanAll, LocalType, key
        <5>. QED
          BY <1>1, <2>6, <3>2, <5>1 DEF key
      <4>2. CASE ~CleanAll(c)
        BY <2>1, <2>6, <3>2, <4>2 DEF PcGoes
      <4>. QED
        BY <4>1, <4>2
    <3>. QED
      BY <2>2, <2>3, <3>1, <3>2 DEF KeptSure, SameCall, key
  <2>7. CASE CleanKeys(c) /\ ~UNCHANGED <<cache, late, since>>
    <3>1. /\ todo[c] # << >> /\ Delete(Single(Head(todo[c])))
          /\ Cleaned({Head(todo[c])}, {present}) /\ op' = op
      BY <2>1, <2>7, CleanIs DEF CacheGoes, CleanKeys, Receive
    <3>2. key \in DOMAIN cache \ late /\ cache'[key] = cache[key] /\ key # Single(Head(todo[c]))
      BY <1>1, <3>1, DeleteKeeps DEF key
    <3>3. k # Head(todo[c])
      <4>1. Head(todo[c]) \in Elements(op[c].keys)
        <5>1. op[c].does = "clean" /\ todo[c] \in Seq(CachedKinds)
          BY <1>0, <2>7 DEF CleanKeys, LocalType
        <5>2. Elements(todo[c]) \subseteq Elements(op[c].keys)
          BY <5>1 DEF PlacesInv, Placed
        <5>. QED
          BY <3>1, <5>1, <5>2, TailIsPart
      <4>2. k = "pool" => k # Head(todo[c])
        BY <1>1, <3>1, <4>1 DEF Unfelt
      <4>3. k # "pool" => key = Single(k)
        BY <2>1, KeysApart DEF key
      <4>. QED
        BY <3>2, <4>2, <4>3
    <3>4. since'[k] = since[k]
      BY <3>1, <3>3 DEF Cleaned
    <3>5. pc'[c] # "deleting"
      BY <2>1, <2>7 DEF CleanKeys, PcGoes, CleanAll, DeleteNext
    <3>. QED
      BY <2>2, <2>3, <2>5, <3>2, <3>4, <3>5 DEF KeptSure, SameCall, key
  <2>8. CASE AllDeleted(c)
    <3>1. /\ doomed[c] = {} /\ pc[c] = "deleting" /\ pc'[c] # "deleting" /\ UNCHANGED <<cache, late>>
          /\ since'[k] = mark[c]
      BY <1>0, <2>8 DEF AllDeleted, Goto, LocalType, Cleaned
    <3>2. KeptSure(k) /\ cache' = cache
      BY <1>1, <2>5, <3>1 DEF key
    <3>. QED
      BY <2>2, <2>3, <3>1, <3>2 DEF KeptSure, SameCall, key
  <2>10. CASE DeleteNext(c)
    <3>1. PICK x \in doomed[c] : Delete(x) /\ doomed' = [doomed EXCEPT ![c] = @ \ {x}]
      BY <2>10 DEF DeleteNext
    <3>2. /\ UNCHANGED <<since, mark>> /\ pc' = pc /\ pc[c] = "deleting"
          /\ doomed'[c] = doomed[c] \ {x}
      BY <1>0, <2>10, <3>1 DEF DeleteNext, LocalType
    <3>3. key \in DOMAIN cache \ late /\ cache'[key] = cache[key] /\ key # x
      BY <1>1, <3>1, DeleteKeeps DEF key
    <3>4. KeptSure(k)
      BY <2>5, <3>3
    <3>5. ASSUME NEW e \in Calls, pc'[e] = "deleting", key \notin doomed'[e]
          PROVE  pc[e] = "deleting" /\ key \notin doomed[e] /\ mark'[e] = mark[e]
      BY <2>2, <3>2, <3>3, <3>5 DEF SameCall
    <3>. QED
      BY <2>3, <3>2, <3>3, <3>4, <3>5 DEF KeptSure, key
  <2>9. CASE StoreTicker(c) \/ StoreDatacenters(c) \/ StoreWalk(c)
    <3>1. since' = since /\ mark' = mark
      BY <2>9 DEF StoreTicker, StoreDatacenters, StoreWalk
    <3>2. pc'[c] # "deleting"
      <4>1. ~CleanAll(c) /\ ~DeleteNext(c)
        BY <2>9 DEF CleanAll, DeleteNext, Goto, StoreTicker, StoreDatacenters, StoreWalk
      <4>. QED
        BY <2>1, <4>1 DEF PcGoes
    <3>3. CASE key \in DOMAIN cache /\ cache'[key] = cache[key] /\ key \notin late
      BY <2>2, <2>3, <2>5, <3>1, <3>2, <3>3 DEF KeptSure, SameCall, key
    <3>4. CASE /\ cache'[key] = acc[c] /\ c \notin overtaken
               /\ (StoreDatacenters(c) /\ k = "datacenter") \/ (StoreWalk(c) /\ k = Kind(c))
      <4>1. Step(c)
        BY <2>9 DEF Step
      <4>2. /\ SureNext(k, acc[c], {}, since[k])
            /\ \A e \in Calls : pc[e] = "deleting" => SureNext(k, acc[c], {}, mark[e])
        BY <2>1, <3>4, <4>1, StoredIsSure
      <4>. QED
        BY <2>2, <3>1, <3>2, <3>4, <4>2 DEF SameCall
    <3>5. CASE StoreTicker(c)
      <4>1. Store(c, TickerKey, {}) /\ key # TickerKey
        BY <3>5, KeysApart DEF StoreTicker, key
      <4>2. key \in DOMAIN cache /\ cache'[key] = cache[key] /\ key \notin late
        BY <1>1, <4>1, StoreKeeps DEF key
      <4>. QED
        BY <3>3, <4>2
    <3>6. CASE StoreDatacenters(c)
      <4>1. Store(c, SetKey("datacenter"), acc[c]) /\ "datacenter" \in CachedKinds
        BY <3>6 DEF StoreDatacenters, SetKey, Shared, CachedKinds
      <4>2. CASE k = "datacenter"
        <5>1. cache'[key] = acc[c] /\ c \notin overtaken
          BY <1>1, <4>1, <4>2, StoreKeeps DEF key
        <5>. QED
          BY <3>4, <3>6, <4>2, <5>1
      <4>3. CASE k # "datacenter"
        <5>1. key # SetKey("datacenter")
          BY <4>1, <4>3, KeysApart DEF key
        <5>2. key \in DOMAIN cache /\ cache'[key] = cache[key] /\ key \notin late
          BY <1>1, <4>1, <5>1, StoreKeeps DEF key
        <5>. QED
          BY <3>3, <5>2
      <4>. QED
        BY <4>2, <4>3
    <3>7. CASE StoreWalk(c)
      <4>1. Store(c, SetKey(Kind(c)), acc[c]) /\ Kind(c) \in CachedKinds
        BY <3>7 DEF StoreWalk, PlacesInv, Placed
      <4>2. CASE k = Kind(c)
        <5>1. cache'[key] = acc[c] /\ c \notin overtaken
          BY <1>1, <4>1, <4>2, StoreKeeps DEF key
        <5>. QED
          BY <3>4, <3>7, <4>2, <5>1
      <4>3. CASE k # Kind(c)
        <5>1. key # SetKey(Kind(c))
          BY <4>1, <4>3, KeysApart DEF key
        <5>2. key \in DOMAIN cache /\ cache'[key] = cache[key] /\ key \notin late
          BY <1>1, <4>1, <5>1, StoreKeeps DEF key
        <5>. QED
          BY <3>3, <5>2
      <4>. QED
        BY <4>2, <4>3
    <3>. QED
      BY <2>9, <3>5, <3>6, <3>7
  <2>. QED
    BY <2>1, <2>6, <2>7, <2>8, <2>9, <2>10 DEF CacheGoes, Goes
<1>2. CASE Change
  <2>1. PICK w \in Inventories :
          /\ since' = [k \in CachedKinds |-> since[k] \cup {w}]
          /\ mark' = [c \in Calls |-> IF mark[c] = {} THEN {} ELSE mark[c] \cup {w}]
    BY <1>2 DEF Change
  <2>2. /\ UNCHANGED <<pc, doomed, cache, late, failures>>
        /\ \A k \in CachedKinds : since[k] \subseteq since'[k]
        /\ \A c \in Calls : mark[c] \subseteq mark'[c]
    BY <1>2, <2>1 DEF Change, local
  <2>3. ASSUME NEW k \in CachedKinds \ Unfelt', SetKey(k) \in DOMAIN cache' \ late'
        PROVE  KeptSure(k)'
    <3>1. KeptSure(k)
      BY <1>0, <2>2, <2>3, CacheParts
    <3>2. \A list, W, V : Sure(k, list, {}, W) /\ W \subseteq V => SureNext(k, list, {}, V)
      BY <2>2, SureGrows
    <3>3. SureNext(k, cache'[SetKey(k)], {}, since'[k])
      BY <2>2, <3>1, <3>2 DEF KeptSure
    <3>4. \A e \in Calls : pc'[e] = "deleting" /\ SetKey(k) \notin doomed'[e] =>
             SureNext(k, cache'[SetKey(k)], {}, mark'[e])
      BY <2>2, <3>1, <3>2 DEF KeptSure
    <3>. QED
      BY <3>3, <3>4 DEF KeptSure, Sure, SureNext
  <2>. QED
    BY <2>3, CacheParts
<1>3. CASE UNCHANGED vars
  <2>1. UNCHANGED <<pc, op, doomed, cache, late, failures, since, mark>>
    BY <1>3 DEF vars, vcenter, local, history
  <2>. QED
    BY <2>1 DEF CacheInv, Deleting, Unfelt, Sure
<1>. QED
  BY <1>1, <1>2, <1>3, CacheParts DEF Next, Quiet

-----------------------------------------------------------------------------
(* The ticker.                                                             *)

\* What TickerInv says of a ticker that was not raced.
Tracked(t) ==
    \/ Ignore(TickerKey)
    \/ pc[t] \in Keeping /\ TickerKey \notin DOMAIN cache
       /\ \A d \in Calls \ {t} : pc[d] \notin Keeping
    \/ TickerKey \in DOMAIN cache /\ kept = t /\ \A d \in Calls : pc[d] \notin Keeping

LEMMA TickerParts ==
  /\ TickerInv <=> /\ TickerKey \in DOMAIN cache => kept \in Calls
                   /\ tickers # {} => \E t \in Calls : Stoppable(t)
                   /\ \A t \in tickers \ raced : Tracked(t)
  /\ TickerInv' <=> /\ TickerKey \in DOMAIN cache' => kept' \in Calls
                    /\ tickers' # {} => \E t \in Calls : Stoppable(t)'
                    /\ \A t \in tickers' \ raced' : Tracked(t)'
<1>1. TickerInv <=> /\ TickerKey \in DOMAIN cache => kept \in Calls
                    /\ tickers # {} => \E t \in Calls : Stoppable(t)
                    /\ \A t \in tickers \ raced : Tracked(t)
  BY DEF TickerInv, TickersAreFound, Tracked, Stoppable
<1>2. TickerInv' <=> /\ TickerKey \in DOMAIN cache' => kept' \in Calls
                     /\ tickers' # {} => \E t \in Calls : Stoppable(t)'
                     /\ \A t \in tickers' \ raced' : Tracked(t)'
  BY DEF TickerInv, TickersAreFound, Tracked, Stoppable
<1>. QED
  BY <1>1, <1>2

LEMMA TickerInit == ASSUME Init PROVE TickerInv
<1>1. TickerKey \notin DOMAIN cache
  <2>1. ASSUME NEW ks \in SUBSET CachedKinds PROVE TickerKey \notin DOMAIN Warm(ks, present)
    <3>1. present \in Inventories
      BY DEF Init
    <3>2. DOMAIN Warm(ks, present) = {SetKey(k) : k \in ks}
      BY <3>1, WarmIs
    <3>. QED
      BY <3>2, KeysApart
  <2>2. cache = Empty \/ \E ks \in SUBSET CachedKinds : cache = Warm(ks, present)
    BY CacheAssumption DEF Init
  <2>3. DOMAIN Empty = {}
    BY DEF Empty, Warm
  <2>. QED
    BY <2>1, <2>2, <2>3
<1>. QED
  BY <1>1, TickerParts DEF Init

\* No clean reaches the key of the ticker, and nothing but a ticker is stored there.
LEMMA TickerKeyStays ==
  ASSUME TypeOK, PlacesInv, NEW c \in Calls, Receive(c) \/ Step(c)
  PROVE  /\ TickerKey \in DOMAIN cache => TickerKey \in DOMAIN cache'
         /\ TickerKey \in DOMAIN cache' /\ ~StoreTicker(c) => TickerKey \in DOMAIN cache
<1>0. LocalType
  BY TypeParts
<1>1. CASE CleanKeys(c)
  <2>1. UNCHANGED cache \/ (todo[c] # << >> /\ Delete(Single(Head(todo[c]))))
    BY <1>1, CleanIs
  <2>2. todo[c] # << >> => TickerKey # Single(Head(todo[c]))
    BY <1>0, KeysApart DEF LocalType
  <2>. QED
    BY <2>1, <2>2, DeleteKeeps
<1>2. CASE DeleteNext(c)
  <2>1. PICK x \in doomed[c] : Delete(x)
    BY <1>2 DEF DeleteNext
  <2>2. x # TickerKey
    BY <2>1 DEF PlacesInv, Placed
  <2>. QED
    BY <2>1, <2>2, DeleteKeeps
<1>3. CASE StoreDatacenters(c)
  <2>1. Store(c, SetKey("datacenter"), acc[c]) /\ "datacenter" \in CachedKinds
    BY <1>3 DEF StoreDatacenters, SetKey, Shared, CachedKinds
  <2>. QED
    BY <2>1, StoreKeeps, KeysApart
<1>4. CASE StoreWalk(c)
  <2>1. Store(c, SetKey(Kind(c)), acc[c]) /\ Kind(c) \in CachedKinds
    BY <1>4 DEF StoreWalk, PlacesInv, Placed
  <2>. QED
    BY <2>1, StoreKeeps, KeysApart
<1>5. CASE StoreTicker(c)
  BY <1>5, StoreKeeps DEF StoreTicker
<1>. QED
  BY <1>1, <1>2, <1>3, <1>4, <1>5, CacheStepIs DEF CacheGoes

LEMMA TickerStep ==
  ASSUME TypeOK, PlacesInv, TickerInv, [Next]_vars PROVE TickerInv'
<1>0. LocalType /\ TickingType
  BY TypeParts
<1>1. ASSUME NEW c \in Calls, Receive(c) \/ Step(c) PROVE TickerInv'
  <2>1. /\ PcGoes(c) /\ \A g \in Calls \ {c} : pc'[g] = pc[g]
        /\ MakeTicker(c) \/ StoreTicker(c) \/ UNCHANGED <<tickers, kept, raced>>
    BY <1>0, <1>1, PcStepIs, OthersStay, TickingStep DEF SameCall
  <2>2. /\ TickerKey \in DOMAIN cache => TickerKey \in DOMAIN cache'
        /\ TickerKey \in DOMAIN cache' /\ ~StoreTicker(c) => TickerKey \in DOMAIN cache
    BY <1>1, TickerKeyStays
  <2>3. /\ TickerKey \in DOMAIN cache => kept \in Calls
        /\ tickers # {} => \E t \in Calls : Stoppable(t)
        /\ \A t \in tickers \ raced : Tracked(t)
    BY TickerParts
  <2>4. ASSUME NEW t, Ignore(TickerKey) PROVE Stoppable(t)' /\ Tracked(t)'
    BY <2>4 DEF Stoppable, Tracked, Ignore
  <2>5. CASE StoreTicker(c)
    <3>1. /\ pc[c] \in Keeping /\ pc'[c] \notin Keeping /\ TickerKey \in DOMAIN cache'
          /\ kept' = c /\ tickers' = tickers /\ raced' = raced
      BY <1>0, <2>5, StoreKeeps DEF StoreTicker, Goto, Keeping, LocalType
    <3>2. ASSUME NEW t \in tickers' \ raced' PROVE Tracked(t)'
      <4>1. t \in Calls /\ Tracked(t)
        BY <1>0, <2>3, <3>1, <3>2 DEF TickingType
      <4>2. CASE ~Ignore(TickerKey)
        <5>1. t = c /\ \A d \in Calls \ {t} : pc[d] \notin Keeping
          BY <3>1, <4>1, <4>2 DEF Tracked
        <5>. QED
          BY <2>1, <3>1, <5>1 DEF Tracked
      <4>. QED
        BY <2>4, <4>2
    <3>. QED
      BY <3>1, <3>2, TickerParts DEF Stoppable
  <2>6. CASE MakeTicker(c) /\ TickerKey \notin DOMAIN cache
    <3> DEFINE others == {g \in Calls \ {c} : pc[g] \in Keeping}
    <3>1. /\ pc'[c] \in Keeping /\ TickerKey \notin DOMAIN cache'
          /\ tickers' = tickers \cup {c}
          /\ raced' = IF others = {} THEN raced ELSE raced \cup others \cup {c}
      BY <1>0, <2>6 DEF MakeTicker, Goto, Keeping, LocalType
    <3>2. ASSUME NEW t \in tickers' \ raced' PROVE Tracked(t)'
      <4>1. CASE t = c
        <5>1. others = {}
          BY <3>1, <3>2, <4>1
        <5>. QED
          BY <2>1, <3>1, <4>1, <5>1 DEF Tracked
      <4>2. CASE t # c
        <5>1. t \in Calls /\ Tracked(t) /\ t \notin others
          BY <1>0, <2>3, <3>1, <3>2, <4>2 DEF TickingType
        <5>2. Ignore(TickerKey)
          BY <2>6, <4>2, <5>1 DEF Tracked
        <5>. QED
          BY <2>4, <5>2
      <4>. QED
        BY <4>1, <4>2
    <3>3. Stoppable(c)'
      BY <3>1 DEF Stoppable
    <3> HIDE DEF others
    <3>. QED
      BY <3>1, <3>2, <3>3, TickerParts
  <2>7. CASE KeepTicker(c) /\ ~Settable(TickerKey) /\ ~Ignore(TickerKey)
    <3>1. /\ pc[c] \in Keeping /\ UNCHANGED <<cache, tickers, kept, raced>>
      BY <2>7 DEF KeepTicker, Goto, Keeping, ticking
    <3>2. op[c].does = "create" /\ op[c] \in OpSet
      BY <1>0, <3>1 DEF PlacesInv, Placed, LocalType
    <3>3. TickerKey \in DOMAIN cache
      BY <2>7, <3>2, OpsAre DEF Settable
    <3>4. tickers \ raced = {}
      BY <2>3, <2>7, <3>1, <3>3 DEF Tracked
    <3>5. Stoppable(kept)'
      BY <3>1, <3>3 DEF Stoppable
    <3>. QED
      BY <2>3, <3>1, <3>3, <3>4, <3>5, TickerParts
  <2>8. CASE \/ KeepTicker(c) /\ (Settable(TickerKey) \/ Ignore(TickerKey))
             \/ MakeTicker(c) /\ TickerKey \in DOMAIN cache
             \/ ~MakeTicker(c) /\ ~KeepTicker(c) /\ ~StoreTicker(c)
    <3>1. UNCHANGED <<tickers, kept, raced>> /\ ~StoreTicker(c)
      <4>1. KeepTicker(c) => UNCHANGED <<tickers, kept, raced>> /\ ~StoreTicker(c)
        BY DEF KeepTicker, StoreTicker, Goto, ticking
      <4>2. MakeTicker(c) /\ TickerKey \in DOMAIN cache =>
               UNCHANGED <<tickers, kept, raced>> /\ ~StoreTicker(c)
        BY DEF MakeTicker, StoreTicker, Goto
      <4>. QED
        BY <2>1, <2>8, <4>1, <4>2
    <3>2. ~Ignore(TickerKey) => (pc'[c] \in Keeping <=> pc[c] \in Keeping)
      <4>1. KeepTicker(c) /\ Settable(TickerKey) => pc'[c] \in Keeping /\ pc[c] \in Keeping
        BY <1>0 DEF KeepTicker, Goto, Keeping, LocalType
      <4>2. MakeTicker(c) /\ TickerKey \in DOMAIN cache => pc'[c] \notin Keeping /\ pc[c] \notin Keeping
        BY <1>0 DEF MakeTicker, Goto, Keeping, LocalType
      <4>. QED
        BY <2>1, <2>8, <4>1, <4>2 DEF PcGoes
    <3>3. ASSUME NEW t \in Calls PROVE (Stoppable(t) => Stoppable(t)') /\ (Tracked(t) => Tracked(t)')
      <4>1. CASE ~Ignore(TickerKey)
        <5>1. \A g \in Calls : pc'[g] \in Keeping <=> pc[g] \in Keeping
          BY <2>1, <3>2, <4>1
        <5>. QED
          BY <2>2, <3>1, <5>1 DEF Stoppable, Tracked, Ignore
      <4>. QED
        BY <2>4, <4>1
    <3>4. \A t \in tickers' \ raced' : Tracked(t)'
      BY <1>0, <2>3, <3>1, <3>3 DEF TickingType
    <3>5. tickers' # {} => \E t \in Calls : Stoppable(t)'
      BY <2>3, <3>1, <3>3
    <3>6. TickerKey \in DOMAIN cache' => kept' \in Calls
      BY <2>2, <2>3, <3>1
    <3>. QED
      BY <3>4, <3>5, <3>6, TickerParts
  <2>. QED
    BY <2>5, <2>6, <2>7, <2>8
<1>2. CASE Change \/ UNCHANGED vars
  BY <1>2 DEF Change, vars, local, ticking, TickerInv, TickersAreFound, Stoppable
<1>. QED
  BY <1>1, <1>2 DEF Next, Quiet

-----------------------------------------------------------------------------
(* What is asked for one after the other.                                  *)

LEMMA ToldAre ==
  ASSUME NEW k \in Kinds \ (MachineKinds \cup {"osfamily", "pool"}), NEW o, NEW w
  PROVE  Ids(Told(k, o, w)) = Find(k, {o}, w)
<1>1. \A p : Info(p, None).id = p /\ HostInfo(p, None).id = p
  BY DEF Info, HostInfo
<1>2. CASE k = "host"
  BY <1>1, <1>2 DEF Told, Ids, MachineKinds
<1>3. CASE k # "host"
  BY <1>1, <1>3 DEF Told, Ids, Infos
<1>. QED
  BY <1>2, <1>3

LEMMA FetchInit == ASSUME Init PROVE FetchInv
  BY DEF Init, FetchInv

LEMMA FetchStep ==
  ASSUME TypeOK, PlacesInv, FetchInv, [Next]_vars PROVE FetchInv'
<1>0. WorldType /\ LocalType /\ HistoryType
  BY TypeParts
<1> DEFINE Fetched(g) == /\ Turns(op[g].kind, Query(g)) # {}
                         /\ op[g].kind \notin MachineKinds \cup {"pool"} => ToldOf(g)
<1>1. ASSUME NEW c \in Calls, Receive(c) \/ Step(c), NEW g \in Calls, pc'[g] = "fetching"
      PROVE  Fetched(g)'
  <2>1. PcGoes(c) /\ Goes(c) /\ CacheGoes(c)
    BY <1>1, PcStepIs, HistoryGoes, CacheStepIs
  <2>2. CASE g # c
    <3>1. SameCall(g) /\ Fetched(g)
      BY <1>1, <2>2, OthersStay DEF FetchInv, SameCall
    <3>. QED
      BY <2>1, <3>1 DEF SameCall, ToldOf, Query, Goes
  <2>3. CASE g = c /\ LookInCache(c)
    <3> DEFINE k == op[c].kind
    <3>1. /\ pc[c] = "looking" /\ op' = op /\ seen' = seen /\ acc[c] = {}
      BY <2>1, <2>3 DEF LookInCache, CacheGoes, Receive, PlacesInv, Placed, Reading
    <3>2. /\ k \in Kinds \ {"osfamily"}
      BY <1>0, <3>1, KindIs DEF PlacesInv, Placed
    <3>3. /\ rest' = [rest EXCEPT ![c] = Turns(k, Query(c))] /\ acc' = acc
          /\ Turns(k, Query(c)) # {}
      <4>1. \A list : ~Return(c, "looking", list)
        BY <1>0, <1>1, <2>3 DEF Return, Goto, LocalType
      <4>2. \A to : Goto(c, "looking", to) => to = "fetching"
        BY <1>0, <1>1, <2>3 DEF Goto, LocalType
      <4> HIDE DEF Return, Goto
      <4>. QED
        BY <2>3, <4>1, <4>2 DEF LookInCache
    <3>4. k \notin MachineKinds \cup {"pool"} => Turns(k, Query(c)) = Query(c).ids
      BY <3>2, <3>3 DEF Turns
    <3>5. rest'[c] = Turns(k, Query(c)) /\ acc'[c] = {} /\ Query(c)' = Query(c)
      BY <1>0, <3>1, <3>3 DEF LocalType, Query
    <3>. QED
      BY <2>3, <3>1, <3>3, <3>4, <3>5 DEF ToldOf
  <2>4. ASSUME NEW ok \in BOOLEAN, FetchNext(c, ok), g = c PROVE Fetched(g)'
    <3> DEFINE k == op[c].kind
    <3>1. PICK o \in rest[c] :
            /\ rest' = [rest EXCEPT ![c] = @ \ {o}]
            /\ acc' = [acc EXCEPT ![c] = IF ok THEN @ \cup Told(k, o, present) ELSE @]
      BY <2>4 DEF FetchNext
    <3>2. /\ pc[c] = "fetching" /\ op' = op /\ seen' = seen
          /\ failures \in Nat /\ failures' = failures + (IF ok THEN 0 ELSE 1)
      BY <1>0, <2>4, CacheAssumption DEF FetchNext, Outcome, WorldType
    <3>3. /\ rest'[c] = rest[c] \ {o} /\ Query(c)' = Query(c) /\ Fetched(c)
          /\ acc'[c] = IF ok THEN acc[c] \cup Told(k, o, present) ELSE acc[c]
          /\ present \in seen[c]
      BY <1>0, <3>1, <3>2 DEF LocalType, Query, FetchInv, PlacesInv, Placed
    <3> SUFFICES ASSUME k \notin MachineKinds \cup {"pool"} PROVE ToldOf(c)'
      BY <2>4, <3>2, <3>3
    <3>4. k \in Kinds \ (MachineKinds \cup {"osfamily", "pool"}) /\ ToldOf(c)
      BY <3>2, <3>3, KindIs DEF PlacesInv, Placed
    <3>5. Ids(Told(k, o, present)) = Find(k, {o}, present)
      BY <3>4, ToldAre
    <3>6. \A i \in Told(k, o, present) : i.id = o /\ Type[o] = k /\ o \in present
      BY <3>5 DEF Ids, Find
    <3>7. o \in Query(c).ids
      BY <3>4 DEF ToldOf
    <3> HIDE DEF k
    <3>8. \A i \in acc'[c] : /\ Type[i.id] = k /\ i.id \in Query(c).ids
                             /\ \E w \in seen[c] : i.id \in w
      BY <3>3, <3>4, <3>6, <3>7 DEF ToldOf, k
    <3>9. ASSUME failures' = 0, NEW p \in Query(c).ids \ rest'[c], Type[p] = k,
                 \A w \in seen[c] : p \in w
          PROVE  p \in Ids(acc'[c])
      <4>1. ok /\ failures = 0
        BY <3>2, <3>9
      <4>2. CASE p = o
        BY <3>3, <3>5, <3>9, <4>1, <4>2 DEF Find, Ids
      <4>3. CASE p # o
        <5>1. p \in Ids(acc[c])
          BY <3>3, <3>4, <3>9, <4>1, <4>3 DEF ToldOf, k
        <5>. QED
          BY <3>3, <5>1 DEF Ids
      <4>. QED
        BY <4>2, <4>3
    <3>. QED
      BY <3>2, <3>3, <3>4, <3>8, <3>9 DEF ToldOf, k
  <2>. QED
    BY <1>1, <2>1, <2>2, <2>3, <2>4 DEF PcGoes
<1>2. CASE Change
  <2>1. PICK w \in Inventories :
          seen' = [c \in Calls |-> IF seen[c] = {} THEN {} ELSE seen[c] \cup {w}]
    BY <1>2 DEF Change
  <2>2. UNCHANGED <<pc, op, rest, acc, failures>> /\ \A c \in Calls : seen[c] \subseteq seen'[c]
    BY <1>2, <2>1 DEF Change, local
  <2>. QED
    BY <2>2 DEF FetchInv, ToldOf, Query
<1>3. CASE UNCHANGED vars
  BY <1>3 DEF vars, vcenter, local, history, FetchInv, ToldOf, Query
<1>. QED
  BY <1>1, <1>2, <1>3 DEF Next, Quiet, FetchInv

-----------------------------------------------------------------------------
(* The answers.                                                            *)

\* An answer that AnswersFit speaks of, and what it says of it.
Judged(c) ==
    /\ Answered(c) /\ c \notin disturbed /\ ~Unbound(c)
    /\ ~ReadOtherwise(op[c].kind, op[c].q) /\ ~Unheeded(op[c].kind, op[c].q)
    /\ op[c].kind \notin Unfelt
    /\ \A k \in CachedKinds \ {"osfamily"} : SetKey(k) \notin late
Fits(c) ==
    /\ Ids(answer[c].list) \subseteq InSome(c)
    /\ failures = 0 => {o \in Steady(op[c].kind, Worlds(c)) : Meets(op[c].kind, op[c].q, o)}
                         \subseteq Ids(answer[c].list)

LEMMA AnswersParts ==
  /\ AnswersFit <=> \A c \in Calls : Judged(c) => Fits(c)
  /\ AnswersFit' <=> \A c \in Calls : Judged(c)' => Fits(c)'
  BY DEF AnswersFit, Judged, Fits

LEMMA AnswersInit == ASSUME Init PROVE AnswersFit
  BY DEF Init, AnswersFit, Answered, NoOp

\* A list that is sure, as the answer to a query that names nothing.
LEMMA WholeFits ==
  ASSUME NEW k \in Kinds \ {"osfamily"}, NEW q \in QueryParams, NEW list \in SUBSET Entries,
         NEW W \in SUBSET Inventories, Walks(k, q), Shaped(k, q), ~Unheeded(k, q),
         Explained(k, list, W)
  PROVE  /\ Ids(list) \subseteq UNION {Meeting(k, q, w) : w \in W}
         /\ Complete(k, list, {}, W) => {o \in Steady(k, W) : Meets(k, q, o)} \subseteq Ids(list)
<1>1. \A i \in list : Meets(k, q, i.id) /\ \E w \in W : i.id \in w
  BY ExplainedHas, WalksAsksAll
<1>2. \A i \in list : \E w \in W : i.id \in Meeting(k, q, w)
  BY <1>1 DEF Meeting
<1>. QED
  BY <1>2 DEF Ids, Complete

\* A list fits as an answer if it fits some of the inventories it may be from.
LEMMA FitsFrom ==
  ASSUME NEW c \in Calls, NEW list, NEW W, W \subseteq Worlds(c), op' = op, since' = since,
         seen'[c] = seen[c], failures' = 0 => failures = 0, answer'[c].list = list,
         Ids(list) \subseteq UNION {Meeting(op[c].kind, op[c].q, w) : w \in W},
         failures' = 0 =>
           {o \in Steady(op[c].kind, W) : Meets(op[c].kind, op[c].q, o)} \subseteq Ids(list)
  PROVE  Fits(c)'
<1>1. Worlds(c)' = Worlds(c)
  BY DEF Worlds
<1>2. Ids(list) \subseteq InSome(c)'
  BY <1>1 DEF InSome
<1>3. \A o \in Steady(op[c].kind, Worlds(c)) : o \in Steady(op[c].kind, W)
  BY DEF Steady
<1>4. failures' = 0 =>
        {o \in Steady(op'[c].kind, Worlds(c)') : Meets(op'[c].kind, op'[c].q, o)} \subseteq Ids(list)
  BY <1>1, <1>3
<1>. QED
  BY <1>2, <1>4 DEF Fits

\* An answer stays as true as it was.
LEMMA FitsStay ==
  ASSUME NEW g \in Calls, Judged(g) => Fits(g), Unfelt \subseteq Unfelt', late \subseteq late',
         disturbed \subseteq disturbed', failures' = 0 => failures = 0,
         pc'[g] = pc[g], op'[g] = op[g], answer'[g] = answer[g], seen[g] \subseteq seen'[g],
         \A k \in CachedKinds : since[k] \subseteq since'[k]
  PROVE  Judged(g)' => Fits(g)'
<1>. SUFFICES ASSUME Judged(g)' PROVE Fits(g)'
  OBVIOUS
<1>1. Judged(g)
  BY DEF Judged, Answered, Unbound, Query
<1>2. Worlds(g) \subseteq Worlds(g)'
  BY DEF Worlds
<1>3. Ids(answer[g].list) \subseteq InSome(g)'
  <2>1. Ids(answer[g].list) \subseteq InSome(g)
    BY <1>1 DEF Fits
  <2>. QED
    BY <1>2, <2>1 DEF InSome
<1>4. \A o \in Steady(op'[g].kind, Worlds(g)') : o \in Steady(op[g].kind, Worlds(g))
  BY <1>2 DEF Steady
<1>5. failures' = 0 =>
        {o \in Steady(op'[g].kind, Worlds(g)') : Meets(op'[g].kind, op'[g].q, o)}
          \subseteq Ids(answer[g].list)
  BY <1>1, <1>4 DEF Fits
<1>. QED
  BY <1>3, <1>5 DEF Fits

\* A step that takes something away disturbs the other calls; the others leave the
\* cache, or store something.
Lasts(c) ==
    /\ since' = since /\ late \subseteq late'
    /\ UNCHANGED <<cache, late>> \/ StoreDatacenters(c) \/ StoreWalk(c) \/ StoreTicker(c)

LEMMA CleansDisturb ==
  ASSUME TypeOK, PlacesInv, NEW c \in Calls, Receive(c) \/ Step(c)
  PROVE  /\ (\A g \in Calls \ {c} : pc[g] # "idle" => g \in disturbed') \/ Lasts(c)
         /\ CleanKeys(c) \/ DeleteNext(c) \/ AllDeleted(c) \/ Lasts(c)
<1>1. Goes(c) /\ CacheGoes(c)
  BY HistoryGoes, CacheStepIs
<1>2. CASE CleanKeys(c)
  <2>1. UNCHANGED <<cache, late, since>> \/ Overtake(c)
    BY <1>2, CleanIs
  <2>. QED
    BY <1>2, <2>1 DEF Overtake, Disturb, Lasts
<1>3. CASE DeleteNext(c) \/ AllDeleted(c)
  BY <1>3 DEF DeleteNext, AllDeleted, Disturb
<1>4. CASE StoreDatacenters(c) \/ StoreWalk(c) \/ StoreTicker(c)
  <2>1. late \subseteq late'
    <3>1. \A key, list : Store(c, key, list) => late \subseteq late'
      BY DEF Store
    <3>. QED
      BY <1>4, <3>1 DEF StoreDatacenters, StoreWalk, StoreTicker
  <2>2. since' = since
    BY <1>4 DEF StoreDatacenters, StoreWalk, StoreTicker
  <2>. QED
    BY <1>4, <2>1, <2>2 DEF Lasts
<1>. QED
  BY <1>1, <1>2, <1>3, <1>4 DEF Goes, CacheGoes, Lasts

LEMMA AnswersStep ==
  ASSUME TypeOK, PlacesInv, ReadInv, CacheInv, FetchInv, AnswersFit, [Next]_vars PROVE AnswersFit'
<1>0. WorldType /\ LocalType /\ HistoryType /\ CacheType /\ Unfelt \subseteq Unfelt'
  BY TypeParts, UnfeltGrows
<1>1. ASSUME NEW c \in Calls, Receive(c) \/ Step(c), NEW g \in Calls, g # c
      PROVE  Judged(g)' => Fits(g)'
  <2>1. SameCall(g) /\ Goes(c) /\ CacheGoes(c) /\ (Judged(g) => Fits(g))
    BY <1>1, OthersStay, HistoryGoes, CacheStepIs, AnswersParts
  <2>2. pc'[g] # "idle" /\ g \notin disturbed' => Lasts(c)
    BY <1>1, <2>1, CleansDisturb DEF SameCall
  <2>3. CASE Lasts(c)
    BY <1>0, <2>1, <2>3, FitsStay DEF SameCall, Goes, Lasts
  <2>. QED
    BY <2>2, <2>3 DEF Judged, Answered
<1>2. ASSUME NEW c \in Calls, Receive(c) \/ Step(c), Judged(c)' PROVE Fits(c)'
  <2> DEFINE k == op[c].kind
             q == op[c].q
  <2>0. Goes(c) /\ PcGoes(c) /\ CacheGoes(c)
    BY <1>2, HistoryGoes, PcStepIs, CacheStepIs
  <2>1. \A from, to : Goto(c, from, to) => pc[c] = from /\ pc'[c] = to
    BY <1>0 DEF Goto, LocalType
  <2>2. ~Receive(c)
    <3>1. ASSUME Receive(c) PROVE FALSE
      <4>1. PICK o : pc' = [pc EXCEPT ![c] = IF o.does = "query" THEN "looking" ELSE "cleaning"]
        BY <3>1 DEF Receive
      <4>. QED
        BY <1>0, <1>2, <4>1 DEF LocalType, Judged, Answered
    <3>. QED
      BY <3>1
  <2>3. op' = op /\ op[c].does = "query" /\ pc'[c] = "done" /\ c \notin disturbed /\ failures' = failures
    BY <1>2, <2>0, <2>2 DEF CacheGoes, Goes, Judged, Answered
  <2>4. /\ Query(c) = q /\ ~ReadOtherwise(k, q) /\ ~Unheeded(k, q) /\ k \notin Unfelt
        /\ \A l \in CachedKinds \ {"osfamily"} : SetKey(l) \notin late'
    BY <1>0, <1>2, <2>3 DEF Judged, Unbound, Query
  <2>5. \A from, list : Return(c, from, list) => answer'[c].list = list
    BY <1>0, <2>3 DEF Return, LocalType, Answer
  <2> HIDE DEF Return, Goto, k, q
  <2>6. /\ Worlds(c) \in SUBSET Inventories /\ seen[c] \subseteq Worlds(c)
        /\ k \in CachedKinds => since[k] \subseteq Worlds(c)
        /\ present \in Worlds(c)
    <3>1. pc[c] # "idle"
      BY <2>3 DEF PlacesInv, Placed
    <3>. QED
      BY <1>0, <3>1 DEF Worlds, HistoryType, PlacesInv, Placed, k
  <2>7. ASSUME pc[c] \in Walking \cup {"looking", "asking", "fetching"}
        PROVE  /\ k \in Kinds \ {"osfamily"} /\ q \in QueryParams /\ Shaped(k, q) /\ Kind(c) = k
               /\ pc[c] \in Walking => Walks(k, q)
    <3>1. Placed(c) /\ Query(c) = q
      BY <2>4 DEF PlacesInv
    <3>2. k \in Kinds \ {"osfamily"} /\ q \in QueryParams /\ Shaped(k, q) /\ Kind(c) = k
      BY <2>3, <2>7, <3>1, KindIs DEF k
    <3>3. pc[c] \in Walking => Walks(k, q)
      BY <2>3, <3>1 DEF Placed, k
    <3>. QED
      BY <3>2, <3>3
  \* What is cached is sure.
  <2>8. ASSUME NEW l \in CachedKinds \ {"osfamily"}, l = k, late \subseteq late', Get(l) # {}
        PROVE  /\ Explained(l, Get(l), since[l]) /\ Get(l) \in SUBSET Entries
               /\ failures = 0 => Complete(l, Get(l), {}, since[l])
    <3>1. SetKey(l) \in DOMAIN cache \ late /\ Get(l) = cache[SetKey(l)]
      BY <2>4, <2>8, GetIsSet DEF Get
    <3>2. l \notin Unfelt
      BY <2>4, <2>8
    <3>3. Sure(l, Get(l), {}, since[l])
      BY <3>1, <3>2 DEF CacheInv
    <3>. QED
      BY <1>0, <3>3, GetType DEF Sure
  <2>9. ASSUME LookInCache(c) PROVE Fits(c)'
    <3> DEFINE hits == IF k \in CachedKinds THEN QueryCache(k, Query(c), Get(k)) ELSE {}
    <3>1. late \subseteq late' /\ since' = since /\ seen' = seen /\ pc[c] = "looking"
      BY <2>9 DEF LookInCache
    <3>2. hits # {} /\ answer'[c].list = hits
      <4>1. \/ hits # {} /\ Return(c, "looking", hits)
            \/ \E to : Goto(c, "looking", to)
                         /\ to \in {"fetching", "asking", "policies", "datacenters"}
        BY <2>9 DEF LookInCache, k
      <4> HIDE DEF hits
      <4>. QED
        BY <2>1, <2>3, <2>5, <4>1
    <3>3. k \in CachedKinds \ {"osfamily"} /\ hits = QueryCache(k, q, Get(k)) /\ Get(k) # {}
            /\ q \in QueryParams /\ Shaped(k, q)
      <4>1. k \in CachedKinds /\ hits = QueryCache(k, q, Get(k))
        BY <2>4, <3>2
      <4>2. hits \subseteq Get(k)
        BY <4>1, HitsAreCached
      <4>. QED
        BY <2>7, <3>1, <3>2, <4>1, <4>2
    <3> HIDE DEF hits
    <3>4. /\ Explained(k, Get(k), since[k]) /\ Get(k) \in SUBSET Entries
          /\ failures = 0 => Complete(k, Get(k), {}, since[k])
      BY <2>8, <3>1, <3>3
    <3>5. since[k] \in SUBSET Inventories
      BY <1>0, <3>3 DEF HistoryType
    <3>6. /\ Ids(hits) \subseteq UNION {Meeting(k, q, w) : w \in since[k]}
          /\ Complete(k, Get(k), {}, since[k]) =>
               {o \in Steady(k, since[k]) : Meets(k, q, o)} \subseteq Ids(hits)
      BY <2>4, <3>2, <3>3, <3>4, <3>5, HitsFit
    <3>. QED
      BY <2>3, <2>6, <3>1, <3>2, <3>3, <3>4, <3>6, FitsFrom DEF k, q
  <2>10. ASSUME NEW ok \in BOOLEAN, AskVCenter(c, ok) PROVE Fits(c)'
    <3> DEFINE a == QueryVCenter(k, q, present)
    <3>1. since' = since /\ seen' = seen /\ pc[c] = "asking" /\ present \in Inventories
      BY <1>0, <2>10 DEF AskVCenter, Conclusion, WorldType
    <3>2. ok
      BY <1>2, <2>3, <2>10 DEF AskVCenter, Outcome, Judged
    <3>3. ~a.panic /\ answer'[c].list = a.list
      <4>1. answer' = [answer EXCEPT ![c] = a] /\ Goto(c, "asking", IF a.panic THEN "panicked" ELSE "done")
        BY <2>4, <2>10, <3>2 DEF AskVCenter, Conclusion, k
      <4> HIDE DEF a
      <4>. QED
        BY <1>0, <2>1, <2>3, <4>1 DEF LocalType
    <3>4. ~Walks(k, q) /\ k \in Kinds \ {"osfamily"} /\ q \in QueryParams /\ Shaped(k, q)
      BY <2>4, <2>7, <3>1 DEF PlacesInv, Placed, k
    <3>5. Ids(a.list) = Meeting(k, q, present)
      BY <2>4, <3>1, <3>3, <3>4, VCenterFits
    <3> HIDE DEF a
    <3>6. /\ Ids(a.list) \subseteq UNION {Meeting(k, q, w) : w \in {present}}
          /\ {o \in Steady(k, {present}) : Meets(k, q, o)} \subseteq Ids(a.list)
      BY <3>5 DEF Steady, Meeting
    <3>. QED
      BY <2>3, <2>6, <3>1, <3>3, <3>6, FitsFrom DEF k, q
  \* A walk answers with what is cached, or with what it has read.
  <2>11. ASSUME NEW list \in SUBSET Entries, NEW W \in SUBSET Inventories, W \subseteq Worlds(c),
                pc[c] \in Walking, since' = since, seen' = seen, answer'[c].list = list,
                Explained(k, list, W), failures' = 0 => Complete(k, list, {}, W)
         PROVE  Fits(c)'
    <3>1. /\ Ids(list) \subseteq UNION {Meeting(k, q, w) : w \in W}
          /\ Complete(k, list, {}, W) => {o \in Steady(k, W) : Meets(k, q, o)} \subseteq Ids(list)
      BY <2>4, <2>7, <2>11, WholeFits
    <3>. QED
      BY <2>3, <2>11, <3>1, FitsFrom DEF k, q
  <2>12. ASSUME NEW ok \in BOOLEAN, GetDatacenters(c, ok) PROVE Fits(c)'
    <3>1. late' = late /\ since' = since /\ seen' = seen /\ pc[c] = "datacenters"
      BY <2>12 DEF GetDatacenters
    <3>2. ok
      <4>1. ASSUME Outcome(c, ok), ~ok PROVE c \in disturbed'
        BY <4>1 DEF Outcome
      <4>. QED
        BY <1>2, <2>12, <4>1 DEF GetDatacenters, Judged
    <3>3. Get("datacenter") # {} /\ Kind(c) = "datacenter"
            /\ Return(c, "datacenters", Get("datacenter"))
      <4>1. \/ /\ Get("datacenter") # {} /\ Kind(c) = "datacenter"
               /\ Return(c, "datacenters", Get("datacenter"))
            \/ Goto(c, "datacenters", "listing") \/ Goto(c, "datacenters", "keeping")
        BY <2>12, <3>2 DEF GetDatacenters
      <4>. QED
        BY <2>1, <2>3, <4>1
    <3>4. k = "datacenter" /\ "datacenter" \in CachedKinds \ {"osfamily"} /\ pc[c] \in Walking
      BY <2>7, <3>1, <3>3 DEF CachedKinds, Walking
    <3>5. /\ Explained(k, Get(k), since[k]) /\ Get(k) \in SUBSET Entries
          /\ failures = 0 => Complete(k, Get(k), {}, since[k])
      BY <2>8, <3>1, <3>3, <3>4
    <3>6. answer'[c].list = Get(k) /\ since[k] \in SUBSET Inventories
      BY <1>0, <2>5, <3>3, <3>4 DEF HistoryType
    <3>. QED
      BY <2>3, <2>6, <2>11, <3>1, <3>4, <3>5, <3>6
  <2>13. ASSUME \/ (KeepDatacenters(c) \/ StoreDatacenters(c)) /\ Kind(c) = "datacenter"
                \/ WalkEnds(c) \/ StoreWalk(c)
         PROVE  Fits(c)'
    <3>1. /\ since' = since /\ seen' = seen /\ pc[c] \in Walking /\ pc[c] \in Reading
          /\ answer'[c].list = acc[c] /\ Left(c) = {}
      <4>1. /\ since' = since /\ seen' = seen
            /\ \E from, to : Return(c, from, acc[c]) \/ (to # "done" /\ Goto(c, from, to))
        BY <2>13 DEF KeepDatacenters, StoreDatacenters, WalkDatacenters, WalkEnds, StoreWalk
      <4>2. pc[c] \in {"keeping", "keepWrite", "listing", "storing", "storeWrite"}
              /\ (pc[c] = "listing" => rest[c] = {})
        BY <2>13 DEF KeepDatacenters, StoreDatacenters, WalkEnds, StoreWalk
      <4>. QED
        BY <2>1, <2>3, <2>5, <4>1, <4>2 DEF Walking, Reading, Left
    <3>2. c \notin overtaken
      BY <2>3 DEF PlacesInv
    <3>3. ReadKind(c) = k /\ k # "osfamily"
      <4>1. pc[c] \in {"keeping", "keepWrite"} => Kind(c) = "datacenter"
        BY <2>13 DEF WalkEnds, StoreWalk
      <4>. QED
        BY <2>7, <3>1, <4>1 DEF ReadKind
    <3>4. Sure(k, acc[c], {}, seen[c])
      BY <3>1, <3>2, <3>3 DEF ReadInv
    <3>5. acc[c] \in SUBSET Entries /\ seen[c] \in SUBSET Inventories
      BY <1>0 DEF LocalType, HistoryType
    <3>. QED
      BY <2>3, <2>6, <2>11, <3>1, <3>4, <3>5 DEF Sure
  <2>14. ASSUME NEW ok \in BOOLEAN, GetPolicies(c, ok) PROVE FALSE
    <3>1. ok
      BY <1>2, <2>14 DEF GetPolicies, Outcome, Judged
    <3>. QED
      BY <2>1, <2>3, <2>14, <3>1 DEF GetPolicies
  <2>15. ASSUME KeepDatacenters(c) \/ StoreDatacenters(c), Kind(c) # "datacenter" PROVE FALSE
    <3>1. \E from : Goto(c, from, "listing") \/ Goto(c, from, "keepWrite")
      BY <2>15 DEF KeepDatacenters, StoreDatacenters, WalkDatacenters
    <3>. QED
      BY <2>1, <2>3, <3>1
  <2>16. ASSUME NEW ok \in BOOLEAN, ListNext(c, ok) \/ FetchNext(c, ok) PROVE FALSE
    BY <2>3, <2>16 DEF ListNext, FetchNext
  <2>17. ~FillNext(c) /\ ~CleanKeys(c) /\ ~CleanAll(c) /\ ~DeleteNext(c) /\ ~AllDeleted(c)
           /\ ~MakeTicker(c) /\ ~KeepTicker(c) /\ ~StoreTicker(c)
    BY <2>1, <2>3 DEF FillNext, CleanKeys, CleanAll, DeleteNext, AllDeleted, MakeTicker, KeepTicker,
       StoreTicker, Keeping, PlacesInv, Placed
  \* What was told one by one is what was asked for.
  <2>18. ASSUME FetchEnds(c) PROVE Fits(c)'
    <3>1. /\ pc[c] = "fetching" /\ rest[c] = {} /\ since' = since /\ seen' = seen
          /\ answer' = [answer EXCEPT ![c] = Conclude(k, acc[c])]
      BY <2>18 DEF FetchEnds, Conclusion, Goto, vcenter, k
    <3>2. k \in Kinds \ {"osfamily"} /\ q \in QueryParams /\ Shaped(k, q) /\ ~Walks(k, q)
      BY <2>4, <2>7, <3>1 DEF PlacesInv, Placed, k
    <3>3. k \notin MachineKinds \cup {"pool"} /\ q.ids # {} /\ ToldOf(c)
      <4>1. Turns(k, q) # {} /\ (k \notin MachineKinds \cup {"pool"} => ToldOf(c))
        BY <2>4, <3>1 DEF FetchInv, k
      <4>2. k \notin MachineKinds
        BY <2>4, <4>1 DEF Turns, Unheeded, MachineKinds
      <4>3. k # "pool"
        BY <2>4, <4>1 DEF Turns, ReadOtherwise
      <4>. QED
        BY <4>1, <4>2, <4>3 DEF Turns
    <3>4. answer'[c].list = acc[c]
      BY <1>0, <3>1, <3>3 DEF LocalType, Conclude, Answer
    <3>5. \A o : Meets(k, q, o) <=> Type[o] = k /\ o \in q.ids
      BY <3>3 DEF Meets
    <3>6. Ids(acc[c]) \subseteq UNION {Meeting(k, q, w) : w \in seen[c]}
      <4>1. \A i \in acc[c] : \E w \in seen[c] : i.id \in Meeting(k, q, w)
        BY <2>4, <3>3, <3>5 DEF ToldOf, Meeting, k
      <4>. QED
        BY <4>1 DEF Ids
    <3>7. failures = 0 => {o \in Steady(k, seen[c]) : Meets(k, q, o)} \subseteq Ids(acc[c])
      BY <2>4, <3>1, <3>3, <3>5 DEF ToldOf, Steady, k
    <3>. QED
      BY <2>3, <2>6, <3>1, <3>4, <3>6, <3>7, FitsFrom DEF k, q
  <2>. QED
    BY <1>2, <2>2, <2>9, <2>10, <2>12, <2>13, <2>14, <2>15, <2>16, <2>17, <2>18 DEF Step
<1>3. CASE Change
  <2>1. PICK w \in Inventories :
          /\ since' = [k \in CachedKinds |-> since[k] \cup {w}]
          /\ seen' = [c \in Calls |-> IF seen[c] = {} THEN {} ELSE seen[c] \cup {w}]
    BY <1>3 DEF Change
  <2>2. /\ UNCHANGED <<pc, op, answer, late, disturbed, failures>>
        /\ \A k \in CachedKinds : since[k] \subseteq since'[k]
        /\ \A c \in Calls : seen[c] \subseteq seen'[c]
    BY <1>3, <2>1 DEF Change, local
  <2>3. ASSUME NEW c \in Calls PROVE Judged(c)' => Fits(c)'
    BY <1>0, <2>2, FitsStay, AnswersParts
  <2>. QED
    BY <2>3, AnswersParts
<1>4. CASE UNCHANGED vars
  <2>1. UNCHANGED <<pc, op, answer, late, disturbed, failures, since, seen>>
    BY <1>4 DEF vars, vcenter, local, history
  <2>2. ASSUME NEW c \in Calls PROVE Judged(c)' => Fits(c)'
    BY <1>0, <2>1, FitsStay, AnswersParts
  <2>. QED
    BY <2>2, AnswersParts
<1>. QED
  BY <1>1, <1>2, <1>3, <1>4, AnswersParts DEF Next, Quiet

-----------------------------------------------------------------------------
(* What was filled is found.                                               *)

\* What is known of a call of CreateCache that nothing has disturbed.
Filled(c) ==
    /\ \A k \in CachedKinds : since[k] \subseteq seen[c]
    /\ Len(todo[c]) <= Len(FillKinds)
    /\ \A j \in 1..Len(todo[c]) : todo[c][j] = FillKinds[Len(FillKinds) - Len(todo[c]) + j]
    /\ failures = 0 => \A i \in 1..(Len(FillKinds) - Len(todo[c])) : Found(c, FillKinds[i])
Filling(c) ==
    c \notin disturbed /\ op[c].does = "create" /\ pc[c] \notin {"cleaning", "deleting"}

LEMMA FillParts ==
  /\ FillInv <=> \A c \in Calls : Filling(c) => Filled(c)
  /\ FillInv' <=> \A c \in Calls : Filling(c)' => Filled(c)'
  BY DEF FillInv, Filling, Filled

LEMMA FillInit == ASSUME Init PROVE FillInv
  BY DEF Init, FillInv, NoOp

FoundNext(c, k) ==
    \/ k \in Unfelt' \/ Ignore(SetKey(k)) \/ SetKey(k) \in late'
    \/ Steady(k, seen'[c]) = {} \/ Get(k)' # {}

\* The kinds that are still to be filled are the last of FillKinds.
LEMMA TurnOver ==
  ASSUME NEW left \in Seq(CachedKinds), left # << >>, Len(left) <= Len(FillKinds),
         \A j \in 1..Len(left) : left[j] = FillKinds[Len(FillKinds) - Len(left) + j]
  PROVE  /\ Len(Tail(left)) = Len(left) - 1 /\ Len(left) \in Nat \ {0}
         /\ \A j \in 1..Len(Tail(left)) :
              Tail(left)[j] = FillKinds[Len(FillKinds) - Len(Tail(left)) + j]
         /\ FillKinds[Len(FillKinds) - Len(Tail(left))] = Head(left)
<1>1. Len(FillKinds) \in Nat /\ Len(left) \in Nat /\ Len(left) # 0
  BY CacheAssumption
<1>2. Len(Tail(left)) = Len(left) - 1
  BY <1>1
<1>3. \A j \in 1..Len(Tail(left)) : Tail(left)[j] = left[j + 1]
  BY <1>1, <1>2
<1>4. Head(left) = left[1]
  OBVIOUS
<1>5. \A j \in 1..Len(Tail(left)) :
         /\ j + 1 \in 1..Len(left)
         /\ Len(FillKinds) - Len(left) + (j + 1) = Len(FillKinds) - Len(Tail(left)) + j
  BY <1>1, <1>2
<1>6. FillKinds[Len(FillKinds) - Len(Tail(left))] = Head(left)
  <2>1. left[1] = FillKinds[Len(FillKinds) - Len(left) + 1]
    BY <1>1
  <2>2. Len(FillKinds) - Len(left) + 1 = Len(FillKinds) - Len(Tail(left))
    BY <1>1, <1>2
  <2>. QED
    BY <1>4, <2>1, <2>2
<1>7. ASSUME NEW j \in 1..Len(Tail(left))
      PROVE  Tail(left)[j] = FillKinds[Len(FillKinds) - Len(Tail(left)) + j]
  <2>1. left[j + 1] = FillKinds[Len(FillKinds) - Len(left) + (j + 1)]
    BY <1>5
  <2>. QED
    BY <1>3, <1>5, <2>1
<1>. QED
  BY <1>1, <1>2, <1>6, <1>7

\* What is cached is found.
LEMMA KeptIsFound ==
  ASSUME NEW c \in Calls, NEW k \in CachedKinds, SetKey(k) \in DOMAIN cache', Enabled, CacheInv',
         failures' = 0, since'[k] \subseteq seen'[c]
  PROVE  FoundNext(c, k)
<1>. SUFFICES ASSUME k \notin Unfelt', SetKey(k) \notin late', NEW o \in Steady(k, seen'[c])
              PROVE  Get(k)' # {}
  BY DEF FoundNext
<1>1. k # "osfamily"
  BY DEF Unfelt
<1>2. KeptSure(k)'
  BY CacheParts
<1>3. o \in Ids(cache'[SetKey(k)])
  BY <1>2 DEF KeptSure, Sure, Complete, Steady
<1>. QED
  BY <1>1, <1>3, GetIsSet DEF Get, Ids

\* What has been found stays, while nothing is deleted.
LEMMA FoundStays ==
  ASSUME NEW c \in Calls, NEW k \in CachedKinds, Found(c, k), Unfelt \subseteq Unfelt',
         late \subseteq late', seen[c] \subseteq seen'[c], DOMAIN cache \subseteq DOMAIN cache',
         CacheInv', failures' = 0, since'[k] \subseteq seen'[c]
  PROVE  FoundNext(c, k)
<1>1. Steady(k, seen[c]) = {} => Steady(k, seen'[c]) = {}
  BY DEF Steady
<1>2. CASE Get(k) # {}
  <2>1. Enabled /\ GetKey(k) \in DOMAIN cache'
    BY <1>2 DEF Get
  <2>2. k = "osfamily" => k \in Unfelt'
    BY DEF Unfelt
  <2>. QED
    BY <2>1, <2>2, GetIsSet, KeptIsFound DEF FoundNext
<1>. QED
  BY <1>1, <1>2 DEF Found, FoundNext

\* A call that goes on, or does nothing, has found what it had.
LEMMA FilledStays ==
  ASSUME NEW c \in Calls, Filled(c), Unfelt \subseteq Unfelt', late \subseteq late',
         seen[c] \subseteq seen'[c], todo'[c] = todo[c], failures' = 0 => failures = 0,
         \A k \in CachedKinds : since'[k] \subseteq seen'[c],
         todo[c] \in Seq(CachedKinds), DOMAIN cache \subseteq DOMAIN cache', CacheInv'
  PROVE  Filled(c)'
<1>1. Len(todo[c]) \in Nat /\ Len(FillKinds) \in Nat
        /\ \A i \in 1..Len(FillKinds) : FillKinds[i] \in CachedKinds
  BY CacheAssumption
<1>2. failures' = 0 =>
        \A i \in 1..(Len(FillKinds) - Len(todo'[c])) : FoundNext(c, FillKinds[i])
  BY <1>1, FoundStays DEF Filled
<1>. QED
  BY <1>2 DEF Filled, Found, FoundNext

\* A turn that ends has found its kind, too.
LEMMA FilledTurns ==
  ASSUME NEW c \in Calls, Filled(c), Unfelt \subseteq Unfelt', late \subseteq late',
         seen'[c] = seen[c], since' = since, todo[c] \in Seq(CachedKinds), todo[c] # << >>,
         todo'[c] = Tail(todo[c]), failures' = 0 => failures = 0 /\ FoundNext(c, Head(todo[c])),
         DOMAIN cache \subseteq DOMAIN cache', CacheInv'
  PROVE  Filled(c)'
<1> DEFINE n == Len(FillKinds)
           m == Len(todo[c])
<1>1. n \in Nat /\ m \in Nat \ {0} /\ m <= n
  BY CacheAssumption, TurnOver DEF Filled
<1>2. /\ Len(todo'[c]) = m - 1 /\ FillKinds[n - (m - 1)] = Head(todo[c])
      /\ \A j \in 1..Len(todo'[c]) : todo'[c][j] = FillKinds[n - Len(todo'[c]) + j]
  BY TurnOver DEF Filled
<1>3. failures' = 0 => \A i \in 1..(n - Len(todo'[c])) : FoundNext(c, FillKinds[i])
  <2>. SUFFICES ASSUME failures' = 0, NEW i \in 1..(n - Len(todo'[c]))
                PROVE  FoundNext(c, FillKinds[i])
    OBVIOUS
  <2>1. CASE i \in 1..(n - m)
    <3>1. Found(c, FillKinds[i])
      BY <2>1 DEF Filled
    <3>2. FillKinds[i] \in CachedKinds
      BY <1>1, <2>1, CacheAssumption
    <3>3. since'[FillKinds[i]] \subseteq seen'[c]
      BY <3>2 DEF Filled
    <3>. QED
      BY <3>1, <3>2, <3>3, FoundStays
  <2>2. CASE i \notin 1..(n - m)
    <3>1. i = n - (m - 1)
      BY <1>1, <1>2, <2>2
    <3>. QED
      BY <1>2, <3>1
  <2>. QED
    BY <2>1, <2>2
<1>4. Len(todo'[c]) <= n /\ \A k \in CachedKinds : since'[k] \subseteq seen'[c]
  BY <1>1, <1>2 DEF Filled
<1> HIDE DEF m
<1>. QED
  BY <1>2, <1>3, <1>4 DEF Filled, Found, FoundNext

LEMMA FillStep ==
  ASSUME TypeOK, PlacesInv, ReadInv, CacheInv, FillInv, [Next]_vars PROVE FillInv'
<1>0. /\ WorldType /\ LocalType /\ HistoryType /\ CacheType /\ Unfelt \subseteq Unfelt'
      /\ CacheInv'
  BY TypeParts, UnfeltGrows, CacheStep
<1>5. \A c : Lasts(c) => DOMAIN cache \subseteq DOMAIN cache'
  <2>1. \A c, key, list : Store(c, key, list) => DOMAIN cache \subseteq DOMAIN cache'
    BY DEF Store
  <2>. QED
    BY <2>1 DEF Lasts, StoreDatacenters, StoreWalk, StoreTicker
<1>1. ASSUME NEW c \in Calls, Receive(c) \/ Step(c), NEW g \in Calls, g # c, Filling(g)'
      PROVE  Filled(g)'
  <2>1. SameCall(g) /\ Goes(c) /\ CacheGoes(c)
    BY <1>1, OthersStay, HistoryGoes, CacheStepIs
  <2>2. Filling(g) /\ Filled(g) /\ pc[g] # "idle"
    <3>1. Filling(g)
      BY <1>1, <2>1 DEF Filling, SameCall, Goes
    <3>. QED
      BY <3>1, FillParts DEF PlacesInv, Placed, Filling
  <2>3. Lasts(c)
    BY <1>1, <2>2, CleansDisturb DEF Filling
  <2>4. since' = since /\ late \subseteq late' /\ DOMAIN cache \subseteq DOMAIN cache'
    BY <1>5, <2>3 DEF Lasts
  <2>5. todo[g] \in Seq(CachedKinds)
    BY <1>0 DEF LocalType
  <2>. QED
    BY <1>0, <2>1, <2>2, <2>4, <2>5, FilledStays DEF SameCall, Goes, Filled
<1>2. ASSUME NEW c \in Calls, Receive(c) \/ Step(c), Filling(c)' PROVE Filled(c)'
  <2>0. Goes(c) /\ PcGoes(c) /\ CacheGoes(c)
    BY <1>2, HistoryGoes, PcStepIs, CacheStepIs
  <2>1. \A from, to : Goto(c, from, to) => pc[c] = from /\ pc'[c] = to
    BY <1>0 DEF Goto, LocalType
  <2>2. ~Receive(c)
    <3>1. ASSUME Receive(c) PROVE FALSE
      <4>1. PICK o : op' = [op EXCEPT ![c] = o] /\
               pc' = [pc EXCEPT ![c] = IF o.does = "query" THEN "looking" ELSE "cleaning"]
        BY <3>1 DEF Receive
      <4>2. pc'[c] = "cleaning" \/ op'[c].does = "query"
        BY <1>0, <4>1 DEF LocalType
      <4>. QED
        BY <1>2, <4>2 DEF Filling
    <3>. QED
      BY <3>1
  <2>3. op' = op /\ op[c].does = "create" /\ Enabled
    <3>1. op' = op /\ op[c].does = "create" /\ op[c] \in OpSet
      BY <1>0, <1>2, <2>0, <2>2 DEF CacheGoes, Filling, LocalType
    <3>. QED
      BY <3>1, OpsAre
  <2>4. c \notin disturbed /\ c \notin overtaken /\ failures' = failures
    BY <1>2, <2>0 DEF Goes, Filling, PlacesInv
  <2>5. \A from, list : Return(c, from, list) =>
          pc[c] = from /\ pc'[c] = "filling" /\ todo'[c] = Tail(todo[c])
    BY <1>0, <2>3 DEF Return, Goto, LocalType
  <2> HIDE DEF Return, Goto
  <2>6. Placed(c) /\ todo[c] \in Seq(CachedKinds) /\ Kind(c) = Head(todo[c])
    BY <1>0, <2>3 DEF PlacesInv, LocalType, Kind
  <2>7. ~CleanKeys(c) /\ ~CleanAll(c) /\ ~DeleteNext(c)
    BY <1>0, <1>2, <2>1, <2>3 DEF CleanKeys, CleanAll, DeleteNext, Filling
  <2>8. CASE AllDeleted(c)
    <3>1. /\ pc[c] = "deleting" /\ seen' = seen /\ \A k \in CachedKinds : since'[k] = mark[c]
          /\ todo'[c] = FillKinds
      BY <1>0, <2>1, <2>3, <2>8 DEF AllDeleted, LocalType, Cleaned
    <3>2. mark[c] \subseteq seen[c]
      BY <2>6, <3>1 DEF Placed
    <3>3. Len(FillKinds) \in Nat
      BY CacheAssumption
    <3>. QED
      BY <3>1, <3>2, <3>3 DEF Filled
  <2>. SUFFICES ASSUME ~AllDeleted(c) PROVE Filled(c)'
    BY <2>8
  <2>26. \A ok \in BOOLEAN : ~LookInCache(c) /\ ~AskVCenter(c, ok) /\ ~FetchNext(c, ok) /\ ~FetchEnds(c)
    BY <2>1, <2>3, <2>6 DEF LookInCache, AskVCenter, FetchNext, FetchEnds, Conclusion, Placed
  <2>9. pc[c] \notin {"cleaning", "deleting"}
    <3>1. FillNext(c) => pc[c] = "filling"
      BY DEF FillNext
    <3>2. \A ok \in BOOLEAN : GetDatacenters(c, ok) \/ ListNext(c, ok) \/ GetPolicies(c, ok) =>
                                pc[c] \in {"datacenters", "listing", "policies"}
      BY DEF GetDatacenters, ListNext, GetPolicies
    <3>3. KeepDatacenters(c) \/ StoreDatacenters(c) \/ WalkEnds(c) \/ StoreWalk(c) =>
            pc[c] \in {"keeping", "keepWrite", "listing", "storing", "storeWrite"}
      BY DEF KeepDatacenters, StoreDatacenters, WalkEnds, StoreWalk
    <3>4. MakeTicker(c) \/ KeepTicker(c) \/ StoreTicker(c) =>
            pc[c] \in {"ticker", "tickerMade", "tickerWrite"}
      BY <2>1 DEF MakeTicker, KeepTicker, StoreTicker
    <3>. QED
      BY <1>2, <2>2, <2>7, <2>26, <3>1, <3>2, <3>3, <3>4 DEF Step
  <2>10. Filled(c)
    BY <2>3, <2>4, <2>9, FillParts DEF Filling
  <2>11. since' = since /\ late \subseteq late' /\ DOMAIN cache \subseteq DOMAIN cache'
    BY <1>2, <1>5, <2>7, CleansDisturb DEF Lasts
  <2>12. seen' = seen
    BY <1>2, <2>2, <2>7, <2>26 DEF Step, FillNext, GetDatacenters, KeepDatacenters,
       StoreDatacenters, ListNext, WalkEnds, StoreWalk, GetPolicies, MakeTicker, KeepTicker,
       StoreTicker, history
  <2>13. CASE todo'[c] = todo[c]
    BY <1>0, <2>4, <2>6, <2>10, <2>11, <2>12, <2>13, FilledStays DEF Filled
  <2>14. ASSUME NEW from, NEW list, Return(c, from, list),
                failures' = 0 => FoundNext(c, Kind(c)), todo[c] # << >>
         PROVE  Filled(c)'
    BY <1>0, <2>4, <2>5, <2>6, <2>10, <2>11, <2>12, <2>14, FilledTurns
  <2>15. ASSUME NEW k \in CachedKinds, failures' = 0,
                k # "osfamily" => SetKey(k) \in DOMAIN cache'
         PROVE  FoundNext(c, k)
    <3>1. since'[k] \subseteq seen'[c]
      BY <2>10, <2>11, <2>12 DEF Filled
    <3>2. k = "osfamily" => k \in Unfelt'
      BY DEF Unfelt
    <3>. QED
      BY <1>0, <2>3, <2>15, <3>1, <3>2, KeptIsFound DEF FoundNext
  <2>27. ASSUME NEW k \in CachedKinds, Get(k) # {}, k # "osfamily" PROVE SetKey(k) \in DOMAIN cache'
    BY <2>11, <2>27, GetIsSet DEF Get
  <2>16. ASSUME pc[c] \in Walking PROVE Kind(c) \in CachedKinds /\ todo[c] # << >>
    BY <2>3, <2>6, <2>16, KindIs
  \* A list that cannot be stored is ignored, or another is there.
  <2>17. ASSUME NEW k \in CachedKinds, failures' = 0, ~Settable(SetKey(k)) PROVE FoundNext(c, k)
    <3>1. Ignore(SetKey(k)) \/ SetKey(k) \in DOMAIN cache'
      BY <2>3, <2>11, <2>17 DEF Settable
    <3>. QED
      BY <2>15, <2>17, <3>1 DEF FoundNext
  <2>18. CASE FillNext(c)
    <3>1. CASE /\ todo[c] # << >> /\ Kind(c) \in {"policy", "osfamily"} /\ Get(Kind(c)) # {}
               /\ Return(c, "filling", {})
      <4>1. Kind(c) \in CachedKinds
        BY <3>1 DEF CachedKinds
      <4>. QED
        BY <2>14, <2>15, <2>27, <3>1, <4>1
    <3>2. CASE todo' = todo
      BY <2>13, <3>2
    <3>. QED
      BY <2>18, <3>1, <3>2 DEF FillNext
  <2>19. ASSUME NEW ok \in BOOLEAN, GetDatacenters(c, ok) PROVE Filled(c)'
    <3>1. pc[c] \in Walking
      BY <2>19 DEF GetDatacenters, Walking
    <3>2. CASE todo' = todo
      BY <2>13, <3>2
    <3>3. CASE /\ Get("datacenter") # {} /\ Kind(c) = "datacenter"
               /\ Return(c, "datacenters", Get("datacenter"))
      BY <2>14, <2>15, <2>16, <2>27, <3>1, <3>3
    <3>4. CASE Outcome(c, ok) /\ ~ok
      BY <1>2, <3>4 DEF Outcome, Filling
    <3>. QED
      BY <2>19, <3>2, <3>3, <3>4 DEF GetDatacenters
  <2>20. CASE KeepDatacenters(c) \/ StoreDatacenters(c)
    <3>1. pc[c] \in Walking /\ "datacenter" \in CachedKinds /\ DatacenterKey = SetKey("datacenter")
      BY <2>20 DEF KeepDatacenters, StoreDatacenters, Walking, CachedKinds, SetKey, Shared
    <3>2. CASE todo' = todo
      BY <2>13, <3>2
    <3>3. CASE /\ \E from : Kind(c) = "datacenter" /\ Return(c, from, acc[c])
               /\ ~Settable(DatacenterKey) \/ StoreDatacenters(c)
      <4>1. failures' = 0 => FoundNext(c, "datacenter")
        <5>1. CASE StoreDatacenters(c)
          BY <2>15, <3>1, <5>1, StoreKeeps DEF StoreDatacenters
        <5>2. CASE ~Settable(DatacenterKey)
          BY <2>17, <3>1, <5>2
        <5>. QED
          BY <3>3, <5>1, <5>2
      <4>. QED
        BY <2>14, <2>16, <3>1, <3>3, <4>1
    <3>. QED
      BY <2>20, <3>2, <3>3 DEF KeepDatacenters, StoreDatacenters, WalkDatacenters
  <2>21. CASE WalkEnds(c) \/ StoreWalk(c)
    <3>1. pc[c] \in Walking
      BY <2>21 DEF WalkEnds, StoreWalk, Walking
    <3>2. Kind(c) \in CachedKinds /\ Kind(c) \notin MachineKinds /\ todo[c] # << >>
      BY <2>16, <3>1 DEF CachedKinds, MachineKinds
    <3>3. CASE todo' = todo
      BY <2>13, <3>3
    <3>4. CASE /\ \E from : Return(c, from, acc[c])
               /\ ~Settable(SetKey(Kind(c))) \/ StoreWalk(c)
      <4>1. failures' = 0 => FoundNext(c, Kind(c))
        <5>1. CASE StoreWalk(c)
          BY <2>15, <3>2, <5>1, StoreKeeps DEF StoreWalk
        <5>2. CASE ~Settable(SetKey(Kind(c)))
          BY <2>17, <3>2, <5>2
        <5>. QED
          BY <3>4, <5>1, <5>2
      <4>. QED
        BY <2>14, <3>2, <3>4, <4>1
    <3>. QED
      BY <2>21, <3>2, <3>3, <3>4 DEF WalkEnds, StoreWalk
  <2>22. ASSUME NEW ok \in BOOLEAN, GetPolicies(c, ok) PROVE Filled(c)'
    <3>1. ok
      BY <1>2, <2>22 DEF GetPolicies, Outcome, Filling
    <3>. QED
      BY <2>13, <2>22, <3>1 DEF GetPolicies
  <2>23. ASSUME NEW ok \in BOOLEAN, ListNext(c, ok) PROVE Filled(c)'
    BY <2>13, <2>23 DEF ListNext
  <2>24. CASE MakeTicker(c) \/ KeepTicker(c) \/ StoreTicker(c)
    BY <2>13, <2>24 DEF MakeTicker, KeepTicker, StoreTicker
  <2>. QED
    BY <1>2, <2>2, <2>7, <2>18, <2>19, <2>20, <2>21, <2>22, <2>23, <2>24, <2>26 DEF Step
<1>3. CASE Change
  <2>1. PICK w \in Inventories :
          /\ since' = [k \in CachedKinds |-> since[k] \cup {w}]
          /\ seen' = [c \in Calls |-> IF seen[c] = {} THEN {} ELSE seen[c] \cup {w}]
    BY <1>3 DEF Change
  <2>2. UNCHANGED <<pc, op, todo, cache, late, disturbed, failures>>
    BY <1>3, <2>1 DEF Change, local
  <2>3. ASSUME NEW c \in Calls, Filling(c)' PROVE Filled(c)'
    <3>1. Filling(c) /\ Filled(c)
      BY <2>2, <2>3, FillParts DEF Filling
    <3>2. present \in seen[c]
      BY <3>1 DEF Filling, PlacesInv, Placed
    <3>3. seen[c] \subseteq seen'[c] /\ \A k \in CachedKinds : since'[k] \subseteq seen'[c]
      BY <2>1, <3>1, <3>2 DEF Filled
    <3>. QED
      BY <1>0, <2>2, <3>1, <3>3, FilledStays DEF LocalType
  <2>. QED
    BY <2>3, FillParts
<1>4. CASE UNCHANGED vars
  <2>1. UNCHANGED <<pc, op, todo, cache, late, disturbed, failures, since, seen>>
    BY <1>4 DEF vars, vcenter, local, history
  <2>2. ASSUME NEW c \in Calls, Filling(c)' PROVE Filled(c)'
    <3>1. Filling(c) /\ Filled(c) /\ todo[c] \in Seq(CachedKinds)
      BY <1>0, <2>1, <2>2, FillParts DEF Filling, LocalType
    <3>. QED
      BY <1>0, <2>1, <3>1, FilledStays DEF Filled
  <2>. QED
    BY <2>2, FillParts
<1>. QED
  BY <1>1, <1>2, <1>3, <1>4, FillParts DEF Next, Quiet

-----------------------------------------------------------------------------
(* The invariant and what it says of every run.                            *)

LEMMA CacheSystem == Spec => [](TypeOK /\ CacheSystemInv)
<1>1. Init => TypeOK /\ CacheSystemInv
  BY TypeInit, PlacesInit, CacheInit, ReadInit, FetchInit, DatacentersInit, FillInit, AnswersInit,
     TickerInit DEF CacheSystemInv
<1>2. TypeOK /\ CacheSystemInv /\ [Next]_vars => TypeOK' /\ CacheSystemInv'
  BY TypeStep, PlacesStep, CacheStep, ReadStep, FetchStep, DatacentersStep, FillStep, AnswersStep,
     TickerStep DEF CacheSystemInv
<1>. QED
  BY <1>1, <1>2, PTL DEF Spec

\* However requests, cleans, fills and changes of the inventory interleave, the
\* cache holds lists under its keys and each request what its operation needs
\* (vsphere/cache, vsphere/vcenter.go).
THEOREM CacheTypeCorrect == Spec => []TypeOK
  BY CacheSystem, PTL

\* After a clean no list from before it is found, whatever ran beside it: a
\* cached list tells of each datacenter what vCenter had there at some moment
\* since its kind was cleaned (vc_cache.go, Clean and CleanAll).
THEOREM CleansAreFelt == Spec => []CleanIsFelt
<1>1. TypeOK /\ CacheSystemInv => CleanIsFelt
  BY DEF CacheSystemInv, CacheInv, CleanIsFelt, Sure
<1>. QED
  BY <1>1, CacheSystem, PTL

\* Both implementations of a query, from the cache (queryXFromCache) and from
\* vCenter (getXByY), answer with the same objects, whatever is asked and
\* whatever vCenter holds.
THEOREM ImplementationsAgree == Spec => []CachedAnswersAgree
<1>1. Disagreements = {}
  <2>1. \A e \in (CachedKinds \ {"osfamily"}) \X Spellings \X Probes \X Inventories :
          ~Disagree(e[1], e[2], e[3], e[4])
    BY NoneDisagree, CacheAssumption
  <2>. QED
    BY <2>1 DEF Disagreements
<1>2. CachedAnswersAgree
  BY <1>1 DEF CachedAnswersAgree
<1>. QED
  BY <1>2, PTL

\* A query answers with objects that meet what was asked, and with all of them
\* when no call of vCenter failed, whether the cache, vCenter or a walk answers.
THEOREM AnswersAreFit == Spec => []AnswersFit
<1>1. TypeOK /\ CacheSystemInv => AnswersFit
  BY DEF CacheSystemInv
<1>. QED
  BY <1>1, CacheSystem, PTL

\* What CreateCache has filled is found by the queries, whoever else fills the cache
\* at the same time: it is stored where it is looked for (vc_cache.go, vcenter.go).
THEOREM FilledServes == Spec => []FilledIsFound
<1>1. TypeOK /\ CacheSystemInv => FilledIsFound
  <2>. SUFFICES ASSUME TypeOK, CacheSystemInv, NEW c \in Calls, op[c].does = "create",
                       pc[c] = "done", c \notin disturbed, failures = 0, NEW i \in DOMAIN FillKinds
                PROVE  Found(c, FillKinds[i])
    BY DEF FilledIsFound
  <2>1. todo[c] = << >>
    BY DEF CacheSystemInv, PlacesInv, Placed
  <2>2. Filled(c)
    BY FillParts DEF CacheSystemInv, Filling
  <2>3. Len(FillKinds) \in Nat /\ DOMAIN FillKinds = 1..Len(FillKinds) /\ Len(<< >>) = 0
    BY CacheAssumption
  <2>4. i \in 1..(Len(FillKinds) - Len(todo[c]))
    BY <2>1, <2>3
  <2>. QED
    BY <2>2, <2>4 DEF Filled
<1>. QED
  BY <1>1, CacheSystem, PTL

\* Each ticker that runs is the one StopTicker finds, but for those of calls that
\* had both made one before either was stored; and while any runs, StopTicker finds
\* one (CreateCacheTicker and StopTicker, vcenter.go).
THEOREM TickersServe == Spec => []TickersAreFound
<1>1. TypeOK /\ CacheSystemInv => TickersAreFound
  BY DEF CacheSystemInv, TickerInv
<1>. QED
  BY <1>1, CacheSystem, PTL
=============================================================================
