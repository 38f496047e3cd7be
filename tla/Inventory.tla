----------------------------- MODULE Inventory -----------------------------
(***************************************************************************)
(* The queries of the inventory: how a handler reads its parameters        *)
(* (api/v1), what it answers from vCenter (vsphere, helper) and what it    *)
(* answers from a cached list (vsphere, vsphere/cache).  Module VCCache    *)
(* runs them; this module has no variables.                                *)
(*                                                                         *)
(* An inventory is the set w of the objects vCenter has.  A list is a set: *)
(* its order and repetitions are left out, nil and the empty list are {}.  *)
(***************************************************************************)
EXTENDS Naturals, FiniteSets

CONSTANTS
    Objects,    \* whatever vCenter may hold
    Type,       \* Type[o]: its kind
    Above,      \* Above[o]: all containers o is in, datacenter included
    Owner,      \* Owner[o]: the compute resource of a host or a pool, or None
    VmFolder,   \* VmFolder[d]: the root of the machine folders of d
    None        \* the empty string of an absent id

CachedKinds == {"datacenter", "datastore", "pool", "folder", "cluster", "host",
                "network", "policy", "osfamily"}
MachineKinds == {"machine", "template"}
Kinds == CachedKinds \cup MachineKinds

ASSUME InventoryAssumption ==
    /\ Type \in [Objects -> Kinds \cup {"compute"}]
    /\ Above \in [Objects -> SUBSET Objects]
    /\ Owner \in [Objects -> Objects \cup {None}]
    /\ VmFolder \in [{o \in Objects : Type[o] = "datacenter"} -> Objects]
    /\ None \notin Objects

\* How vCenter nests its objects: what the walks list by datacenter is in exactly
\* one, and a host or a pool is in the cluster that owns it and in no other.
ASSUME TopologyAssumption ==
    /\ \A o \in Objects : Type[o] \in Kinds \ {"datacenter", "policy", "osfamily"} =>
          \E d \in Objects : {a \in Above[o] : Type[a] = "datacenter"} = {d}
    /\ \A o, a \in Objects : Type[o] \in {"host", "pool"} /\ Type[a] = "cluster" =>
          (a \in Above[o] <=> Owner[o] = a)

\* What the helper packages ask of vCenter: the objects of a type in a scope,
\* at any depth, and the objects that have a type and one of some ids.
Retrieve(type, scope, w) ==
    {o \in w : Type[o] = type /\ scope \in Above[o]}
Find(type, ids, w) == {o \in w \cap ids : Type[o] = type}

\* Resource pools of a virtual app are left out by retrieve; an app is not an
\* object here.
DatacentersOf(w) == {o \in w : Type[o] = "datacenter"}
ClustersIn(d, w)   == Retrieve("cluster", d, w)
DatastoresIn(d, w) == Retrieve("datastore", d, w)
NetworksIn(d, w)   == Retrieve("network", d, w)
FoldersIn(d, w)    == Retrieve("folder", d, w)
VMFoldersIn(d, w)  == Retrieve("folder", VmFolder[d], w)
HostsIn(s, w)      == Retrieve("host", s, w)
PoolsIn(s, w)      == Retrieve("pool", s, w)
FamiliesIn(d, w)   == Retrieve("osfamily", d, w)
PoliciesOf(w)      == {o \in w : Type[o] = "policy"}
MachinesIn(type, s, w) == Retrieve(type, s, w)

\* The entry of an answer: what a client or the cache is told of an object.
Info(o, d) == [id |-> o, dc |-> d, cluster |-> None, host |-> None]
Infos(os, d) == {Info(o, d) : o \in os}

OwnedBy(o, type) ==
    IF Owner[o] # None /\ Type[Owner[o]] = type THEN Owner[o] ELSE None
HostInfo(o, d) == [Info(o, d) EXCEPT !.cluster = OwnedBy(o, "cluster")]
PoolInfo(o, d) == [Info(o, d) EXCEPT !.cluster = OwnedBy(o, "cluster"),
                                     !.host = OwnedBy(o, "compute")]

Ids(list) == {i.id : i \in list}

-----------------------------------------------------------------------------
(* The parameters of a query, and what the handlers read of them.          *)

NoQuery == [ids |-> {}, dc |-> None, cluster |-> None, host |-> None,
            folder |-> None]
QueryParams == [ids : SUBSET Objects, dc : Objects \cup {None},
                cluster : Objects \cup {None}, host : Objects \cup {None},
                folder : Objects \cup {None}]

\* A GET is bound by the tag "form", and by the name of the field if there is
\* none.  A client spells a parameter as documented or as the field.
Spellings == {"documented", "field"}
Bound(tagged, spelling, q) ==
    IF tagged = (spelling = "documented") THEN q ELSE NoQuery

BindDatacenters(s, q) == [NoQuery EXCEPT !.ids = Bound(TRUE, s, q).ids]
BindClusters(s, q)    == [NoQuery EXCEPT !.ids = Bound(TRUE, s, q).ids,
                                         !.dc = Bound(TRUE, s, q).dc]
BindDatastores(s, q)  == [NoQuery EXCEPT !.ids = Bound(TRUE, s, q).ids,
                                         !.dc = Bound(TRUE, s, q).dc]
BindNetworks(s, q)    == [NoQuery EXCEPT !.ids = Bound(FALSE, s, q).ids,
                                         !.dc = Bound(FALSE, s, q).dc]
BindFolders(s, q)     == [NoQuery EXCEPT !.ids = Bound(TRUE, s, q).ids,
                                         !.dc = Bound(TRUE, s, q).dc,
                                         !.folder = Bound(TRUE, s, q).folder]
BindHosts(s, q)       == [NoQuery EXCEPT !.ids = Bound(TRUE, s, q).ids,
                                         !.dc = Bound(TRUE, s, q).dc,
                                         !.cluster = Bound(TRUE, s, q).cluster]
BindPools(s, q)       == [Bound(FALSE, s, q) EXCEPT !.folder = None]
BindPolicies(s, q)    == NoQuery
BindMachines(s, q)    == Bound(FALSE, s, q)
BindTemplates(s, q)   == [Bound(TRUE, s, q) EXCEPT !.cluster = None,
                                                   !.host = None]

Bind(kind, s, q) ==
    CASE kind = "datacenter" -> BindDatacenters(s, q)
      [] kind = "cluster"    -> BindClusters(s, q)
      [] kind = "datastore"  -> BindDatastores(s, q)
      [] kind = "network"    -> BindNetworks(s, q)
      [] kind = "folder"     -> BindFolders(s, q)
      [] kind = "host"       -> BindHosts(s, q)
      [] kind = "pool"       -> BindPools(s, q)
      [] kind = "policy"     -> BindPolicies(s, q)
      [] kind = "machine"    -> BindMachines(s, q)
      [] kind = "template"   -> BindTemplates(s, q)

-----------------------------------------------------------------------------
(* Answers from vCenter to a query that names something.  A query that     *)
(* names nothing walks the datacenters, which is the loop of VCCache.      *)

Walks(kind, q) ==
    CASE kind \in {"policy", "osfamily"} -> TRUE
      [] kind = "host"           -> q.ids = {} /\ q.cluster = None /\ q.dc = None
      [] kind = "pool"           -> q.ids = {} /\ q.cluster = None
                                      /\ q.host = None /\ q.dc = None
      [] kind \in MachineKinds   -> q.ids = {} /\ q.folder = None /\ q.dc = None
      [] OTHER                   -> q.ids = {} /\ q.dc = None /\ q.folder = None

\* An answer is a list, or the panic that the error handler turns into a 500.
Answer(list) == [panic |-> FALSE, list |-> list]
Panic == [panic |-> TRUE, list |-> {}]

QueryDatacenters(q, w) == Answer(Infos(Find("datacenter", q.ids, w), None))

QueryClusters(q, w) ==
    Answer(IF q.ids # {} THEN Infos(Find("cluster", q.ids, w), None)
                         ELSE Infos(ClustersIn(q.dc, w), q.dc))

QueryDatastores(q, w) ==
    Answer(IF q.ids # {} THEN Infos(Find("datastore", q.ids, w), None)
                         ELSE Infos(DatastoresIn(q.dc, w), q.dc))

QueryNetworks(q, w) ==
    Answer(IF q.ids # {} THEN Infos(Find("network", q.ids, w), None)
                         ELSE Infos(NetworksIn(q.dc, w), q.dc))

QueryFolders(q, w) ==
    Answer(CASE q.ids # {}       -> Infos(Find("folder", q.ids, w), None)
             [] q.ids = {} /\ q.folder # None
                                 -> Infos(Retrieve("folder", q.folder, w), None)
             [] OTHER            -> Infos(VMFoldersIn(q.dc, w), q.dc))

QueryHosts(q, w) ==
    Answer(CASE q.ids # {} -> {HostInfo(o, None) : o \in Find("host", q.ids, w)}
             [] q.ids = {} /\ q.cluster # None
                           -> {HostInfo(o, None) : o \in HostsIn(q.cluster, w)}
             [] OTHER      -> {HostInfo(o, q.dc) : o \in HostsIn(q.dc, w)})

\* resourcepool.FindProps returns nil when it has read the properties, so that
\* a pool that exists is taken for one that does not, and the look-up ends.
PoolsByIDs(q, w) == Answer({})

\* When it has not read them, it returns a pool without any, whose parent is
\* dereferenced.
PoolsUnread(q, w) ==
    IF Find("pool", q.ids, w) = {} THEN {Answer({})} ELSE {Answer({}), Panic}

QueryPools(q, w) ==
    CASE q.ids # {} -> PoolsByIDs(q, w)
      [] q.ids = {} /\ (q.cluster # None \/ q.host # None) ->
           Answer({PoolInfo(o, None) : o \in PoolsIn(q.cluster, w)
                                              \cup PoolsIn(q.host, w)})
      [] OTHER -> Answer({PoolInfo(o, q.dc) : o \in PoolsIn(q.dc, w)})

\* By ids: folders are looked up, and a folder is no machine.
MachinesByIDs(q, w) ==
    IF Find("folder", q.ids, w) = {} THEN Answer({}) ELSE Panic

\* By folder: the properties of templates are read, and the guest of a machine,
\* which is not among them, is dereferenced.
QueryMachines(q, w) ==
    CASE q.dc # None -> Answer(Infos(MachinesIn("machine", q.dc, w), None))
      [] q.dc = None /\ q.folder # None ->
           IF MachinesIn("machine", q.folder, w) = {} THEN Answer({}) ELSE Panic
      [] OTHER -> MachinesByIDs(q, w)

QueryTemplates(q, w) ==
    CASE q.dc # None -> Answer(Infos(MachinesIn("template", q.dc, w), None))
      [] q.dc = None /\ q.folder # None ->
           Answer(Infos(MachinesIn("template", q.folder, w), None))
      [] OTHER -> MachinesByIDs(q, w)

QueryVCenter(kind, q, w) ==
    CASE kind = "datacenter" -> QueryDatacenters(q, w)
      [] kind = "cluster"    -> QueryClusters(q, w)
      [] kind = "datastore"  -> QueryDatastores(q, w)
      [] kind = "network"    -> QueryNetworks(q, w)
      [] kind = "folder"     -> QueryFolders(q, w)
      [] kind = "host"       -> QueryHosts(q, w)
      [] kind = "pool"       -> QueryPools(q, w)
      [] kind = "machine"    -> QueryMachines(q, w)
      [] kind = "template"   -> QueryTemplates(q, w)

\* What is asked of vCenter one after the other: objects by their ids, and pools
\* by cluster and by host.  The ids of machines are looked up as folders.
Turns(kind, q) ==
    CASE kind = "pool" -> IF q.ids = {} THEN {q.cluster, q.host} \ {None} ELSE {}
      [] kind = "datacenter" -> {}
      [] kind \in MachineKinds -> IF q.dc = None /\ q.folder = None THEN q.ids ELSE {}
      [] OTHER -> q.ids

\* One such question.
Told(kind, o, w) ==
    CASE kind = "pool" -> {PoolInfo(p, None) : p \in PoolsIn(o, w)}
      [] kind = "host" -> {HostInfo(h, None) : h \in Find("host", {o}, w)}
      [] kind \in MachineKinds -> Infos(Find("folder", {o}, w), None)
      [] OTHER -> Infos(Find(kind, {o}, w), None)

\* The end of the questions: a folder is no machine, and its machine is
\* dereferenced.
Conclude(kind, list) == IF kind \in MachineKinds /\ list # {} THEN Panic ELSE Answer(list)

\* One turn of the walk: what a datacenter adds to the list of a kind.
Listed(kind, d, w) ==
    CASE kind = "cluster"   -> Infos(ClustersIn(d, w), d)
      [] kind = "datastore" -> Infos(DatastoresIn(d, w), d)
      [] kind = "network"   -> Infos(NetworksIn(d, w), d)
      [] kind = "folder"    -> Infos(FoldersIn(d, w), d)
      [] kind = "host"      -> {HostInfo(o, d) : o \in HostsIn(d, w)}
      [] kind = "pool"      -> {PoolInfo(o, d) : o \in PoolsIn(d, w)}
      [] kind = "osfamily"  -> Infos(FamiliesIn(d, w), None)
      [] kind \in MachineKinds -> Infos(MachinesIn(kind, d, w), d)

\* The lists that no walk makes.
Whole(kind, w) ==
    Infos(IF kind = "datacenter" THEN DatacentersOf(w) ELSE PoliciesOf(w), None)

\* What a walk returns that no failure and no change disturbs.
Walked(kind, w) ==
    IF kind \in {"datacenter", "policy"} THEN Whole(kind, w)
    ELSE UNION {Listed(kind, d, w) : d \in DatacentersOf(w)}

-----------------------------------------------------------------------------
(* Answers from a cached list.                                             *)

WithIDs(q, list) == {i \in list : i.id \in q.ids}
WithDatacenter(q, list) ==
    IF q.dc # None THEN {i \in list : i.dc = q.dc} ELSE list

DatacentersFromCache(q, list) ==
    IF q.ids # {} THEN WithIDs(q, list) ELSE list
ClustersFromCache(q, list) ==
    IF q.ids # {} THEN WithIDs(q, list) ELSE WithDatacenter(q, list)
DatastoresFromCache(q, list) ==
    IF q.ids # {} THEN WithIDs(q, list) ELSE WithDatacenter(q, list)
\* Mutant: the datacenter is not looked at.
NetworksFromCacheAnywhere(q, list) ==
    IF q.ids # {} THEN WithIDs(q, list) ELSE list
NetworksFromCache(q, list) ==
    IF q.ids # {} THEN WithIDs(q, list) ELSE WithDatacenter(q, list)

\* The parent of a folder is never filled in, so none has q.folder for parent.
FoldersFromCache(q, list) ==
    CASE q.ids # {} -> WithIDs(q, list)
      [] q.ids = {} /\ q.folder # None -> {}
      [] OTHER      -> WithDatacenter(q, list)

HostsFromCache(q, list) ==
    CASE q.ids # {} -> WithIDs(q, list)
      [] q.ids = {} /\ q.cluster # None -> {i \in list : i.cluster = q.cluster}
      [] OTHER      -> WithDatacenter(q, list)

\* Mutant: a pool of no cluster is in every cluster, whatever is asked.
PoolsFromCacheAnywhere(q, list) ==
    IF q.ids # {} THEN WithIDs(q, list) ELSE {i \in list : i.cluster = q.cluster}
                                               \cup {i \in list : i.host = q.host}

\* An id that the query does not give equals that of every pool without one.
PoolsFromCache(q, list) ==
    CASE q.ids # {} -> WithIDs(q, list)
      [] q.ids = {} /\ (q.cluster # None \/ q.host # None) ->
           {i \in list : i.cluster = q.cluster \/ i.host = q.host}
      [] OTHER      -> WithDatacenter(q, list)

QueryCache(kind, q, list) ==
    CASE kind = "datacenter" -> DatacentersFromCache(q, list)
      [] kind = "cluster"    -> ClustersFromCache(q, list)
      [] kind = "datastore"  -> DatastoresFromCache(q, list)
      [] kind = "network"    -> NetworksFromCache(q, list)
      [] kind = "folder"     -> FoldersFromCache(q, list)
      [] kind = "host"       -> HostsFromCache(q, list)
      [] kind = "pool"       -> PoolsFromCache(q, list)
      [] kind = "policy"     -> list
      [] kind = "osfamily"   -> list
      [] kind \in MachineKinds -> {}

-----------------------------------------------------------------------------
(* What the documentation of the API promises: the parameters restrict the *)
(* answer.                                                                 *)

Meets(kind, q, o) ==
    /\ Type[o] = kind
    /\ q.ids # {} => o \in q.ids
    /\ \A scope \in {q.dc, q.cluster, q.host, q.folder} \ {None} :
         q.ids = {} => scope \in Above[o]
Meeting(kind, q, w) == {o \in w : Meets(kind, q, o)}
=============================================================================
