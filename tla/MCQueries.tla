----------------------------- MODULE MCQueries -----------------------------
(* Two datacenters with a cluster each, in one of them a standalone host,   *)
(* too; folders of which one holds machines; a network of the one           *)
(* datacenter and the whole of the other may come and go.                   *)
EXTENDS VCCache, TLC

MCObjects == {"d1", "d2", "c1", "c2", "r1", "p1", "p2", "p3", "h1", "h2", "vm1",
              "t1", "f1", "f2", "f3", "n1", "n2", "n3", "ds1", "g1", "s1"}
MCType == [o \in MCObjects |->
    CASE o \in {"d1", "d2"} -> "datacenter"   [] o \in {"c1", "c2"} -> "cluster"
      [] o \in {"p1", "p2", "p3"} -> "pool"   [] o \in {"h1", "h2"} -> "host"
      [] o \in {"f1", "f2", "f3"} -> "folder" [] o \in {"n1", "n2", "n3"} -> "network"
      [] o = "vm1" -> "machine"               [] o = "t1" -> "template"
      [] o = "g1" -> "osfamily"               [] o = "s1" -> "policy"
      [] o = "ds1" -> "datastore"             [] o = "r1" -> "compute"]
MCAbove == [o \in MCObjects |->
    CASE o \in {"c1", "n1", "n3", "f1", "g1", "ds1"} -> {"d1"}
      [] o \in {"c2", "n2", "r1", "f3"} -> {"d2"}
      [] o \in {"p1", "h1"} -> {"d1", "c1"}
      [] o = "p2" -> {"d2", "c2"}
      [] o \in {"p3", "h2"} -> {"d2", "r1"}
      [] o \in {"f2", "vm1", "t1"} -> {"d1", "f1"}
      [] OTHER -> {}]
MCOwner == [o \in MCObjects |->
    CASE o \in {"p1", "h1"} -> "c1" [] o = "p2" -> "c2"
      [] o \in {"p3", "h2"} -> "r1"  [] OTHER -> "None"]
MCVmFolder == [d \in {"d1", "d2"} |-> IF d = "d1" THEN "f1" ELSE "f3"]
MCInventories == {MCObjects,
                  {o \in MCObjects \ {"d2", "n3"} : "d2" \notin MCAbove[o]}}

Params(i, d, c, h, f) == [ids |-> i, dc |-> d, cluster |-> c, host |-> h, folder |-> f]
MCProbes ==
    {Params(i, d, c, h, f) : i \in {{}, {"f1", "d2"}} \cup {{o} : o \in MCObjects},
                             d \in {"None", "d1", "d2"}, c \in {"None", "c1", "c2"},
                             h \in {"None", "r1"}, f \in {"None", "f1"}}

All == Params({}, "None", "None", "None", "None")
ByDc == [All EXCEPT !.dc = "d1"]
MCAsked == {<<"network", "field", ByDc>>,
            <<"pool", "field", ByDc>>, <<"pool", "field", [All EXCEPT !.ids = {"p1"}]>>,
            <<"network", "field", [All EXCEPT !.ids = {"n1", "n3"}]>>,
            <<"policy", "field", All>>,
            <<"machine", "field", [All EXCEPT !.folder = "f1"]>>,
            <<"machine", "field", All>>}
MCWarmed == {{"datacenter", "network"}, {"pool", "cluster"}, {"folder", "host"},
             {"datastore", "policy"}}
MCCleanLists == {<<"network", "datacenter">>, <<"pool">>}
MCNone == {}
MCFillDatacenters == <<"datacenter">>
MCFill == <<"datacenter", "policy", "osfamily">>

CallSymmetry == Permutations(Calls)
=============================================================================
