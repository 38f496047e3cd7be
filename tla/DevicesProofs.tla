--------------------------- MODULE DevicesProofs ---------------------------
(* Proofs about Devices: however many closures change the devices of a machine *)
(* at once, a closure moves only the disks it has added, what it reports is so,*)
(* and only what was asked changes.                                            *)
EXTENDS Devices, FiniteSetTheorems, TLAPS

-----------------------------------------------------------------------------
(* The first free numbers.                                                   *)

\* A set of finite sets has a smallest member.
LEMMA SmallestSet ==
    ASSUME NEW W, W # {}, \A U \in W : IsFiniteSet(U)
    PROVE  \E V \in W : \A U \in W : ~(U \subseteq V /\ U # V)
<1> DEFINE T == UNION W
<1>1. IsWellFoundedOn(StrictSubsetOrdering(T), FiniteSubsetsOf(T))
  BY FS_StrictSubsetOrderingWellFounded
<1>2. W \subseteq FiniteSubsetsOf(T)
  BY DEF FiniteSubsetsOf
<1>3. PICK V \in W : \A U \in W : <<U, V>> \notin StrictSubsetOrdering(T)
  <2> HIDE DEF T
  <2> QED  BY <1>1, <1>2, WFMin
<1> QED
  BY <1>3 DEF StrictSubsetOrdering

LEMMA SmallestOf ==
    ASSUME NEW T \in SUBSET Nat, T # {}
    PROVE  \E m \in T : \A n \in T : m <= n
<1> DEFINE Below(n) == {m \in T : m < n}
           W == {Below(n) : n \in T}
<1>1. \A n \in T : IsFiniteSet(Below(n))
  <2> TAKE n \in T
  <2>1. Below(n) \in SUBSET Nat /\ n \in Nat
    OBVIOUS
  <2>2. \A m \in Below(n) : m <= n
    OBVIOUS
  <2> QED
    BY <2>1, <2>2, FS_BoundedSetOfNaturals
<1>2. PICK m \in T : \A n \in T : ~(Below(n) \subseteq Below(m) /\ Below(n) # Below(m))
  <2>1. W # {} /\ \A U \in W : IsFiniteSet(U)
    BY <1>1
  <2>2. \E V \in W : \A U \in W : ~(U \subseteq V /\ U # V)
    <3> HIDE DEF W, Below
    <3> QED  BY <2>1, SmallestSet
  <2>3. PICK m \in T : \A U \in W : ~(U \subseteq Below(m) /\ U # Below(m))
    BY <2>2
  <2>4. \A n \in T : Below(n) \in W
    OBVIOUS
  <2> HIDE DEF W, Below
  <2> QED  BY <2>3, <2>4
<1>3. ASSUME NEW n \in T, n < m
      PROVE  FALSE
  <2>1. \A x : x \in Below(n) => x \in Below(m)
    BY <1>3
  <2>2. n \in Below(m) /\ n \notin Below(n)
    BY <1>3
  <2> QED
    BY <1>2, <2>1, <2>2
<1>4. \A n \in T : n \in Nat /\ m \in Nat
  OBVIOUS
<1> QED
  BY <1>3, <1>4

\* A finite set of numbers has a largest one.
LEMMA LargestOf ==
    ASSUME NEW T \in SUBSET Nat, T # {}, IsFiniteSet(T)
    PROVE  \E m \in T : \A n \in T : n <= m
<1> DEFINE Above(n) == {m \in T : m > n}
           W == {Above(n) : n \in T}
<1>1. \A n \in T : IsFiniteSet(Above(n))
  <2> TAKE n \in T
  <2>1. Above(n) \in SUBSET T
    OBVIOUS
  <2> QED
    BY <2>1, FS_Subset
<1>2. PICK m \in T : \A n \in T : ~(Above(n) \subseteq Above(m) /\ Above(n) # Above(m))
  <2>1. W # {} /\ \A U \in W : IsFiniteSet(U)
    BY <1>1
  <2>2. \E V \in W : \A U \in W : ~(U \subseteq V /\ U # V)
    <3> HIDE DEF W, Above
    <3> QED  BY <2>1, SmallestSet
  <2>3. PICK m \in T : \A U \in W : ~(U \subseteq Above(m) /\ U # Above(m))
    BY <2>2
  <2>4. \A n \in T : Above(n) \in W
    OBVIOUS
  <2> HIDE DEF W, Above
  <2> QED  BY <2>3, <2>4
<1>3. ASSUME NEW n \in T, n > m
      PROVE  FALSE
  <2>1. \A x : x \in Above(n) => x \in Above(m)
    BY <1>3
  <2>2. n \in Above(m) /\ n \notin Above(n)
    BY <1>3
  <2> QED
    BY <1>2, <2>1, <2>2
<1>4. \A n \in T : n \in Nat /\ m \in Nat
  OBVIOUS
<1> QED
  BY <1>3, <1>4

\* What an interval has outside a finite set is finite.
LEMMA UnusedFinite ==
    ASSUME NEW a \in Nat, NEW b \in Nat, NEW used
    PROVE  IsFiniteSet((a..b) \ used) /\ Cardinality((a..b) \ used) \in Nat
<1>1. IsFiniteSet(a..b)
  BY FS_Interval
<1>2. IsFiniteSet((a..b) \ used)
  BY <1>1, FS_Difference
<1> QED
  BY <1>2, FS_CardinalityType

\* An interval that is longer than a finite set by i has i numbers outside it.
LEMMA UnusedMany ==
    ASSUME NEW a \in Nat, NEW b \in Nat, NEW used, IsFiniteSet(used), NEW i \in Nat,
           b = a + Cardinality(used) + i
    PROVE  Cardinality((a..b) \ used) > i
<1>1. Cardinality(used) \in Nat
  BY FS_CardinalityType
<1>2. IsFiniteSet(a..b)
  BY FS_Interval
<1>3. Cardinality(a..b) = b - a + 1
  <2>1. a \in Int /\ b \in Int
    OBVIOUS
  <2>2. Cardinality(a..b) = IF a > b THEN 0 ELSE b - a + 1
    BY <2>1, FS_Interval
  <2> QED  BY <1>1, <2>2
<1>4. IsFiniteSet((a..b) \cap used) /\ Cardinality((a..b) \cap used) <= Cardinality(used)
  BY FS_Intersection
<1>5. Cardinality((a..b) \cap used) \in Nat
  BY <1>4, FS_CardinalityType
<1>6. Cardinality((a..b) \ used) = Cardinality(a..b) - Cardinality((a..b) \cap used)
  BY <1>2, FS_Difference
<1> QED
  BY <1>1, <1>3, <1>4, <1>5, <1>6

\* The i-th number that is not in use exists, and is one.
LEMMA FreeIs ==
    ASSUME NEW start \in Nat, NEW used \in SUBSET Nat, IsFiniteSet(used), NEW i \in Nat \ {0}
    PROVE  /\ Free(start, used, i) \in Nat
           /\ Free(start, used, i) >= start
           /\ Free(start, used, i) \notin used
           /\ Cardinality((start..Free(start, used, i)) \ used) = i
<1> DEFINE last == start + Cardinality(used) + i
           Unused(u) == (start..u) \ used
           T == {u \in start..last : Cardinality(Unused(u)) >= i}
<1>1. Cardinality(used) \in Nat /\ last \in Nat /\ last >= start
  BY FS_CardinalityType
<1>2. \A u \in Nat : IsFiniteSet(Unused(u)) /\ Cardinality(Unused(u)) \in Nat
  BY UnusedFinite
<1>3. last \in T
  <2>1. Cardinality(Unused(last)) > i
    BY <1>1, UnusedMany
  <2>2. Cardinality(Unused(last)) \in Nat
    BY <1>1, <1>2
  <2> HIDE DEF Unused
  <2> QED
    BY <1>1, <2>1, <2>2
<1> HIDE DEF last
<1>4. T \in SUBSET Nat
  BY <1>1
<1>5. PICK u \in T : \A w \in T : u <= w
  <2> HIDE DEF T
  <2> QED
    BY <1>3, <1>4, SmallestOf
<1>6. u \in Nat /\ u >= start /\ u <= last /\ Cardinality(Unused(u)) >= i
  BY <1>1, <1>5
<1>7. Cardinality(Unused(u) \ {u}) < i
  <2>1. CASE u = start
    <3>1. Unused(u) \ {u} = {}
      BY <1>6, <2>1
    <3> QED
      BY <3>1, FS_EmptySet
  <2>2. CASE u > start
    <3>1. Unused(u) \ {u} = Unused(u - 1)
      BY <1>6, <2>2
    <3>2. u - 1 \in start..last /\ u - 1 \in Nat /\ ~(u <= u - 1)
      BY <1>1, <1>6, <2>2
    <3>3. Cardinality(Unused(u - 1)) \in Nat
      BY <1>2, <3>2
    <3>4. ~(Cardinality(Unused(u - 1)) >= i)
      BY <1>5, <3>2
    <3> HIDE DEF Unused
    <3> QED
      BY <3>1, <3>3, <3>4
  <2> QED
    BY <1>6, <2>1, <2>2
<1>8. u \in Unused(u) /\ Cardinality(Unused(u)) = i
  <2>1. IsFiniteSet(Unused(u)) /\ Cardinality(Unused(u)) \in Nat
    BY <1>2, <1>6
  <2> HIDE DEF Unused
  <2>2. Cardinality(Unused(u) \ {u}) =
          IF u \in Unused(u) THEN Cardinality(Unused(u)) - 1 ELSE Cardinality(Unused(u))
    BY <2>1, FS_RemoveElement
  <2> QED
    BY <1>6, <1>7, <2>1, <2>2
<1>9. \E v \in start..last : v \notin used /\ Cardinality(Unused(v)) = i
  <2>1. u \in start..last /\ u \notin used
    BY <1>1, <1>6, <1>8
  <2> HIDE DEF Unused
  <2> QED  BY <1>8, <2>1
<1>10. Free(start, used, i) =
         CHOOSE v \in start..last : v \notin used /\ Cardinality(Unused(v)) = i
  BY DEF Free, last
<1>11. /\ Free(start, used, i) \in start..last /\ Free(start, used, i) \notin used
       /\ Cardinality(Unused(Free(start, used, i))) = i
  <2> HIDE DEF Unused
  <2> QED  BY <1>9, <1>10
<1> QED
  BY <1>1, <1>11

\* Below the first free number all are in use.
LEMMA FreeFirst ==
    ASSUME NEW start \in Nat, NEW used \in SUBSET Nat, IsFiniteSet(used),
           NEW w \in Nat, w >= start, w \notin used
    PROVE  w >= Free(start, used, 1)
<1> DEFINE u == Free(start, used, 1)
<1>1. u \in Nat /\ u >= start /\ u \notin used /\ Cardinality((start..u) \ used) = 1
  BY FreeIs
<1> HIDE DEF u
<1>2. IsFiniteSet((start..u) \ used)
  BY <1>1, UnusedFinite
<1>3. PICK x : (start..u) \ used = {x}
  BY <1>1, <1>2, FS_Singleton
<1>4. ASSUME w < u
      PROVE  FALSE
  <2>1. w \in (start..u) \ used /\ u \in (start..u) \ used
    BY <1>1, <1>4
  <2> QED
    BY <1>1, <1>3, <1>4, <2>1
<1>5. w >= u
  BY <1>1, <1>4
<1> QED
  BY <1>5 DEF u

-----------------------------------------------------------------------------
(* What a request becomes.                                                   *)

LEMMA RequestTypes ==
    ASSUME NEW r \in Requests
    PROVE  /\ r.disks \in Seq(Names) /\ r.edits \in SUBSET Nat /\ r.cards \in Seq(Names)
           /\ r.moves \in SUBSET [key : Nat, net : Names] /\ r.removes \in SUBSET Nat
           /\ IsNic(r) => r.disks = << >>
  BY DevicesAssumption

\* The places of a list of devices are finitely many.
LEMMA UnitsFinite ==
    ASSUME NEW ds \in SUBSET DeviceSet, IsFiniteSet(ds)
    PROVE  {d.unit : d \in ds} \in SUBSET Nat /\ IsFiniteSet({d.unit : d \in ds})
<1> DEFINE U == {d.unit : d \in ds}
           f == [d \in ds |-> d.unit]
<1>1. U \in SUBSET Nat
  BY DEF DeviceSet
<1>2. f \in Surjection(ds, U)
  BY DEF Surjection
<1>3. IsFiniteSet(U)
  <2> HIDE DEF f, U
  <2> QED  BY <1>2, FS_Surjection
<1> QED
  BY <1>1, <1>3

LEMMA NumbersFinite ==
    ASSUME NEW ds \in SUBSET DeviceSet, IsFiniteSet(ds)
    PROVE  /\ {d.unit : d \in ds} \cup {7} \in SUBSET Nat
           /\ IsFiniteSet({d.unit : d \in ds} \cup {7})
<1> DEFINE U == {d.unit : d \in ds}
<1>1. U \in SUBSET Nat /\ IsFiniteSet(U)
  BY UnitsFinite
<1> HIDE DEF U
<1>2. U \cup {7} \in SUBSET Nat /\ IsFiniteSet(U \cup {7})
  BY <1>1, FS_AddElement
<1> QED
  BY <1>2 DEF U

LEMMA UsedFinite ==
    ASSUME NEW ds \in SUBSET DeviceSet, IsFiniteSet(ds), NEW ctrl
    PROVE  UsedOn(ds, ctrl) \in SUBSET Nat /\ IsFiniteSet(UsedOn(ds, ctrl))
<1> DEFINE on == {e \in ds : e.ctrl = ctrl}
<1>1. on \in SUBSET DeviceSet /\ IsFiniteSet(on)
  BY FS_Subset
<1> HIDE DEF on
<1>3. UsedOn(ds, ctrl) = {d.unit : d \in on} \cup {7}
  BY DEF UsedOn, on
<1> QED
  BY <1>1, <1>3, NumbersFinite

\* AssignController gives the first place of the controller that is free.
LEMMA AssignedIs ==
    ASSUME NEW ds \in SUBSET DeviceSet, IsFiniteSet(ds)
    PROVE  /\ assignController(ds) \in Nat
           /\ assignController(ds) \notin UsedOn(ds, DiskCtrl)
           /\ \A w \in Nat : w \notin UsedOn(ds, DiskCtrl) => w >= assignController(ds)
<1> DEFINE used == UsedOn(ds, DiskCtrl)
<1>1. used \in SUBSET Nat /\ IsFiniteSet(used) /\ 0 \in Nat /\ 1 \in Nat \ {0}
  BY UsedFinite
<1>2. assignController(ds) = Free(0, used, 1)
  BY DEF assignController
<1> HIDE DEF used
<1>3. Free(0, used, 1) \in Nat /\ Free(0, used, 1) \notin used
  BY <1>1, FreeIs
<1>4. \A w \in Nat : w \notin used => w >= Free(0, used, 1)
  BY <1>1, FreeFirst
<1> QED
  BY <1>2, <1>3, <1>4 DEF used

\* A controller that is not full has a place for it.
LEMMA RoomLeft ==
    ASSUME NEW ds \in SUBSET DeviceSet, IsFiniteSet(ds), NEW r, r.disks # << >>,
           ~AddFails(r, ds)
    PROVE  assignController(ds) <= MaxUnit
<1> DEFINE on == {d \in ds : d.ctrl = DiskCtrl}
           units == {d.unit : d \in on}
           used == UsedOn(ds, DiskCtrl)
           f == [d \in on |-> d.unit]
<1>1. IsFiniteSet(on) /\ Cardinality(on) \in Nat
  BY FS_Subset, FS_CardinalityType
<1>2. Cardinality(on) < MaxUnit
  BY <1>1, DevicesAssumption DEF AddFails
<1>3. IsFiniteSet(units) /\ Cardinality(units) <= Cardinality(on)
  <2>1. f \in Surjection(on, units)
    BY DEF Surjection
  <2> HIDE DEF f, units, on
  <2> QED  BY <1>1, <2>1, FS_Surjection
<1>4. used = units \cup {7}
  BY DEF UsedOn
<1> HIDE DEF units, on, used
<1>5. IsFiniteSet(used) /\ Cardinality(used) \in Nat /\ Cardinality(used) <= MaxUnit
  <2>1. /\ IsFiniteSet(used) /\ Cardinality(units) \in Nat
        /\ Cardinality(used) = IF 7 \in units THEN Cardinality(units) ELSE Cardinality(units) + 1
    BY <1>3, <1>4, FS_AddElement, FS_CardinalityType
  <2> QED  BY <1>1, <1>2, <1>3, <2>1, DevicesAssumption
<1>6. PICK w \in 0..Cardinality(used) : w \notin used
  <2>1. Cardinality((0..Cardinality(used)) \ used) > 0
    BY <1>5, UnusedMany
  <2>2. (0..Cardinality(used)) \ used # {}
    BY <2>1, FS_EmptySet
  <2> QED  BY <2>2
<1>7. w \in Nat /\ w >= assignController(ds) /\ assignController(ds) \in Nat
  BY <1>5, <1>6, AssignedIs DEF used
<1> QED
  BY <1>5, <1>6, <1>7, DevicesAssumption

\* The number that generateUnitNum gives for a single new disk is the one that
\* AssignController gives, unless another controller has that number.
LEMMA NotedAgrees ==
    ASSUME NEW ds \in SUBSET DeviceSet, IsFiniteSet(ds), \E d \in ds : IsSystem(d),
           assignController(ds) \notin {d.unit : d \in Others(ds)}
    PROVE  generateUnitNum(ds, "disk", 1)[1] = assignController(ds)
<1> DEFINE used == {d.unit : d \in ds} \cup {7}
           u == assignController(ds)
           v == Free(1, used, 1)
<1>1. generateUnitNum(ds, "disk", 1)[1] = v
  BY DEF generateUnitNum
<1>2. used \in SUBSET Nat /\ IsFiniteSet(used)
  BY NumbersFinite
<1>3. u \in Nat /\ u \notin UsedOn(ds, DiskCtrl) /\ \A w \in Nat : w \notin UsedOn(ds, DiskCtrl) => w >= u
  BY AssignedIs
<1>4. v \in Nat /\ v >= 1 /\ v \notin used
  <2> HIDE DEF used
  <2>1. 1 \in Nat \ {0}
    OBVIOUS
  <2> QED  BY <1>2, <2>1, FreeIs
<1>5. \A w \in Nat : w >= 1 /\ w \notin used => w >= v
  <2> HIDE DEF used
  <2> QED  BY <1>2, FreeFirst
<1>6. UsedOn(ds, DiskCtrl) \subseteq used /\ used \subseteq UsedOn(ds, DiskCtrl) \cup {d.unit : d \in Others(ds)}
  BY DEF UsedOn, Others
<1>7. 0 \in UsedOn(ds, DiskCtrl)
  BY DEF UsedOn, IsSystem
<1> HIDE DEF used, u, v
<1>8. u \notin used
  BY <1>3, <1>6 DEF u
<1>9. u >= 1
  BY <1>3, <1>7
<1>10. u >= v /\ v >= u
  BY <1>3, <1>4, <1>5, <1>6, <1>8, <1>9
<1>11. u = v
  BY <1>3, <1>4, <1>10
<1> QED
  BY <1>1, <1>11 DEF u

LEMMA FreeNumbers ==
    ASSUME NEW ds \in SUBSET DeviceSet, IsFiniteSet(ds), NEW kind, NEW n \in Nat, NEW i \in 1..n
    PROVE  generateUnitNum(ds, kind, n)[i] \in Nat
<1> DEFINE used == {d.unit : d \in ds} \cup (IF kind = "disk" THEN {7} ELSE {})
           start == IF kind = "disk" THEN 1 ELSE 7
<1>1. used \in SUBSET Nat /\ IsFiniteSet(used)
  BY NumbersFinite, UnitsFinite
<1>2. start \in Nat /\ i \in Nat \ {0}
  OBVIOUS
<1>3. generateUnitNum(ds, kind, n)[i] = Free(start, used, i)
  BY DEF generateUnitNum
<1> HIDE DEF used, start
<1>4. Free(start, used, i) \in Nat
  BY <1>1, <1>2, FreeIs
<1> QED
  BY <1>3, <1>4

\* What is asked of vCenter comes of the request and of the list it was made for.
LEMMA ChangeOf ==
    ASSUME NEW r \in Requests, NEW ds \in SUBSET DeviceSet, IsFiniteSet(ds)
    PROVE  /\ Change(r, ds).removes \subseteq r.removes \cap Keys(ds)
           /\ Change(r, ds).edits \subseteq r.edits \cap Keys(ds)
           /\ Change(r, ds).moves \subseteq r.moves
           /\ DOMAIN Change(r, ds).units = DOMAIN r.disks
           /\ \A i \in DOMAIN Change(r, ds).units : Change(r, ds).units[i] = assignController(ds)
           /\ \A k \in Change(r, ds).removes :
                \E d \in ds : d.key = k /\ (d.kind = "card" \/ (d.kind = "disk" /\ d.unit # 0))
           /\ ~IsNic(r) => /\ Change(r, ds).removes = removeDisk(r, ds)
                           /\ Change(r, ds).moves = {}
                           /\ Change(r, ds).cards = << >>
           /\ Outcome(r, ds) = "change" =>
                \A m \in Change(r, ds).moves : m.key \in Keys(GetEthernetCards(ds))
<1> DEFINE ch == Change(r, ds)
<1>r. /\ r.disks \in Seq(Names) /\ r.edits \in SUBSET Nat /\ r.cards \in Seq(Names)
      /\ r.moves \in SUBSET [key : Nat, net : Names] /\ r.removes \in SUBSET Nat
      /\ IsNic(r) => r.disks = << >>
  BY RequestTypes
<1>1. CASE IsNic(r) /\ GetEthernetCards(ds) = {}
  <2>1. ch = NoChange
    BY <1>1 DEF Change, parseReconfigureNic
  <2>2. /\ ch.removes = {} /\ ch.edits = {} /\ ch.moves = {} /\ ch.units = << >>
    BY <2>1 DEF NoChange
  <2> QED
    BY <1>1, <1>r, <2>2
<1>2. CASE IsNic(r) /\ GetEthernetCards(ds) # {}
  <2>1. ch = [NoChange EXCEPT !.removes = removeNic(r, ds), !.moves = editNic(r, ds),
                              !.cards = addNic(r, ds)]
    BY <1>2 DEF Change, parseReconfigureNic
  <2>2. /\ ch.removes = removeNic(r, ds) /\ ch.edits = {} /\ ch.moves = editNic(r, ds)
        /\ ch.units = << >>
    BY <2>1 DEF NoChange
  <2>3. Outcome(r, ds) = "change" => ~EditNicFails(r, ds)
    BY <1>2 DEF Outcome
  <2> QED
    BY <1>2, <1>r, <2>2, <2>3 DEF removeNic, editNic, EditNicFails, Keys, GetEthernetCards
<1>3. CASE ~IsNic(r)
  <2>1. ch = [NoChange EXCEPT !.removes = removeDisk(r, ds), !.edits = editDisk(r, ds),
                              !.units = addDisk(r, ds)]
    BY <1>3 DEF Change, parseReconfigureDisk
  <2>2. /\ ch.removes = removeDisk(r, ds) /\ ch.edits = editDisk(r, ds) /\ ch.moves = {}
        /\ ch.units = addDisk(r, ds) /\ ch.cards = << >>
    BY <2>1 DEF NoChange
  <2> QED
    BY <1>3, <1>r, <2>2 DEF removeDisk, editDisk, addDisk, Keys, GetDisks
<1> QED
  BY <1>1, <1>2, <1>3

LEMMA NoChangeType == NoChange \in Changes
  BY DEF NoChange, Changes

LEMMA ChangeType ==
    ASSUME NEW r \in Requests, NEW ds \in SUBSET DeviceSet, IsFiniteSet(ds)
    PROVE  Change(r, ds) \in Changes
<1>r. /\ r.disks \in Seq(Names) /\ r.edits \in SUBSET Nat /\ r.cards \in Seq(Names)
      /\ r.moves \in SUBSET [key : Nat, net : Names] /\ r.removes \in SUBSET Nat
  BY RequestTypes
<1>1. addDisk(r, ds) \in Seq(Nat)
  BY <1>r, AssignedIs DEF addDisk
<1>2. addNic(r, ds) \in Seq([unit : Nat, net : Names])
  <2>1. \A i \in DOMAIN r.cards : generateUnitNum(ds, "nic", Len(r.cards))[i] \in Nat
    BY <1>r, FreeNumbers
  <2>2. \A i \in DOMAIN r.cards : r.cards[i] \in Names
    BY <1>r
  <2>3. DOMAIN r.cards = 1..Len(r.cards) /\ Len(r.cards) \in Nat
    BY <1>r
  <2> DEFINE C(i) == [unit |-> generateUnitNum(ds, "nic", Len(r.cards))[i], net |-> r.cards[i]]
  <2>4. \A i \in 1..Len(r.cards) : C(i) \in [unit : Nat, net : Names]
    BY <2>1, <2>2, <2>3
  <2>5. addNic(r, ds) = [i \in 1..Len(r.cards) |-> C(i)]
    BY <2>3 DEF addNic
  <2> HIDE DEF C
  <2> QED
    BY <2>3, <2>4, <2>5
<1>3. /\ removeDisk(r, ds) \in SUBSET Nat /\ removeNic(r, ds) \in SUBSET Nat
      /\ editDisk(r, ds) \in SUBSET Nat
      /\ editNic(r, ds) \in SUBSET [key : Nat, net : Names]
  <2>1. r.removes \in SUBSET Nat /\ r.edits \in SUBSET Nat
        /\ r.moves \in SUBSET [key : Nat, net : Names]
    BY <1>r
  <2>2. removeNic(r, ds) \in SUBSET Nat /\ editDisk(r, ds) \in SUBSET Nat
    BY <2>1 DEF removeNic, editDisk
  <2>3. editNic(r, ds) \in SUBSET [key : Nat, net : Names]
    BY <2>1 DEF editNic
  <2>4. removeDisk(r, ds) \in SUBSET Nat
    BY <2>1 DEF removeDisk
  <2> QED  BY <2>2, <2>3, <2>4
<1>4. parseReconfigureDisk(r, ds) \in Changes
  BY <1>1, <1>3, NoChangeType DEF parseReconfigureDisk, Changes
<1>5. parseReconfigureNic(r, ds) \in Changes
  BY <1>2, <1>3, NoChangeType DEF parseReconfigureNic, Changes
<1> QED
  BY <1>4, <1>5 DEF Change

-----------------------------------------------------------------------------
(* What a task makes of the devices.                                         *)

\* e is d, or d on another network or datastore that a set of moves names.
MovedTo(d, e, nets) ==
    /\ Same(d, e)
    /\ e.on = d.on \/ <<d.key, e.on>> \in nets

LEMMA MovedIs ==
    ASSUME NEW d \in DeviceSet, NEW ch \in Changes
    PROVE  /\ Moved(d, ch) \in DeviceSet
           /\ MovedTo(d, Moved(d, ch), {<<m.key, m.net>> : m \in ch.moves})
<1>1. CASE \E m \in ch.moves : m.key = d.key
  <2> DEFINE n == CHOOSE m \in ch.moves : m.key = d.key
  <2>1. n \in ch.moves /\ n.key = d.key
    BY <1>1
  <2>2. Moved(d, ch) = [d EXCEPT !.on = n.net]
    BY <1>1 DEF Moved
  <2>3. n.net \in Names
    BY <2>1 DEF Changes
  <2> HIDE DEF n
  <2> QED
    BY <2>1, <2>2, <2>3 DEF DeviceSet, MovedTo, Same
<1>2. CASE ~ \E m \in ch.moves : m.key = d.key
  BY <1>2 DEF Moved, MovedTo, Same
<1> QED
  BY <1>1, <1>2

\* The devices of a machine are finitely many.
LEMMA MappedFinite ==
    ASSUME NEW S, IsFiniteSet(S), NEW f, f = [x \in S |-> f[x]]
    PROVE  IsFiniteSet({f[x] : x \in S})
<1>1. f \in Surjection(S, {f[x] : x \in S})
  BY DEF Surjection
<1> QED
  BY <1>1, FS_Surjection

LEMMA SequenceIs ==
    ASSUME NEW S, NEW s \in Seq(S)
    PROVE  Len(s) \in Nat /\ DOMAIN s = 1..Len(s) /\ \A i \in 1..Len(s) : s[i] \in S
  OBVIOUS

LEMMA EmptySequence ==
    ASSUME NEW S, NEW s \in Seq(S), DOMAIN s = DOMAIN << >>
    PROVE  s = << >>
<1>1. Len(s) = 0
  OBVIOUS
<1> QED
  BY <1>1

LEMMA Between ==
    ASSUME NEW a \in Nat, NEW n \in Nat, NEW m \in Nat, NEW i \in (1..n) \cup (1..m)
    PROVE  a + i - 1 >= a /\ a + i - 1 < a + n + m
  OBVIOUS

LEMMA SumOf ==
    ASSUME NEW a \in Nat, NEW n \in Nat, NEW m \in Nat
    PROVE  a + n + m \in Nat /\ a + n + m >= a
  OBVIOUS

New(e, ch, c) ==
    /\ e \in DeviceSet /\ e.key >= nextKey /\ e.key < nextKey' /\ e.by = c
    /\ e.kind = "disk" => /\ e.ctrl = DiskCtrl
                          /\ \E i \in DOMAIN ch.units :
                               e.unit = ch.units[i] /\ e.key = nextKey + i - 1

Added(ch, c) == NewDisks(ch, c) \cup NewCards(ch, c)

\* The devices that are new after a change have keys of their own.
LEMMA NewOnes ==
    ASSUME NEW c \in Closures, NEW ch \in Changes, nextKey \in Nat, Home \in Names,
           ch.units = << >> \/ ch.cards = << >>,
           nextKey' = nextKey + Len(ch.units) + Len(ch.cards)
    PROVE  /\ nextKey' \in Nat /\ nextKey' >= nextKey
           /\ \A e \in Added(ch, c) : New(e, ch, c)
           /\ \A d, e \in Added(ch, c) : d.key = e.key => d = e
           /\ \A i \in DOMAIN ch.units : \E e \in Added(ch, c) :
                e.kind = "disk" /\ e.ctrl = DiskCtrl /\ e.by = c /\ e.unit = ch.units[i]
           /\ IsFiniteSet(Added(ch, c))
<1> DEFINE D(i) == Device(nextKey + i - 1, "disk", DiskCtrl, ch.units[i], Home, TRUE, c)
           C(i) == Device(nextKey + i - 1, "card", 0, ch.cards[i].unit, ch.cards[i].net, FALSE, c)
           n == Len(ch.units)
           m == Len(ch.cards)
           N == Added(ch, c)
<1>1. /\ n \in Nat /\ m \in Nat /\ DOMAIN ch.units = 1..n /\ DOMAIN ch.cards = 1..m
      /\ \A i \in 1..n : ch.units[i] \in Nat
      /\ \A i \in 1..m : ch.cards[i] \in [unit : Nat, net : Names]
      /\ n = 0 \/ m = 0
  <2>1. ch.units \in Seq(Nat) /\ ch.cards \in Seq([unit : Nat, net : Names])
    BY DEF Changes
  <2>2. n = 0 \/ m = 0
    BY <2>1
  <2>3. n \in Nat /\ DOMAIN ch.units = 1..n /\ \A i \in 1..n : ch.units[i] \in Nat
    BY <2>1
  <2>4. m \in Nat /\ DOMAIN ch.cards = 1..m
        /\ \A i \in 1..m : ch.cards[i] \in [unit : Nat, net : Names]
    BY <2>1, SequenceIs
  <2> HIDE DEF n, m
  <2> QED
    BY <2>2, <2>3, <2>4
<1>2. N = {D(i) : i \in 1..n} \cup {C(i) : i \in 1..m}
  BY <1>1 DEF Added, NewDisks, NewCards
<1>3. /\ \A i \in 1..n : /\ D(i).key = nextKey + i - 1 /\ D(i).kind = "disk" /\ D(i).by = c
                         /\ D(i).ctrl = DiskCtrl /\ D(i).unit = ch.units[i]
                         /\ D(i) \in DeviceSet
      /\ \A i \in 1..m : /\ C(i).key = nextKey + i - 1 /\ C(i).kind = "card" /\ C(i).by = c
                         /\ C(i) \in DeviceSet
  <2>1. \A i \in 1..n : D(i) \in DeviceSet
    BY <1>1, DevicesAssumption DEF Device, DeviceSet
  <2>2. \A i \in 1..m : C(i) \in DeviceSet
    BY <1>1 DEF Device, DeviceSet
  <2> QED
    BY <2>1, <2>2 DEF Device
<1>4. nextKey' = nextKey + n + m
  OBVIOUS
<1>9. nextKey' \in Nat /\ nextKey' >= nextKey
  <2>1. n \in Nat /\ m \in Nat
    BY <1>1
  <2> QED  BY <2>1, SumOf
<1>5. IsFiniteSet(N)
  <2> DEFINE d == [i \in 1..n |-> D(i)]
             k == [i \in 1..m |-> C(i)]
  <2>1. IsFiniteSet(1..n) /\ IsFiniteSet(1..m)
    BY <1>1, FS_Interval
  <2>2. IsFiniteSet({d[i] : i \in 1..n}) /\ IsFiniteSet({k[i] : i \in 1..m})
    <3>1. d = [i \in 1..n |-> d[i]] /\ k = [i \in 1..m |-> k[i]]
      OBVIOUS
    <3> HIDE DEF d, k, n, m
    <3> QED  BY <2>1, <3>1, MappedFinite
  <2>3. N = {d[i] : i \in 1..n} \cup {k[i] : i \in 1..m}
    BY <1>2
  <2> DEFINE X == {d[i] : i \in 1..n}
             Y == {k[i] : i \in 1..m}
  <2>4. IsFiniteSet(X) /\ IsFiniteSet(Y) /\ N = X \cup Y
    BY <2>2, <2>3
  <2> HIDE DEF X, Y
  <2> QED
    BY <2>4, FS_Union
<1> HIDE DEF D, C, n, m, N
<1>6. \A e \in N : New(e, ch, c)
  <2>1. ASSUME NEW i \in 1..n
        PROVE  New(D(i), ch, c)
    <3>1. nextKey + i - 1 >= nextKey /\ nextKey + i - 1 < nextKey'
      <4>1. n \in Nat /\ m \in Nat
        BY <1>1
      <4> QED  BY <1>4, <4>1, Between
    <3> QED
      BY <1>1, <1>3, <3>1 DEF New
  <2>2. ASSUME NEW i \in 1..m
        PROVE  New(C(i), ch, c)
    <3>1. nextKey + i - 1 >= nextKey /\ nextKey + i - 1 < nextKey'
      <4>1. n \in Nat /\ m \in Nat
        BY <1>1
      <4> QED  BY <1>4, <4>1, Between
    <3> QED
      BY <1>1, <1>3, <3>1 DEF New
  <2> QED
    BY <1>2, <2>1, <2>2
<1>7. \A d, e \in N : d.key = e.key => d = e
  <2>1. CASE n = 0
    <3>1. N = {C(i) : i \in 1..m}
      BY <1>1, <1>2, <2>1
    <3>2. \A i, j \in 1..m : C(i).key = C(j).key => i = j
      BY <1>1, <1>3
    <3> QED  BY <3>1, <3>2
  <2>2. CASE m = 0
    <3>1. N = {D(i) : i \in 1..n}
      BY <1>1, <1>2, <2>2
    <3>2. \A i, j \in 1..n : D(i).key = D(j).key => i = j
      BY <1>1, <1>3
    <3> QED  BY <3>1, <3>2
  <2> QED
    BY <1>1, <2>1, <2>2
<1>8. \A i \in DOMAIN ch.units : \E e \in N :
        e.kind = "disk" /\ e.ctrl = DiskCtrl /\ e.by = c /\ e.unit = ch.units[i]
  BY <1>1, <1>2, <1>3
<1> QED
  BY <1>5, <1>6, <1>7, <1>8, <1>9 DEF N

\* What a closure that has asked vCenter has read and asked for.
LEMMA AskedFor ==
    ASSUME TypeOK, DevicesInv, NEW c \in Closures, HasAsked(c)
    PROVE  /\ found[c] # {} /\ found[c] \in SUBSET DeviceSet /\ IsFiniteSet(found[c])
           /\ request[c] \in Requests /\ change[c] \in Changes
           /\ change[c] = Change(request[c], found[c])
           /\ Outcome(request[c], found[c]) = "change"
  BY DEF TypeOK, DevicesInv, FoundOf, ParsedOf

LEMMA HomeType ==
    ASSUME TypeOK, MachineOK
    PROVE  Home \in Names
  BY DEF TypeOK, MachineOK, Home, DeviceSet

Nets(ch) == {<<m.key, m.net>> : m \in ch.moves}

\* A change leaves the devices that it does not remove, but for the networks of
\* cards, and adds new ones.
LEMMA Configured ==
    ASSUME TypeOK, DevicesInv, NEW c \in Closures, task.by = c, Configures(c)
    PROVE  /\ \A e \in devices' :
                \/ \E d \in devices : d.key \notin change[c].removes /\ MovedTo(d, e, Nets(change[c]))
                \/ New(e, change[c], c)
           /\ \A d \in devices :
                \/ d.key \in change[c].removes /\ (d.by = Nobody \/ d.by \in robbed')
                \/ \E e \in devices' : MovedTo(d, e, Nets(change[c]))
           /\ \A d \in devices, n \in Nets(change[c]) : d.key = n[1] => d.kind = "card"
           /\ \A i \in DOMAIN change[c].units : \E e \in GetDisks(devices') :
                e.ctrl = DiskCtrl /\ e.by = c /\ e.unit = change[c].units[i]
           /\ devices' \in SUBSET DeviceSet /\ IsFiniteSet(devices')
           /\ \A d, e \in devices' : d.key = e.key => d = e
           /\ nextKey' \in Nat /\ nextKey' >= nextKey
           /\ robbed \subseteq robbed'
<1> DEFINE ch == change[c]
           K == {e \in devices : e.key \notin ch.removes}
           N == Added(ch, c)
           M == {Moved(d, ch) : d \in K}
<1>1. HasAsked(c)
  BY DEF HasAsked
<1>2. /\ found[c] \in SUBSET DeviceSet /\ IsFiniteSet(found[c])
      /\ request[c] \in Requests /\ ch \in Changes /\ ch = Change(request[c], found[c])
      /\ Outcome(request[c], found[c]) = "change"
  BY <1>1, AskedFor
<1>3. /\ devices \in SUBSET DeviceSet /\ nextKey \in Nat
      /\ IsFiniteSet(devices) /\ \A d \in devices : d.key < nextKey
      /\ \A d, e \in devices : d.key = e.key => d = e
      /\ \A d \in found[c], e \in devices : d.key = e.key => Same(d, e)
      /\ Home \in Names
  BY HomeType DEF TypeOK, DevicesInv, MachineOK, FoundOf
<1>4. ch.units = << >> \/ ch.cards = << >>
  <2>1. CASE IsNic(request[c])
    <3>1. DOMAIN ch.units = DOMAIN request[c].disks /\ request[c].disks = << >>
      BY <1>2, <2>1, ChangeOf, RequestTypes
    <3>2. ch.units \in Seq(Nat)
      BY <1>2 DEF Changes
    <3> HIDE DEF ch
    <3> QED
      BY <3>1, <3>2, EmptySequence
  <2>2. CASE ~IsNic(request[c])
    BY <1>2, <2>2, ChangeOf
  <2> QED  BY <2>1, <2>2
<1>5. /\ devices' = M \cup N
      /\ nextKey' = nextKey + Len(ch.units) + Len(ch.cards)
      /\ robbed' = robbed \cup ({d.by : d \in {e \in devices : e.key \in ch.removes}} \ {Nobody})
  BY DEF Configures, Apply, Added
<1>6. /\ nextKey' \in Nat /\ nextKey' >= nextKey
      /\ \A e \in N : New(e, ch, c)
      /\ \A d, e \in N : d.key = e.key => d = e
      /\ \A i \in DOMAIN ch.units : \E e \in N :
           e.kind = "disk" /\ e.ctrl = DiskCtrl /\ e.by = c /\ e.unit = ch.units[i]
      /\ IsFiniteSet(N)
  <2>1. ch \in Changes /\ nextKey \in Nat /\ Home \in Names
    BY <1>2, <1>3
  <2>2. nextKey' = nextKey + Len(ch.units) + Len(ch.cards)
    BY <1>5
  <2> HIDE DEF ch, K, M
  <2> QED
    BY <2>1, <2>2, <1>4, NewOnes
<1>7. \A d \in K : Moved(d, ch) \in DeviceSet /\ MovedTo(d, Moved(d, ch), Nets(ch))
  BY <1>2, <1>3, MovedIs DEF Nets
<1>8. IsFiniteSet(M)
  <2> DEFINE f == [d \in K |-> Moved(d, ch)]
  <2>1. IsFiniteSet(K)
    BY <1>3, FS_Subset
  <2>2. M = {f[d] : d \in K} /\ f = [d \in K |-> f[d]]
    OBVIOUS
  <2> HIDE DEF f, K, M
  <2> QED
    BY <2>1, <2>2, MappedFinite
<1>9. \A d \in devices, n \in Nets(ch) : d.key = n[1] => d.kind = "card"
  <2>1. \A m \in ch.moves : m.key \in Keys(GetEthernetCards(found[c]))
    BY <1>2, ChangeOf
  <2> QED
    BY <1>3, <2>1 DEF Nets, Keys, GetEthernetCards, Same
<1> HIDE DEF ch
<1>10. \A e \in devices' :
          \/ \E d \in devices : d.key \notin ch.removes /\ MovedTo(d, e, Nets(ch))
          \/ New(e, ch, c)
  <2> HIDE DEF N
  <2> QED  BY <1>5, <1>6, <1>7
<1>11. \A d \in devices :
          \/ d.key \in ch.removes /\ (d.by = Nobody \/ d.by \in robbed')
          \/ \E e \in devices' : MovedTo(d, e, Nets(ch))
  <2> HIDE DEF N
  <2> QED  BY <1>5, <1>7
<1>12. \A i \in DOMAIN ch.units : \E e \in GetDisks(devices') :
         e.ctrl = DiskCtrl /\ e.by = c /\ e.unit = ch.units[i]
  <2> HIDE DEF N, M
  <2> QED  BY <1>5, <1>6 DEF GetDisks
<1>13. devices' \in SUBSET DeviceSet
  <2>1. \A e \in N : e \in DeviceSet
    BY <1>6 DEF New
  <2> HIDE DEF N
  <2> QED  BY <1>5, <1>7, <2>1
<1>14. IsFiniteSet(devices')
  <2> HIDE DEF N, M
  <2> QED  BY <1>5, <1>6, <1>8, FS_Union
<1>15. \A d, e \in devices' : d.key = e.key => d = e
  <2>1. \A e \in N : e.key \in Nat /\ e.key >= nextKey
    BY <1>6 DEF New, DeviceSet
  <2>0. \A d \in K : Moved(d, ch).key = d.key
    BY <1>7 DEF MovedTo, Same
  <2>2. \A e \in M : e.key \in Nat /\ e.key < nextKey
    <3>1. \A d \in K : d.key \in Nat /\ d.key < nextKey
      BY <1>3 DEF DeviceSet
    <3> QED  BY <2>0, <3>1
  <2>3. \A d, e \in M : d.key = e.key => d = e
    <3>1. \A d, e \in K : Moved(d, ch).key = Moved(e, ch).key => d = e
      BY <1>3, <2>0
    <3> QED  BY <3>1
  <2> HIDE DEF N, M
  <2>4. \A d \in M, e \in N : d.key # e.key
    BY <1>3, <2>1, <2>2
  <2> QED
    BY <1>5, <1>6, <2>3, <2>4
<1>16. robbed \subseteq robbed'
  BY <1>5
<1> QED
  BY <1>6, <1>9, <1>10, <1>11, <1>12, <1>13, <1>14, <1>15, <1>16 DEF ch

Targets(ms) == {<<m.key, m.store>> : m \in ms}

\* A move leaves all devices, but for the datastores of the disks it names.
LEMMA RelocatedIs ==
    ASSUME TypeOK, MachineOK, NEW c \in Closures, Relocates(c)
    PROVE  /\ \A e \in devices' : \E d \in devices : MovedTo(d, e, Targets(moves[c]))
           /\ \A d \in devices : \E e \in devices' :
                /\ MovedTo(d, e, Targets(moves[c]))
                /\ d.key \in {m.key : m \in moves[c]} => <<d.key, e.on>> \in Targets(moves[c])
           /\ devices' \in SUBSET DeviceSet /\ IsFiniteSet(devices')
           /\ \A d, e \in devices' : d.key = e.key => d = e
<1> DEFINE to(d) == IF d.key \in {m.key : m \in moves[c]}
                    THEN [d EXCEPT !.on = (CHOOSE m \in moves[c] : m.key = d.key).store] ELSE d
<1>1. devices' = {to(d) : d \in devices}
  BY DEF Relocates, Relocated
<1>2. devices \in SUBSET DeviceSet /\ moves[c] \in SUBSET [key : Nat, store : Names]
      /\ IsFiniteSet(devices) /\ \A d, e \in devices : d.key = e.key => d = e
  BY DEF TypeOK, MachineOK
<1>3. ASSUME NEW d \in devices
      PROVE  /\ to(d) \in DeviceSet
             /\ MovedTo(d, to(d), Targets(moves[c]))
             /\ d.key \in {m.key : m \in moves[c]} => <<d.key, to(d).on>> \in Targets(moves[c])
  <2>1. CASE \E m \in moves[c] : m.key = d.key
    <3> DEFINE n == CHOOSE m \in moves[c] : m.key = d.key
    <3>1. n \in moves[c] /\ n.key = d.key
      BY <2>1
    <3>2. to(d) = [d EXCEPT !.on = n.store]
      BY <2>1
    <3>3. n.store \in Names /\ d \in DeviceSet
      BY <1>2, <3>1
    <3> HIDE DEF n, to
    <3> QED
      BY <3>1, <3>2, <3>3 DEF DeviceSet, MovedTo, Same, Targets
  <2>2. CASE ~ \E m \in moves[c] : m.key = d.key
    <3>1. to(d) = d
      BY <2>2
    <3> HIDE DEF to
    <3> QED
      BY <1>2, <2>2, <3>1 DEF MovedTo, Same
  <2> QED
    BY <2>1, <2>2
<1> HIDE DEF to
<1>4. IsFiniteSet(devices')
  <2> DEFINE f == [d \in devices |-> to(d)]
  <2>1. devices' = {f[d] : d \in devices} /\ f = [d \in devices |-> f[d]]
    BY <1>1
  <2> HIDE DEF f
  <2> QED
    BY <1>2, <2>1, MappedFinite
<1>5. \A d, e \in devices : to(d).key = to(e).key => d = e
  <2>1. \A d \in devices : to(d).key = d.key
    BY <1>3 DEF MovedTo, Same
  <2> QED  BY <1>2, <2>1
<1>6. \A d, e \in devices' : d.key = e.key => d = e
  BY <1>1, <1>5
<1>7. \A d \in devices : \E e \in devices' :
         /\ MovedTo(d, e, Targets(moves[c]))
         /\ d.key \in {m.key : m \in moves[c]} => <<d.key, e.on>> \in Targets(moves[c])
  <2> TAKE d \in devices
  <2>1. to(d) \in devices'
    BY <1>1
  <2> QED
    BY <1>3, <2>1
<1>8. \A e \in devices' : \E d \in devices : MovedTo(d, e, Targets(moves[c]))
  BY <1>1, <1>3
<1>9. devices' \in SUBSET DeviceSet
  BY <1>1, <1>3
<1> QED
  BY <1>4, <1>6, <1>7, <1>8, <1>9

-----------------------------------------------------------------------------
(* How the machine evolves.                                                  *)

Evolved ==
    /\ nextKey' \in Nat /\ nextKey' >= nextKey
    /\ devices' \in SUBSET DeviceSet
    /\ \A e \in devices' :
         \/ \E d \in devices : Same(d, e)
         \/ e.key >= nextKey /\ (e.kind = "disk" => e.ctrl = DiskCtrl)
    /\ \A d \in devices :
         (\E e \in devices' : Same(d, e)) \/ d.by = Nobody \/ d.by \in robbed'
    /\ robbed \subseteq robbed'

LEMMA StepQuiet ==
    ASSUME NEW c \in Closures, Step(c)
    PROVE  UNCHANGED <<devices, nextKey, request, refused, stale, robbed>>
  BY DEF Step, Reconfigure, Parse, Submit, StartTask, Reconfiguring, Await, Survey, Relocate,
         parseStorage, Move, Moving, Calm, machine, history

LEMMA SameDevices ==
    ASSUME TypeOK, UNCHANGED <<devices, nextKey, robbed>>
    PROVE  Evolved
  BY DEF TypeOK, Evolved, Same

LEMMA ConfiguredMachine ==
    ASSUME TypeOK, DevicesInv, NEW c \in Closures, task.by = c, Configures(c)
    PROVE  MachineOK'
<1> DEFINE ch == change[c]
<1>1. HasAsked(c)
  BY DEF HasAsked
<1>2. /\ devices \in SUBSET DeviceSet /\ nextKey \in Nat
      /\ \A d \in devices : d.key < nextKey
      /\ \A d, e \in GetDisks(devices) :
           d.ctrl = DiskCtrl /\ e.ctrl = DiskCtrl /\ d.unit = e.unit => d = e
      /\ \A d \in found[c], e \in devices : d.key = e.key => Same(d, e)
  BY DEF TypeOK, DevicesInv, MachineOK, FoundOf
<1>3. /\ \A e \in devices' :
           \/ \E d \in devices : d.key \notin ch.removes /\ MovedTo(d, e, Nets(ch))
           \/ New(e, ch, c)
      /\ \A d \in devices : d.key \in ch.removes \/ \E e \in devices' : MovedTo(d, e, Nets(ch))
      /\ \A d \in devices, n \in Nets(ch) : d.key = n[1] => d.kind = "card"
      /\ devices' \in SUBSET DeviceSet /\ IsFiniteSet(devices')
      /\ \A d, e \in devices' : d.key = e.key => d = e
      /\ nextKey' \in Nat /\ nextKey' >= nextKey
  BY Configured
<1>4. Fits(ch)
  BY DEF Configures
<1> HIDE DEF ch
<1>5. \A e \in devices' : e.key < nextKey'
  <2>1. ASSUME NEW e \in devices', NEW d \in devices, MovedTo(d, e, Nets(ch))
        PROVE  e.key < nextKey'
    <3>1. d.key = e.key /\ d.key < nextKey /\ d.key \in Nat
      BY <1>2, <2>1 DEF MovedTo, Same, DeviceSet
    <3> QED  BY <1>2, <1>3, <3>1
  <2> QED
    BY <1>3, <2>1 DEF New
<1>6. ASSUME NEW d \in GetDisks(devices'), NEW e \in GetDisks(devices'),
             d.ctrl = DiskCtrl, e.ctrl = DiskCtrl, d.unit = e.unit
      PROVE  d.key = e.key
  <2>1. ASSUME NEW x \in devices, x.key \notin ch.removes, MovedTo(x, d, Nets(ch)),
               NEW y \in devices, MovedTo(y, e, Nets(ch))
        PROVE  d.key = e.key
    BY <1>2, <1>6, <2>1 DEF MovedTo, Same, GetDisks
  <2>2. ASSUME NEW x \in devices, x.key \notin ch.removes, NEW z \in devices', NEW w \in devices',
               MovedTo(x, z, Nets(ch)), New(w, ch, c),
               z.ctrl = DiskCtrl, w.kind = "disk", z.unit = w.unit
        PROVE  FALSE
    <3>1. x.unit \in UsedOn({k \in devices : k.key \notin ch.removes}, DiskCtrl)
      BY <2>2 DEF MovedTo, Same, UsedOn
    <3>2. w.unit \in Values(ch.units)
      BY <2>2 DEF New, Values
    <3>3. x.unit = w.unit
      BY <2>2 DEF MovedTo, Same
    <3> QED
      BY <1>4, <3>1, <3>2, <3>3 DEF Fits
  <2>3. ASSUME New(d, ch, c), New(e, ch, c)
        PROVE  d.key = e.key
    BY <1>4, <1>6, <2>3 DEF New, GetDisks, Fits
  <2>4. d \in devices' /\ e \in devices' /\ d.kind = "disk" /\ e.kind = "disk"
    BY DEF GetDisks
  <2> QED
    BY <1>3, <1>6, <2>1, <2>2, <2>3, <2>4
<1>7. \A d, e \in GetDisks(devices') :
        d.ctrl = DiskCtrl /\ e.ctrl = DiskCtrl /\ d.unit = e.unit => d = e
  BY <1>3, <1>6 DEF GetDisks
<1>8. \E e \in devices' : IsSystem(e)
  <2>1. PICK d \in devices : IsSystem(d)
    BY DEF DevicesInv, MachineOK
  <2>2. d.key \notin ch.removes
    <3>1. /\ found[c] \in SUBSET DeviceSet /\ IsFiniteSet(found[c])
          /\ request[c] \in Requests /\ ch = Change(request[c], found[c])
      BY <1>1, AskedFor DEF ch
    <3>2. \A k \in ch.removes :
            \E f \in found[c] : f.key = k /\ (f.kind = "card" \/ (f.kind = "disk" /\ f.unit # 0))
      BY <3>1, ChangeOf
    <3> QED
      BY <1>2, <2>1, <3>2 DEF IsSystem, Same
  <2> QED
    BY <1>3, <2>1, <2>2 DEF MovedTo, Same, IsSystem
<1> QED
  BY <1>3, <1>5, <1>7, <1>8 DEF MachineOK

LEMMA RelocatedMachine ==
    ASSUME TypeOK, MachineOK, NEW c \in Closures, Relocates(c)
    PROVE  MachineOK'
<1> DEFINE T == Targets(moves[c])
<1>1. /\ \A e \in devices' : \E d \in devices : MovedTo(d, e, T)
      /\ \A d \in devices : \E e \in devices' : MovedTo(d, e, T)
      /\ IsFiniteSet(devices')
      /\ \A d, e \in devices' : d.key = e.key => d = e
      /\ nextKey' = nextKey
  BY RelocatedIs DEF Relocates
<1> HIDE DEF T
<1>2. /\ \A d \in devices : d.key < nextKey
      /\ \A d, e \in GetDisks(devices) :
           d.ctrl = DiskCtrl /\ e.ctrl = DiskCtrl /\ d.unit = e.unit => d = e
      /\ \E d \in devices : IsSystem(d)
  BY DEF MachineOK
<1>3. \A e \in devices' : e.key < nextKey'
  BY <1>1, <1>2 DEF MovedTo, Same
<1>4. ASSUME NEW d \in GetDisks(devices'), NEW e \in GetDisks(devices'),
             d.ctrl = DiskCtrl, e.ctrl = DiskCtrl, d.unit = e.unit
      PROVE  d = e
  <2>1. PICK x \in devices : MovedTo(x, d, T)
    BY <1>1 DEF GetDisks
  <2>2. PICK y \in devices : MovedTo(y, e, T)
    BY <1>1 DEF GetDisks
  <2>3. x = y
    BY <1>2, <1>4, <2>1, <2>2 DEF MovedTo, Same, GetDisks
  <2> QED
    BY <1>1, <2>1, <2>2, <2>3 DEF MovedTo, Same, GetDisks
<1>5. \E e \in devices' : IsSystem(e)
  <2>1. PICK d \in devices : IsSystem(d)
    BY <1>2
  <2>2. PICK e \in devices' : MovedTo(d, e, T)
    BY <1>1
  <2> QED
    BY <2>1, <2>2 DEF MovedTo, Same, IsSystem
<1> QED
  BY <1>1, <1>3, <1>4, <1>5 DEF MachineOK

LEMMA MachineEvolves ==
    ASSUME TypeOK, DevicesInv, [Next]_vars
    PROVE  MachineOK' /\ Evolved /\ UNCHANGED request
<1>0. MachineOK
  BY DEF DevicesInv
<1>1. ASSUME NEW c \in Closures, Step(c)
      PROVE  MachineOK' /\ Evolved /\ UNCHANGED request
  BY <1>0, <1>1, StepQuiet, SameDevices DEF MachineOK
<1>2. ASSUME NEW c \in Closures, TaskEnds(c)
      PROVE  MachineOK' /\ Evolved /\ UNCHANGED request
  <2>1. task.by = c /\ UNCHANGED request
    BY <1>2 DEF TaskEnds
  <2>2. CASE Configures(c)
    <3>1. MachineOK'
      BY <2>1, <2>2, ConfiguredMachine
    <3>2. /\ \A e \in devices' :
               \/ \E d \in devices : d.key \notin change[c].removes /\ MovedTo(d, e, Nets(change[c]))
               \/ New(e, change[c], c)
          /\ \A d \in devices :
               \/ d.key \in change[c].removes /\ (d.by = Nobody \/ d.by \in robbed')
               \/ \E e \in devices' : MovedTo(d, e, Nets(change[c]))
          /\ devices' \in SUBSET DeviceSet
          /\ nextKey' \in Nat /\ nextKey' >= nextKey /\ robbed \subseteq robbed'
      BY <2>1, <2>2, Configured
    <3>3. Evolved
      BY <3>2 DEF Evolved, MovedTo, New
    <3> QED  BY <2>1, <3>1, <3>3
  <2>3. CASE Relocates(c)
    <3>1. /\ \A e \in devices' : \E d \in devices : MovedTo(d, e, Targets(moves[c]))
          /\ \A d \in devices : \E e \in devices' : MovedTo(d, e, Targets(moves[c]))
          /\ devices' \in SUBSET DeviceSet
          /\ nextKey' = nextKey /\ robbed' = robbed
      BY <1>0, <2>3, RelocatedIs DEF Relocates
    <3>2. Evolved
      <4>1. \A e \in devices' : \E d \in devices : Same(d, e)
        BY <3>1 DEF MovedTo
      <4>2. \A d \in devices : \E e \in devices' : Same(d, e)
        BY <3>1 DEF MovedTo
      <4>3. nextKey \in Nat
        BY DEF TypeOK
      <4> QED
        BY <3>1, <4>1, <4>2, <4>3 DEF Evolved
    <3> QED  BY <1>0, <2>1, <2>3, <3>2, RelocatedMachine
  <2>4. CASE Fails(c)
    BY <1>0, <2>1, <2>4, SameDevices DEF Fails, MachineOK
  <2> QED
    BY <1>2, <2>2, <2>3, <2>4 DEF TaskEnds
<1>3. ASSUME UNCHANGED vars
      PROVE  MachineOK' /\ Evolved /\ UNCHANGED request
  BY <1>0, <1>3, SameDevices DEF vars, machine, history, MachineOK
<1> QED
  BY <1>1, <1>2, <1>3 DEF Next, Returned

-----------------------------------------------------------------------------
(* Types.                                                                    *)

LocalTypes ==
    /\ task \in {NoTask} \cup [job : {"configure", "relocate"}, by : Closures]
    /\ pc \in [Closures -> Pcs]
    /\ found \in [Closures -> SUBSET DeviceSet]
    /\ change \in [Closures -> Changes]
    /\ moves \in [Closures -> SUBSET [key : Nat, store : Names]]
    /\ awaited \in [Closures -> {"none", "running", "done", "failed"}]
    /\ \A c \in Closures : awaited[c] # "none" <=> pc[c] \in Waiting
    /\ result \in [Closures -> {"none", "ok", "error", "panic"}]
    /\ \A c \in Closures : result[c] # "none" <=> pc[c] = "returned"

LEMMA StepTypes ==
    ASSUME TypeOK, MachineOK, NEW c \in Closures, Step(c)
    PROVE  LocalTypes'
<1> USE DEF TypeOK, LocalTypes, Pcs, Waiting
<1>1. CASE Reconfigure(c) \/ Relocate(c) \/ parseStorage(c)
  BY <1>1 DEF Reconfigure, Relocate, parseStorage, Goto, Return, Calm, machine
<1>2. CASE Parse(c)
  <2>1. Change(request[c], devices) \in Changes
    BY ChangeType DEF MachineOK
  <2>2. Outcome(request[c], devices) \in {"error", "panic", "change"}
    BY DEF Outcome
  <2>3. /\ found' \in [Closures -> SUBSET DeviceSet] /\ change' \in [Closures -> Changes]
        /\ UNCHANGED <<moves, task, awaited>>
    BY <1>2, <2>1 DEF Parse, Calm, machine
  <2>4. Goto(c, "submit") \/ Return(c, "error") \/ Return(c, "panic")
    BY <1>2, <2>2 DEF Parse
  <2>5. pc[c] = "read"
    BY <1>2 DEF Parse
  <2> QED
    BY <2>3, <2>4, <2>5 DEF Goto, Return
<1>3. CASE Submit(c) \/ Move(c)
  BY <1>3 DEF Submit, Move, StartTask, Goto, Return
<1>4. CASE Reconfiguring(c) \/ Moving(c)
  BY <1>4 DEF Reconfiguring, Moving, Await, Goto, Return, machine
<1>5. CASE Survey(c)
  <2>1. request[c] \in Requests /\ request[c].disks \in Seq(Names)
    BY RequestTypes
  <2>2. /\ moves' \in [Closures -> SUBSET [key : Nat, store : Names]]
        /\ UNCHANGED <<found, change, task, awaited>>
    <3>1. \A k \in DOMAIN request[c].disks : request[c].disks[k] \in Names
      BY <2>1
    <3>2. \A d \in devices : d.key \in Nat
      BY DEF DeviceSet
    <3> QED
      BY <1>5, <3>1, <3>2 DEF Survey, Wanted, OnUnit, GetDisks, Calm, machine
  <2>3. /\ pc[c] = "survey"
        /\ Goto(c, "relocate") \/ Return(c, "ok") \/ Return(c, "panic")
    BY <1>5 DEF Survey
  <2> QED
    BY <2>2, <2>3 DEF Goto, Return
<1> QED
  BY <1>1, <1>2, <1>3, <1>4, <1>5 DEF Step

LEMMA TaskTypes ==
    ASSUME TypeOK, NEW c \in Closures, TaskEnds(c)
    PROVE  LocalTypes'
  BY DEF TypeOK, LocalTypes, Waiting, TaskEnds, Configures, Relocates, Fails, Learn

LEMMA HistoryTypes ==
    ASSUME TypeOK, [Next]_vars
    PROVE  (refused \cup stale \cup robbed \subseteq Closures)'
<1>1. ASSUME NEW c \in Closures, TaskEnds(c)
      PROVE  (refused \cup stale \cup robbed \subseteq Closures)'
  <2>1. \A d \in devices : d.by \in Closures \cup {Nobody}
    BY DEF TypeOK, DeviceSet
  <2> QED
    BY <1>1, <2>1 DEF TypeOK, TaskEnds, Configures, Relocates, Fails, Apply, Reading
<1> QED
  BY <1>1, StepQuiet DEF Next, Returned, vars, history, TypeOK

LEMMA TypesInductive ==
    ASSUME TypeOK, DevicesInv, [Next]_vars
    PROVE  TypeOK'
<1>1. LocalTypes'
  <2>1. MachineOK
    BY DEF DevicesInv
  <2>2. ASSUME UNCHANGED vars
        PROVE  LocalTypes'
    BY <2>2 DEF vars, machine, local, TypeOK, LocalTypes
  <2> QED
    BY <2>1, <2>2, StepTypes, TaskTypes DEF Next, Returned
<1>2. Evolved /\ UNCHANGED request
  BY MachineEvolves
<1> QED
  BY <1>1, <1>2, HistoryTypes DEF Evolved, LocalTypes, TypeOK

-----------------------------------------------------------------------------
(* What a closure has read, what it asks for, and its task.                  *)

\* Only reading the devices changes what a closure has read.
LEMMA Reads ==
    ASSUME TypeOK, [Next]_vars, NEW c \in Closures
    PROVE  \/ found'[c] = found[c] /\ change'[c] = change[c]
           \/ /\ pc[c] = "read" /\ UNCHANGED <<devices, nextKey, task, request, refused>>
              /\ found'[c] = devices /\ change'[c] = Change(request[c], devices)
              /\ \/ Outcome(request[c], devices) = "change" /\ pc'[c] = "submit"
                 \/ pc'[c] = "returned" /\ result'[c] # "ok"
<1> USE DEF TypeOK
<1>1. ASSUME NEW d \in Closures, Step(d), ~Parse(d)
      PROVE  UNCHANGED <<found, change>>
  BY <1>1 DEF Step, Reconfigure, Submit, StartTask, Reconfiguring, Await, Survey, Relocate,
              parseStorage, Move, Moving
<1>2. ASSUME NEW d \in Closures, TaskEnds(d)
      PROVE  UNCHANGED <<found, change>>
  BY <1>2 DEF TaskEnds
<1>3. ASSUME UNCHANGED vars
      PROVE  UNCHANGED <<found, change>>
  BY <1>3 DEF vars, local
<1>4. ASSUME NEW d \in Closures, Parse(d), d # c
      PROVE  found'[c] = found[c] /\ change'[c] = change[c]
  BY <1>4 DEF Parse
<1>5. ASSUME Parse(c), found'[c] # found[c] \/ change'[c] # change[c]
      PROVE  /\ pc[c] = "read" /\ UNCHANGED <<devices, nextKey, task, request, refused>>
             /\ found'[c] = devices /\ change'[c] = Change(request[c], devices)
             /\ \/ Outcome(request[c], devices) = "change" /\ pc'[c] = "submit"
                \/ pc'[c] = "returned" /\ result'[c] # "ok"
  <2>1. /\ pc[c] = "read" /\ UNCHANGED <<devices, nextKey, task, request, refused>>
        /\ found' = [found EXCEPT ![c] = devices]
        /\ change' = [change EXCEPT ![c] = Change(request[c], devices)]
        /\ CASE Outcome(request[c], devices) = "change" -> Goto(c, "submit")
             [] OTHER -> Return(c, Outcome(request[c], devices))
    BY <1>5 DEF Parse, Calm, machine, history
  <2>2. Outcome(request[c], devices) \in {"error", "panic", "change"}
    BY DEF Outcome
  <2> QED
    BY <2>1, <2>2 DEF Goto, Return
<1> QED
  BY <1>1, <1>2, <1>3, <1>4, <1>5 DEF Next, Returned

LEMMA FoundKept ==
    ASSUME TypeOK, DevicesInv, [Next]_vars, NEW c \in Closures
    PROVE  FoundOf(c)'
<1>1. Evolved /\ MachineOK'
  BY MachineEvolves
<1>2. MachineOK /\ FoundOf(c)
  BY DEF DevicesInv
<1>3. devices \in SUBSET DeviceSet /\ nextKey \in Nat /\ found[c] \in SUBSET DeviceSet
  BY DEF TypeOK
<1>4. CASE found'[c] = found[c]
  <2>1. \A d \in found[c] : d.key \in Nat /\ d.key < nextKey /\ d.key < nextKey'
    <3>1. \A d \in found[c] : d.key \in Nat /\ d.key < nextKey
      BY <1>2, <1>3 DEF FoundOf, DeviceSet
    <3> QED
      BY <1>1, <1>3, <3>1 DEF Evolved
  <2>2. ASSUME NEW d \in found[c], NEW e \in devices', d.key = e.key
        PROVE  Same(d, e)
    <3>1. PICK x \in devices : Same(x, e)
      BY <1>1, <1>3, <2>1, <2>2 DEF Evolved
    <3>2. Same(d, x)
      BY <1>2, <2>2, <3>1 DEF FoundOf, Same
    <3> QED
      BY <3>1, <3>2 DEF Same
  <2>3. ASSUME NEW e \in GetDisks(devices'), found[c] # {}
        PROVE  e.key \in Keys(found[c]) \/ e.ctrl = DiskCtrl
    <3>1. CASE \E x \in devices : Same(x, e)
      BY <1>2, <2>3, <3>1 DEF FoundOf, Same, GetDisks
    <3>2. CASE ~ \E x \in devices : Same(x, e)
      BY <1>1, <3>2 DEF Evolved, GetDisks
    <3> QED  BY <3>1, <3>2
  <2> QED
    BY <1>2, <1>4, <2>1, <2>2, <2>3 DEF FoundOf
<1>5. CASE found'[c] # found[c]
  <2>1. found'[c] = devices /\ UNCHANGED <<devices, nextKey>>
    BY <1>5, Reads
  <2> QED
    BY <1>2, <2>1 DEF FoundOf, MachineOK, Same, Keys, GetDisks
<1> QED
  BY <1>4, <1>5

\* What a closure has asked before and after a step.
LEMMA Asks ==
    ASSUME TypeOK, DevicesInv, [Next]_vars, NEW c \in Closures, found'[c] = found[c], HasAsked(c)'
    PROVE  HasAsked(c)
<1> USE DEF TypeOK, HasAsked, Pcs
<1>1. ASSUME NEW d \in Closures, Step(d)
      PROVE  HasAsked(c)
  <2>1. CASE Reconfigure(d) \/ Relocate(d) \/ parseStorage(d)
    BY <1>1, <2>1 DEF Reconfigure, Relocate, parseStorage, Goto, Return, Calm, machine, history
  <2>2. CASE Submit(d) \/ Move(d)
    BY <1>1, <2>2 DEF Submit, Move, StartTask, Goto, Return, history
  <2>3. CASE Reconfiguring(d) \/ Moving(d)
    BY <1>1, <2>3 DEF Reconfiguring, Moving, Await, Goto, Return, machine, history
  <2>4. CASE Survey(d)
    BY <1>1, <2>4 DEF Survey, Goto, Return, Calm, machine, history
  <2>5. CASE Parse(d)
    <3>1. CASE d = c /\ found' = [found EXCEPT ![c] = devices]
      <4>1. pc[c] = "read" /\ devices = found[c]
        BY <2>5, <3>1 DEF Parse
      <4> QED
        BY <4>1 DEF DevicesInv, ParsedOf, MachineOK
    <3>2. CASE d = c /\ pc' = [pc EXCEPT ![c] = "returned"] /\ result'[c] # "ok"
      BY <1>1, <2>5, <3>2 DEF Parse, Calm, machine, history
    <3>3. CASE d # c
      BY <1>1, <2>5, <3>3 DEF Parse, Goto, Return, Calm, machine, history
    <3> QED
      BY <2>5, <3>1, <3>2, <3>3 DEF Parse, Return
  <2> QED
    BY <1>1, <2>1, <2>2, <2>3, <2>4, <2>5 DEF Step
<1>2. ASSUME NEW d \in Closures, TaskEnds(d)
      PROVE  HasAsked(c)
  BY <1>2, DevicesAssumption DEF TaskEnds, Configures, Relocates, Fails, NoTask
<1>3. ASSUME UNCHANGED vars
      PROVE  HasAsked(c)
  BY <1>3 DEF vars, local, machine, history
<1> QED
  BY <1>1, <1>2, <1>3 DEF Next, Returned

LEMMA ParsedKept ==
    ASSUME TypeOK, DevicesInv, [Next]_vars, NEW c \in Closures
    PROVE  ParsedOf(c)'
<1>1. UNCHANGED request
  BY MachineEvolves
<1>2. MachineOK /\ ParsedOf(c)
  BY DEF DevicesInv
<1>3. pc'[c] \in {"reconfigure", "read"} => pc[c] \in {"reconfigure", "read"} /\ found'[c] = found[c]
  <2>1. ASSUME NEW d \in Closures, Step(d), pc'[c] \in {"reconfigure", "read"}
        PROVE  pc[c] \in {"reconfigure", "read"} /\ found'[c] = found[c]
    BY <2>1 DEF TypeOK, Pcs, Step, Reconfigure, Relocate, parseStorage, Submit, Move, StartTask,
                Reconfiguring, Moving, Await, Survey, Parse, Goto, Return
  <2>2. ASSUME NEW d \in Closures, TaskEnds(d), pc'[c] \in {"reconfigure", "read"}
        PROVE  pc[c] \in {"reconfigure", "read"} /\ found'[c] = found[c]
    BY <2>2 DEF TaskEnds
  <2> QED
    BY <2>1, <2>2 DEF Next, Returned, vars, local
<1>4. CASE found'[c] = found[c] /\ change'[c] = change[c]
  <2>1. HasAsked(c)' => HasAsked(c)
    BY <1>4, Asks
  <2> QED
    BY <1>1, <1>2, <1>3, <1>4, <2>1 DEF ParsedOf
<1>5. CASE ~(found'[c] = found[c] /\ change'[c] = change[c])
  <2>1. /\ pc[c] = "read" /\ UNCHANGED <<devices, nextKey, task, request, refused>>
        /\ found'[c] = devices /\ change'[c] = Change(request[c], devices)
        /\ \/ Outcome(request[c], devices) = "change" /\ pc'[c] = "submit"
           \/ pc'[c] = "returned" /\ result'[c] # "ok"
    BY <1>5, Reads
  <2>2. devices # {}
    BY <1>2 DEF MachineOK
  <2>4. task.by # c /\ c \notin refused
    BY <1>2, <2>1 DEF ParsedOf, HasAsked
  <2>5. found'[c] # {} /\ pc'[c] \notin {"reconfigure", "read"}
    BY <2>1, <2>2
  <2>6. HasAsked(c)' => Outcome(request[c], devices) = "change"
    BY <2>1, <2>4 DEF HasAsked
  <2> QED
    BY <2>1, <2>5, <2>6 DEF ParsedOf
<1> QED
  BY <1>4, <1>5

LEMMA TaskKept ==
    ASSUME TypeOK, DevicesInv, [Next]_vars, NEW c \in Closures
    PROVE  TaskOf(c)'
<1>1. TaskOf(c)
  BY DEF DevicesInv
<1>2. ASSUME NEW d \in Closures, Step(d)
      PROVE  TaskOf(c)'
  <2>1. CASE Submit(d) \/ Move(d)
    BY <1>1, <2>1, DevicesAssumption DEF TypeOK, TaskOf, Submit, Move, StartTask, Goto, Return, NoTask, Waiting
  <2>2. CASE Reconfiguring(d) \/ Moving(d)
    BY <1>1, <2>2 DEF TypeOK, TaskOf, Reconfiguring, Moving, Await, Goto, Return, machine, Waiting
  <2>3. CASE Reconfigure(d) \/ Relocate(d) \/ parseStorage(d) \/ Survey(d) \/ Parse(d)
    BY <1>1, <2>3 DEF TypeOK, TaskOf, Reconfigure, Relocate, parseStorage, Survey, Parse, Goto,
                      Return, Calm, machine, Waiting
  <2> QED
    BY <1>2, <2>1, <2>2, <2>3 DEF Step
<1>3. ASSUME NEW d \in Closures, TaskEnds(d)
      PROVE  TaskOf(c)'
  BY <1>1, <1>3, DevicesAssumption DEF TypeOK, TaskOf, TaskEnds, Configures, Relocates, Fails, Learn, NoTask
<1>4. ASSUME UNCHANGED vars
      PROVE  TaskOf(c)'
  BY <1>1, <1>4 DEF vars, machine, local, TaskOf
<1> QED
  BY <1>2, <1>3, <1>4 DEF Next, Returned

\* While the devices stay, but for networks and datastores, a list stays fresh.
Alike(ds, es) ==
    /\ \A d \in ds : \E e \in es : Same(d, e)
    /\ \A e \in es : \E d \in ds : Same(d, e)

LEMMA AlikeIs ==
    ASSUME NEW ds, NEW es, NEW fs, Alike(ds, es), Alike(es, fs)
    PROVE  Alike(ds, fs)
<1>1. ASSUME NEW d \in ds
      PROVE  \E f \in fs : Same(d, f)
  <2>1. PICK e \in es : Same(d, e)
    BY DEF Alike
  <2>2. PICK f \in fs : Same(e, f)
    BY DEF Alike
  <2> QED
    BY <2>1, <2>2 DEF Same
<1>2. ASSUME NEW f \in fs
      PROVE  \E d \in ds : Same(d, f)
  <2>1. PICK e \in es : Same(e, f)
    BY DEF Alike
  <2>2. PICK d \in ds : Same(d, e)
    BY DEF Alike
  <2> QED
    BY <2>1, <2>2 DEF Same
<1> QED
  BY <1>1, <1>2 DEF Alike

LEMMA FreshKept ==
    ASSUME TypeOK, DevicesInv, [Next]_vars, NEW c \in Closures
    PROVE  FreshOf(c)'
<1> SUFFICES ASSUME Fresh(c)'
             PROVE  Alike(found'[c], devices')
  BY DEF FreshOf, Alike
<1>1. FreshOf(c) /\ TaskOf(c) /\ MachineOK
  BY DEF DevicesInv
<1>2. CASE found'[c] # found[c]
  <2>1. found'[c] = devices /\ UNCHANGED devices
    BY <1>2, Reads
  <2> QED
    BY <2>1 DEF Alike, Same
<1>3. CASE found'[c] = found[c]
  <2>1. ASSUME NEW d \in Closures, Step(d)
        PROVE  Alike(found[c], devices')
    <3>1. UNCHANGED <<devices, stale>>
      BY <2>1, StepQuiet
    <3>2. Fresh(c)
      <4>1. CASE Submit(d) \/ Move(d)
        BY <3>1, <4>1 DEF TypeOK, Fresh, Submit, Move, StartTask, Goto, Return
      <4>2. CASE Reconfiguring(d) \/ Moving(d)
        BY <3>1, <4>2 DEF TypeOK, Fresh, Reconfiguring, Moving, Await, Goto, Return, machine
      <4>3. CASE Reconfigure(d) \/ Relocate(d) \/ parseStorage(d) \/ Survey(d)
        BY <3>1, <4>3 DEF TypeOK, Fresh, Reconfigure, Relocate, parseStorage, Survey, Goto,
                          Return, Calm, machine
      <4>4. CASE Parse(d)
        <5>1. ~(d = c /\ found' = [found EXCEPT ![c] = devices])
          BY <1>1, <1>3, <4>4 DEF DevicesInv, ParsedOf, MachineOK, TypeOK, Parse
        <5> QED
          BY <3>1, <4>4, <5>1 DEF TypeOK, Fresh, Parse, Goto, Return, Calm, machine
      <4> QED
        BY <2>1, <4>1, <4>2, <4>3, <4>4 DEF Step
    <3> QED
      BY <1>1, <3>1, <3>2 DEF FreshOf, Alike
  <2>2. ASSUME NEW d \in Closures, TaskEnds(d)
        PROVE  Alike(found[c], devices')
    <3>1. task.by = d /\ task' = NoTask /\ UNCHANGED pc
      BY <2>2 DEF TaskEnds
    <3>2. pc[c] = "submit" /\ c \notin stale'
      BY <3>1 DEF Fresh, NoTask
    <3>3. d # c
      BY <1>1, <3>1, <3>2 DEF TaskOf, TypeOK, Waiting
    <3>4. ~Configures(d)
      BY <3>2, <3>3 DEF Configures, Reading
    <3>5. c \notin stale
      BY <2>2, <3>2, <3>4 DEF TaskEnds, Relocates, Fails
    <3>6. Alike(found[c], devices)
      BY <1>1, <3>2, <3>5 DEF FreshOf, Fresh, Alike
    <3>7. Alike(devices, devices')
      <4>1. CASE Relocates(d)
        BY <1>1, <4>1, RelocatedIs DEF Alike, MovedTo
      <4>2. CASE Fails(d)
        BY <4>2 DEF Fails, Alike, Same
      <4> QED
        BY <2>2, <3>4, <4>1, <4>2 DEF TaskEnds
    <3> QED
      BY <3>6, <3>7, AlikeIs
  <2>3. ASSUME UNCHANGED vars
        PROVE  Alike(found[c], devices')
    BY <1>1, <2>3 DEF vars, machine, local, history, Fresh, FreshOf, Alike
  <2> QED
    BY <1>3, <2>1, <2>2, <2>3 DEF Next, Returned
<1> QED
  BY <1>2, <1>3

-----------------------------------------------------------------------------
(* What a change has done.                                                   *)

LEMMA DoneAsked ==
    ASSUME TypeOK, NEW c \in Closures, Done(c)
    PROVE  HasAsked(c) /\ pc[c] \notin {"reconfigure", "read", "submit"}
  BY DEF TypeOK, Done, HasAsked

\* A closure's change is done when its task ends well while it waits.
LEMMA GetsDone ==
    ASSUME TypeOK, DevicesInv, [Next]_vars, NEW c \in Closures, Done(c)'
    PROVE  Done(c) \/ (task.by = c /\ Configures(c))
<1> USE DEF TypeOK, Done
<1>1. ASSUME NEW d \in Closures, Step(d)
      PROVE  Done(c)
  <2>1. CASE Submit(d) \/ Move(d)
    BY <2>1 DEF Submit, Move, StartTask, Goto, Return
  <2>2. CASE Reconfiguring(d) \/ Moving(d)
    BY <2>2 DEF Reconfiguring, Moving, Await, Goto, Return
  <2>3. CASE Reconfigure(d) \/ Relocate(d) \/ parseStorage(d) \/ Survey(d)
    BY <2>3 DEF Reconfigure, Relocate, parseStorage, Survey, Goto, Return, Calm
  <2>4. CASE Parse(d)
    <3>1. Outcome(request[d], devices) \in {"error", "panic", "change"}
      BY DEF Outcome
    <3> QED
      BY <2>4, <3>1 DEF Parse, Goto, Return, Calm
  <2> QED
    BY <1>1, <2>1, <2>2, <2>3, <2>4 DEF Step
<1>2. ASSUME NEW d \in Closures, TaskEnds(d)
      PROVE  Done(c) \/ (task.by = c /\ Configures(c))
  <2>1. TaskOf(c)
    BY DEF DevicesInv
  <2> QED
    BY <1>2, <2>1 DEF TaskEnds, TaskOf, Configures, Relocates, Fails, Learn
<1>3. ASSUME UNCHANGED vars
      PROVE  Done(c)
  BY <1>3 DEF vars, local
<1> QED
  BY <1>1, <1>2, <1>3 DEF Next, Returned

LEMMA DoneKept ==
    ASSUME TypeOK, DevicesInv, [Next]_vars, NEW c \in Closures
    PROVE  DoneOf(c)'
<1> SUFFICES ASSUME Done(c)'
             PROVE  DoneOf(c)'
  BY DEF DoneOf
<1>1. Evolved /\ UNCHANGED request
  BY MachineEvolves
<1>2. HasAsked(c)
  BY GetsDone, DoneAsked DEF HasAsked
<1>3. /\ found[c] # {} /\ found[c] \in SUBSET DeviceSet /\ IsFiniteSet(found[c])
      /\ request[c] \in Requests /\ change[c] = Change(request[c], found[c])
  BY <1>2, AskedFor
<1>4. found'[c] = found[c] /\ change'[c] = change[c]
  <2>1. pc[c] # "read"
    BY <1>2, <1>3 DEF DevicesInv, ParsedOf
  <2> QED
    BY <2>1, Reads
<1>5. \A k \in change[c].removes : k \in Nat /\ k < nextKey
  <2>1. change[c].removes \subseteq Keys(found[c])
    BY <1>3, ChangeOf
  <2> QED
    BY <1>3, <2>1 DEF DevicesInv, FoundOf, Keys, DeviceSet
<1>6. nextKey \in Nat /\ nextKey' \in Nat /\ nextKey' >= nextKey
      /\ devices \in SUBSET DeviceSet /\ devices' \in SUBSET DeviceSet
  BY <1>1 DEF Evolved, TypeOK
<1>7. CASE Done(c)
  <2>1. DoneOf(c)
    BY DEF DevicesInv
  <2>2. ASSUME NEW e \in devices', e.key \in change[c].removes
        PROVE  FALSE
    <3>1. ~(e.key >= nextKey)
      BY <1>5, <1>6, <2>2 DEF DeviceSet
    <3>2. PICK d \in devices : Same(d, e)
      BY <1>1, <3>1 DEF Evolved
    <3> QED
      BY <1>7, <2>1, <2>2, <3>2 DEF DoneOf, Same, Keys
  <2>3. ASSUME request[c].disks # << >>, c \notin robbed'
        PROVE  \E e \in GetDisks(devices') :
                 e.by = c /\ e.ctrl = DiskCtrl /\ e.unit = assignController(found[c])
    <3>1. c \notin robbed
      BY <1>1, <2>3 DEF Evolved
    <3>2. PICK d \in GetDisks(devices) :
            d.by = c /\ d.ctrl = DiskCtrl /\ d.unit = assignController(found[c])
      BY <1>7, <2>1, <2>3, <3>1 DEF DoneOf
    <3>3. PICK e \in devices' : Same(d, e)
      BY <1>1, <2>3, <3>2, DevicesAssumption DEF Evolved, GetDisks
    <3> QED
      BY <3>2, <3>3 DEF Same, GetDisks
  <2> QED
    BY <1>1, <1>4, <1>7, <2>1, <2>2, <2>3 DEF DoneOf, Keys
<1>8. CASE task.by = c /\ Configures(c)
  <2>1. /\ \A e \in devices' :
             \/ \E d \in devices : d.key \notin change[c].removes /\ MovedTo(d, e, Nets(change[c]))
             \/ New(e, change[c], c)
        /\ \A i \in DOMAIN change[c].units : \E e \in GetDisks(devices') :
             e.ctrl = DiskCtrl /\ e.by = c /\ e.unit = change[c].units[i]
    BY <1>8, Configured
  <2>2. /\ DOMAIN change[c].units = DOMAIN request[c].disks
        /\ \A i \in DOMAIN change[c].units : change[c].units[i] = assignController(found[c])
    BY <1>3, ChangeOf
  <2>3. request[c].disks \in Seq(Names)
    BY <1>3, RequestTypes
  <2>4. ASSUME NEW e \in devices', e.key \in change[c].removes
        PROVE  FALSE
    <3>1. ~(e.key >= nextKey)
      BY <1>5, <1>6, <2>4 DEF DeviceSet
    <3> QED
      BY <2>1, <2>4, <3>1 DEF New, MovedTo, Same
  <2>5. Len(request[c].disks) <= 1
    <3>1. \A i, j \in DOMAIN change[c].units : change[c].units[i] = change[c].units[j] => i = j
      BY <1>8 DEF Configures, Fits
    <3>0. DOMAIN change[c].units = 1..Len(request[c].disks)
      BY <2>2, <2>3, SequenceIs
    <3>2. \A i, j \in 1..Len(request[c].disks) : i = j
      BY <2>2, <3>0, <3>1
    <3>3. Len(request[c].disks) \in Nat
      BY <2>3
    <3>4. CASE Len(request[c].disks) > 1
      <4>1. 1 \in 1..Len(request[c].disks) /\ 2 \in 1..Len(request[c].disks)
        BY <3>3, <3>4
      <4> QED
        BY <3>2, <4>1
    <3> QED
      BY <3>3, <3>4
  <2>6. ASSUME request[c].disks # << >>
        PROVE  \E e \in GetDisks(devices') :
                 e.by = c /\ e.ctrl = DiskCtrl /\ e.unit = assignController(found[c])
    <3>1. 1 \in DOMAIN request[c].disks
      BY <2>3, <2>6
    <3> QED
      BY <2>1, <2>2, <3>1
  <2> QED
    BY <1>1, <1>4, <2>4, <2>5, <2>6 DEF DoneOf, Keys
<1> QED
  BY <1>7, <1>8, GetsDone

LEMMA AtMostOne ==
    ASSUME NEW n \in Nat, n <= 1, NEW i \in 1..n
    PROVE  i = 1 /\ n = 1
  OBVIOUS

\* The disks with the number that c has noted are its own.
LEMMA NotedAreOwn ==
    ASSUME TypeOK, DevicesInv, NEW c \in Closures, Done(c), Wanted(c) # {},
           ~Misnoted(c), c \notin robbed,
           NEW i \in Wanted(c), NEW d \in OnUnit(Noted(c)[i])
    PROVE  i = 1 /\ d.by = c
<1>1. /\ found[c] # {} /\ found[c] \in SUBSET DeviceSet /\ IsFiniteSet(found[c])
      /\ request[c] \in Requests
  BY DoneAsked, AskedFor
<1>2. MachineOK /\ FoundOf(c) /\ DoneOf(c)
  BY DEF DevicesInv
<1>3. request[c].disks \in Seq(Names)
  BY <1>1, RequestTypes
<1>4. i = 1 /\ Len(request[c].disks) = 1 /\ request[c].disks # << >>
  <2>1. i \in 1..Len(request[c].disks) /\ Len(request[c].disks) \in Nat
    BY <1>3 DEF Wanted
  <2>2. Len(request[c].disks) <= 1
    BY <1>2 DEF DoneOf
  <2>3. i = 1 /\ Len(request[c].disks) = 1
    BY <2>1, <2>2, AtMostOne
  <2>4. request[c].disks # << >>
    BY <2>3
  <2> QED
    BY <2>3, <2>4
<1>5. Noted(c)[1] = assignController(found[c])
  <2>1. \E x \in found[c] : IsSystem(x)
    BY <1>1, <1>2 DEF FoundOf
  <2>2. assignController(found[c]) \notin {x.unit : x \in Others(found[c])}
    BY DEF Misnoted
  <2> QED
    BY <1>1, <1>4, <2>1, <2>2, NotedAgrees DEF Noted
<1>6. d \in GetDisks(devices) /\ d.unit = assignController(found[c])
  BY <1>4, <1>5 DEF OnUnit
<1>7. d.ctrl = DiskCtrl
  <2>1. ASSUME d.ctrl # DiskCtrl
        PROVE  FALSE
    <3>1. PICK x \in found[c] : x.key = d.key
      BY <1>1, <1>2, <1>6, <2>1 DEF FoundOf, Keys
    <3>2. Same(x, d)
      BY <1>2, <1>6, <3>1 DEF FoundOf, GetDisks
    <3> QED
      BY <1>6, <2>1, <3>2 DEF Same, Misnoted, Others
  <2> QED  BY <2>1
<1>8. PICK e \in GetDisks(devices) :
        e.by = c /\ e.ctrl = DiskCtrl /\ e.unit = assignController(found[c])
  BY <1>2, <1>4 DEF DoneOf
<1>9. d = e
  BY <1>2, <1>6, <1>7, <1>8 DEF MachineOK
<1> QED
  BY <1>4, <1>8, <1>9

-----------------------------------------------------------------------------
(* What is moved, and where it is.                                           *)

\* Only the survey after a change sets what is to be moved.
LEMMA Surveys ==
    ASSUME TypeOK, [Next]_vars, NEW c \in Closures
    PROVE  \/ moves'[c] = moves[c]
           \/ Survey(c) /\ moves' = [moves EXCEPT ![c] = moves'[c]]
<1> USE DEF TypeOK
<1>1. ASSUME NEW d \in Closures, Step(d), ~Survey(d)
      PROVE  UNCHANGED moves
  BY <1>1 DEF Step, Reconfigure, Submit, StartTask, Reconfiguring, Await, Parse, Relocate,
              parseStorage, Move, Moving
<1>2. ASSUME NEW d \in Closures, TaskEnds(d)
      PROVE  UNCHANGED moves
  BY <1>2 DEF TaskEnds
<1>3. ASSUME UNCHANGED vars
      PROVE  UNCHANGED moves
  BY <1>3 DEF vars, local
<1>4. ASSUME NEW d \in Closures, Survey(d)
      PROVE  moves'[c] = moves[c] \/ (d = c /\ moves' = [moves EXCEPT ![c] = moves'[c]])
  BY <1>4 DEF Survey
<1> QED
  BY <1>1, <1>2, <1>3, <1>4 DEF Next, Returned

LEMMA SurveyIs ==
    ASSUME TypeOK, DevicesInv, NEW c \in Closures, Survey(c), moves'[c] # moves[c]
    PROVE  /\ pc[c] = "survey" /\ Done(c) /\ Wanted(c) # {} /\ UNCHANGED devices
           /\ \A m \in moves'[c] : \E d \in OnUnit(Noted(c)[1]) :
                m.key = d.key /\ m.store = request[c].disks[1] /\ 1 \in Wanted(c)
           /\ pc'[c] = "relocate"
<1>1. pc[c] = "survey" /\ Done(c) /\ moves[c] = {}
  BY DEF Survey, Done, DevicesInv, MovesOf
<1>2. /\ moves' = [moves EXCEPT ![c] =
                     UNION {{[key |-> d.key, store |-> request[c].disks[i]] :
                               d \in {e \in OnUnit(Noted(c)[i]) : e.on # request[c].disks[i]}} :
                              i \in Wanted(c)}]
      /\ UNCHANGED devices
      /\ IF moves'[c] = {} THEN Return(c, "ok") ELSE Goto(c, "relocate")
  BY DEF Survey, Calm, machine
<1>3. \A m \in moves'[c] : \E i \in Wanted(c) : \E d \in OnUnit(Noted(c)[i]) :
        m.key = d.key /\ m.store = request[c].disks[i]
  BY <1>2 DEF TypeOK
<1>4. \A i \in Wanted(c) : i = 1
  <2>1. HasAsked(c) /\ DoneOf(c)
    BY <1>1, DoneAsked DEF DevicesInv
  <2>2. request[c].disks \in Seq(Names)
    BY <2>1, AskedFor, RequestTypes
  <2>3. Len(request[c].disks) <= 1 /\ Len(request[c].disks) \in Nat
    BY <1>1, <2>1, <2>2 DEF DoneOf
  <2>4. \A i \in Wanted(c) : i \in 1..Len(request[c].disks)
    BY <2>2, SequenceIs DEF Wanted
  <2> QED
    BY <2>3, <2>4
<1>5. moves'[c] # {}
  BY <1>1
<1>6. pc'[c] = "relocate"
  BY <1>2, <1>5 DEF Goto, TypeOK
<1> QED
  BY <1>1, <1>2, <1>3, <1>4, <1>5, <1>6

\* Where a closure is tells whether it has disks to move.
LEMMA MovesStage ==
    ASSUME TypeOK, DevicesInv, [Next]_vars, NEW c \in Closures
    PROVE  /\ pc'[c] \in {"reconfigure", "read", "submit", "reconfiguring", "survey"} => moves'[c] = {}
           /\ pc'[c] \in {"relocate", "locate", "move", "moving"} => moves'[c] # {}
<1>1. MovesOf(c)
  BY DEF DevicesInv
<1>2. ASSUME NEW d \in Closures, TaskEnds(d)
      PROVE  pc'[c] = pc[c] /\ moves'[c] = moves[c]
  BY <1>2 DEF TaskEnds
<1>3. ASSUME UNCHANGED vars
      PROVE  pc'[c] = pc[c] /\ moves'[c] = moves[c]
  BY <1>3 DEF vars, local
<1>4. ASSUME NEW d \in Closures, Step(d), d # c
      PROVE  pc'[c] = pc[c] /\ moves'[c] = moves[c]
  <2>1. pc'[c] = pc[c]
    BY <1>4 DEF TypeOK, Step, Reconfigure, Relocate, parseStorage, Submit, Move, StartTask,
                Reconfiguring, Moving, Await, Survey, Parse, Goto, Return
  <2>2. moves'[c] = moves[c]
    BY <1>4 DEF TypeOK, Step, Reconfigure, Relocate, parseStorage, Submit, Move, StartTask,
                Reconfiguring, Moving, Await, Survey, Parse
  <2> QED  BY <2>1, <2>2
<1>5. ASSUME Survey(c)
      PROVE  pc'[c] = "returned" \/ (pc'[c] = "relocate" /\ moves'[c] # {})
  BY <1>5 DEF Survey, Goto, Return, TypeOK
<1>6. ASSUME Step(c), ~Survey(c)
      PROVE  \/ pc'[c] = "returned"
             \/ /\ moves'[c] = moves[c]
                /\ \/ pc[c] \in {"reconfigure", "read", "submit", "reconfiguring"}
                      /\ pc'[c] \in {"read", "submit", "reconfiguring", "survey"}
                   \/ pc[c] \in {"relocate", "locate", "move", "moving"}
                      /\ pc'[c] \in {"locate", "move", "moving"}
  <2>1. moves'[c] = moves[c]
    BY <1>6 DEF Step, Reconfigure, Relocate, parseStorage, Submit, Move, StartTask,
                Reconfiguring, Moving, Await, Parse
  <2>2. \/ pc'[c] = "returned"
        \/ pc[c] \in {"reconfigure", "read", "submit", "reconfiguring"}
           /\ pc'[c] \in {"read", "submit", "reconfiguring", "survey"}
        \/ pc[c] \in {"relocate", "locate", "move", "moving"}
           /\ pc'[c] \in {"locate", "move", "moving"}
    BY <1>6 DEF TypeOK, Step, Reconfigure, Relocate, parseStorage, Submit, Move, StartTask,
                Reconfiguring, Moving, Await, Parse, Goto, Return
  <2> QED  BY <2>1, <2>2
<1> QED
  BY <1>1, <1>2, <1>3, <1>4, <1>5, <1>6 DEF MovesOf, Next, Returned

LEMMA MovesKept ==
    ASSUME TypeOK, DevicesInv, [Next]_vars, NEW c \in Closures
    PROVE  MovesOf(c)'
<1>1. Evolved /\ UNCHANGED request
  BY MachineEvolves
<1>2. MovesOf(c) /\ MachineOK
  BY DEF DevicesInv
<1>3. /\ nextKey \in Nat /\ devices \in SUBSET DeviceSet
      /\ moves[c] \in SUBSET [key : Nat, store : Names]
  BY DEF TypeOK
<1>4. ASSUME NEW m \in moves'[c]
      PROVE  /\ m.key < nextKey'
             /\ m.store = request[c].disks[1]
             /\ \A e \in devices' : e.key = m.key => e.kind = "disk"
  <2>1. CASE moves'[c] = moves[c]
    <3>1. /\ m.key \in Nat /\ m.key < nextKey /\ m.store = request[c].disks[1]
          /\ \A d \in devices : d.key = m.key => d.kind = "disk"
      BY <1>2, <1>3, <1>4, <2>1 DEF MovesOf
    <3>2. m.key < nextKey'
      BY <1>1, <1>3, <3>1 DEF Evolved
    <3>3. ASSUME NEW e \in devices', e.key = m.key
          PROVE  e.kind = "disk"
      <4>1. PICK d \in devices : Same(d, e)
        BY <1>1, <1>3, <3>1, <3>3 DEF Evolved
      <4> QED
        BY <3>1, <3>3, <4>1 DEF Same
    <3> QED
      BY <3>1, <3>2, <3>3
  <2>2. CASE moves'[c] # moves[c]
    <3>1. Survey(c)
      BY <2>2, Surveys
    <3>2. UNCHANGED devices /\ \E d \in OnUnit(Noted(c)[1]) :
             m.key = d.key /\ m.store = request[c].disks[1] /\ 1 \in Wanted(c)
      BY <1>4, <2>2, <3>1, SurveyIs
    <3>3. PICK d \in OnUnit(Noted(c)[1]) : m.key = d.key /\ m.store = request[c].disks[1]
      BY <3>2
    <3>4. d \in devices /\ d.kind = "disk"
      BY DEF OnUnit, GetDisks
    <3>5. UNCHANGED nextKey
      BY <3>1 DEF Survey, Calm, machine
    <3> QED
      BY <1>2, <3>2, <3>3, <3>4, <3>5 DEF MachineOK
  <2> QED
    BY <2>1, <2>2
<1> QED
  BY <1>1, <1>4, MovesStage DEF MovesOf

\* A closure moves only disks that it has added.
Owns(c) == ~Misnoted(c) /\ c \notin robbed =>
              \A m \in moves[c] : \A d \in devices : d.key = m.key => d.by = c

LEMMA OwnKept ==
    ASSUME TypeOK, DevicesInv, MovesOwnDisks, [Next]_vars, NEW c \in Closures
    PROVE  Owns(c)'
<1> SUFFICES ASSUME ~Misnoted(c)', c \notin robbed', NEW m \in moves'[c], NEW e \in devices',
                    e.key = m.key
             PROVE  e.by = c
  BY DEF Owns
<1>1. Evolved
  BY MachineEvolves
<1>2. Owns(c) /\ MovesOf(c) /\ ParsedOf(c) /\ MachineOK
  BY DEF DevicesInv, MovesOwnDisks, Owns
<1>3. /\ nextKey \in Nat /\ devices \in SUBSET DeviceSet
      /\ moves[c] \in SUBSET [key : Nat, store : Names]
  BY DEF TypeOK
<1>4. c \notin robbed
  BY <1>1 DEF Evolved
<1>5. CASE moves'[c] = moves[c]
  <2>1. pc[c] # "read"
    BY <1>2, <1>5 DEF MovesOf
  <2>2. found'[c] = found[c]
    BY <2>1, Reads
  <2>3. ~Misnoted(c)
    BY <2>2 DEF Misnoted
  <2>4. m.key \in Nat /\ m.key < nextKey
    BY <1>2, <1>3, <1>5 DEF MovesOf
  <2>5. PICK d \in devices : Same(d, e)
    BY <1>1, <1>3, <2>4 DEF Evolved
  <2> QED
    BY <1>2, <1>4, <1>5, <2>3, <2>5 DEF Owns, Same
<1>6. CASE moves'[c] # moves[c]
  <2>1. Survey(c)
    BY <1>6, Surveys
  <2>2. /\ Done(c) /\ Wanted(c) # {} /\ UNCHANGED devices
        /\ \E d \in OnUnit(Noted(c)[1]) : m.key = d.key /\ 1 \in Wanted(c)
    BY <1>6, <2>1, SurveyIs
  <2>3. PICK d \in OnUnit(Noted(c)[1]) : m.key = d.key /\ 1 \in Wanted(c)
    BY <2>2
  <2>4. UNCHANGED found
    BY <2>1 DEF Survey
  <2>5. ~Misnoted(c)
    BY <2>4 DEF Misnoted
  <2>6. d.by = c
    BY <1>4, <2>2, <2>3, <2>5, NotedAreOwn
  <2>7. d \in devices
    BY DEF OnUnit, GetDisks
  <2> QED
    BY <1>2, <2>2, <2>3, <2>6, <2>7 DEF MachineOK
<1> QED
  BY <1>5, <1>6

\* A closure comes to a success, or to the end of its move, by one of these.
LEMMA GetsPlaced ==
    ASSUME TypeOK, DevicesInv, [Next]_vars, NEW c \in Closures, Placed(c)', ~Placed(c)
    PROVE  \/ ~MayRelocate(c)
           \/ Survey(c) /\ result'[c] = "ok"
           \/ task.by = c /\ Relocates(c) /\ pc[c] = "moving"
<1> USE DEF TypeOK, Placed
<1>1. ASSUME NEW d \in Closures, Step(d)
      PROVE  ~MayRelocate(c) \/ (Survey(c) /\ result'[c] = "ok")
  <2>1. CASE Submit(d) \/ Move(d)
    BY <2>1 DEF Submit, Move, StartTask, Goto, Return
  <2>2. CASE Reconfiguring(d) \/ Moving(d)
    BY <2>2 DEF Reconfiguring, Moving, Await, Goto, Return
  <2>3. CASE Reconfigure(d) \/ Relocate(d) \/ parseStorage(d)
    BY <2>3 DEF Reconfigure, Relocate, parseStorage, Goto, Return, Calm
  <2>4. CASE Parse(d)
    <3>1. Outcome(request[d], devices) \in {"error", "panic", "change"}
      BY DEF Outcome
    <3> QED
      BY <2>4, <3>1 DEF Parse, Goto, Return, Calm
  <2>5. CASE Survey(d)
    BY <2>5 DEF Survey, Goto, Return, Calm
  <2> QED
    BY <1>1, <2>1, <2>2, <2>3, <2>4, <2>5 DEF Step
<1>2. ASSUME NEW d \in Closures, TaskEnds(d)
      PROVE  task.by = c /\ Relocates(c) /\ pc[c] = "moving"
  <2>1. TaskOf(c)
    BY DEF DevicesInv
  <2> QED
    BY <1>2, <2>1 DEF TaskEnds, TaskOf, Configures, Relocates, Fails, Learn
<1>3. ~UNCHANGED vars
  BY DEF vars, local
<1> QED
  BY <1>1, <1>2, <1>3 DEF Next, Returned

\* A disk stays where it is unless it is moved as another closure's.
LEMMA StaysThere ==
    ASSUME TypeOK, DevicesInv, [Next]_vars, NEW c \in Closures, c \notin robbed',
           NEW d \in GetDisks(devices), d.by = c,
           ~ \E e \in Closures : task.by = e /\ Relocates(e) /\ d.key \in {m.key : m \in moves[e]}
    PROVE  \E e \in GetDisks(devices') : Same(d, e) /\ e.on = d.on
<1>1. ASSUME UNCHANGED devices
      PROVE  \E e \in GetDisks(devices') : Same(d, e) /\ e.on = d.on
  BY <1>1 DEF Same
<1>2. ASSUME NEW e \in Closures, TaskEnds(e)
      PROVE  \E x \in GetDisks(devices') : Same(d, x) /\ x.on = d.on
  <2>1. task.by = e
    BY <1>2 DEF TaskEnds
  <2>2. CASE Configures(e)
    <3>1. \E x \in devices' : MovedTo(d, x, Nets(change[e]))
      BY <2>1, <2>2, Configured, DevicesAssumption DEF GetDisks
    <3>2. \A n \in Nets(change[e]) : d.key = n[1] => d.kind = "card"
      BY <2>1, <2>2, Configured DEF GetDisks
    <3> QED
      BY <3>1, <3>2 DEF MovedTo, GetDisks, Same
  <2>3. CASE Relocates(e)
    <3>1. MachineOK
      BY DEF DevicesInv
    <3>2. \E x \in devices' : MovedTo(d, x, Targets(moves[e]))
      BY <2>3, <3>1, RelocatedIs DEF GetDisks
    <3>3. d.key \notin {m.key : m \in moves[e]}
      BY <2>1, <2>3
    <3> QED
      BY <3>2, <3>3 DEF MovedTo, GetDisks, Same, Targets
  <2>4. CASE Fails(e)
    BY <1>1, <2>4 DEF Fails
  <2> QED
    BY <1>2, <2>2, <2>3, <2>4 DEF TaskEnds
<1> QED
  BY <1>1, <1>2, StepQuiet DEF Next, Returned, vars, machine

\* A disk that is taken stays taken.
LEMMA StaysTaken ==
    ASSUME TypeOK, DevicesInv, [Next]_vars, NEW c \in Closures, Taken(c), c \notin robbed'
    PROVE  Taken(c)'
<1>0. PICK e \in Closures \ {c} : \E m \in moves[e] : \E d \in devices : d.key = m.key /\ d.by = c
  BY DEF Taken
<1>1. PICK m \in moves[e] : \E d \in devices : d.key = m.key /\ d.by = c
  BY <1>0
<1>a. PICK d \in devices : d.key = m.key /\ d.by = c
  BY <1>1
<1>2. moves'[e] = moves[e]
  <2>1. ~Survey(e)
    BY <1>1 DEF Survey, DevicesInv, MovesOf
  <2> QED
    BY <2>1, Surveys
<1>3. Evolved
  BY MachineEvolves
<1>4. PICK x \in devices' : Same(d, x)
  BY <1>a, <1>3, DevicesAssumption DEF Evolved
<1>5. x.key = m.key /\ x.by = c
  BY <1>a, <1>4 DEF Same
<1> QED
  BY <1>1, <1>2, <1>5 DEF Taken

LEMMA PlacedKept ==
    ASSUME TypeOK, DevicesInv, MovesOwnDisks, [Next]_vars, NEW c \in Closures
    PROVE  PlacedOf(c)'
<1>1. Evolved /\ UNCHANGED request
  BY MachineEvolves
<1> SUFFICES ASSUME Placed(c)', Wanted(c) # {}, ~Excused(c)'
             PROVE  \E d \in GetDisks(devices') : d.by = c /\ d.on = request[c].disks[1]
  BY <1>1 DEF PlacedOf, Wanted
<1>2. MachineOK /\ PlacedOf(c) /\ TaskOf(c) /\ MovesOf(c) /\ ParsedOf(c)
  BY DEF DevicesInv
<1>3. c \notin robbed' /\ c \notin robbed /\ ~Taken(c)
  BY <1>1, StaysTaken DEF Evolved, Excused
<1>4. found'[c] = found[c] => ~Misnoted(c)
  BY DEF Excused, Misnoted
<1>5. CASE Placed(c)
  <2>1. found'[c] = found[c]
    <3>1. pc[c] # "read"
      BY <1>5 DEF Placed, TypeOK
    <3> QED  BY <3>1, Reads
  <2>2. PICK d \in GetDisks(devices) : d.by = c /\ d.on = request[c].disks[1]
    BY <1>2, <1>3, <1>4, <1>5, <2>1 DEF PlacedOf, Excused
  <2>3. ASSUME NEW e \in Closures, task.by = e, Relocates(e), d.key \in {m.key : m \in moves[e]}
        PROVE  FALSE
    <3>1. CASE e = c
      BY <1>2, <1>5, <2>3, <3>1 DEF TaskOf, Placed, TypeOK, Waiting
    <3>2. CASE e # c
      BY <1>3, <2>2, <2>3, <3>2 DEF Taken, GetDisks
    <3> QED  BY <3>1, <3>2
  <2>4. \E x \in GetDisks(devices') : Same(d, x) /\ x.on = d.on
    BY <1>3, <2>2, <2>3, StaysThere
  <2> QED
    BY <2>2, <2>4 DEF Same
<1>6. CASE ~Placed(c) /\ Survey(c) /\ result'[c] = "ok"
  <2>1. UNCHANGED <<found, devices>> /\ pc[c] = "survey" /\ Done(c)
    BY <1>6 DEF Survey, Calm, machine, Done
  <2>2. /\ \A i \in Wanted(c) : \E d \in OnUnit(Noted(c)[i]) : d.flat
        /\ moves' = [moves EXCEPT ![c] =
                       UNION {{[key |-> d.key, store |-> request[c].disks[i]] :
                                 d \in {e \in OnUnit(Noted(c)[i]) : e.on # request[c].disks[i]}} :
                                i \in Wanted(c)}]
        /\ moves'[c] = {}
    BY <1>6, <2>1 DEF Survey, Return, Goto, TypeOK
  <2>0. PICK i \in Wanted(c) : TRUE
    OBVIOUS
  <2>3. PICK d \in OnUnit(Noted(c)[i]) : d.flat
    BY <2>2
  <2>4. d.on = request[c].disks[i]
    <3>1. UNION {{[key |-> x.key, store |-> request[c].disks[k]] :
                    x \in {e \in OnUnit(Noted(c)[k]) : e.on # request[c].disks[k]}} :
                   k \in Wanted(c)} = {}
      BY <2>2 DEF TypeOK
    <3>2. {[key |-> x.key, store |-> request[c].disks[i]] :
             x \in {e \in OnUnit(Noted(c)[i]) : e.on # request[c].disks[i]}} = {}
      BY <3>1
    <3> QED
      BY <2>3, <3>2
  <2>5. i = 1 /\ d.by = c
    BY <1>3, <1>4, <2>1, <2>3, NotedAreOwn
  <2>6. d \in GetDisks(devices)
    BY DEF OnUnit
  <2> QED
    BY <2>1, <2>4, <2>5, <2>6
<1>7. CASE task.by = c /\ Relocates(c) /\ pc[c] = "moving"
  <2>1. found'[c] = found[c]
    BY <1>7, Reads
  <2>2. PICK m \in moves[c] : TRUE
    BY <1>2, <1>7 DEF MovesOf
  <2>3. PICK d \in devices : d.key = m.key
    BY <1>7, <2>2 DEF Relocates, Keys
  <2>4. d.by = c /\ d.kind = "disk"
    BY <1>2, <1>3, <1>4, <2>1, <2>3 DEF MovesOwnDisks, MovesOf
  <2>5. PICK e \in devices' :
          /\ MovedTo(d, e, Targets(moves[c]))
          /\ d.key \in {n.key : n \in moves[c]} => <<d.key, e.on>> \in Targets(moves[c])
    BY <1>2, <1>7, RelocatedIs
  <2>6. e.on = request[c].disks[1]
    BY <1>2, <2>3, <2>5 DEF Targets, MovesOf
  <2> QED
    BY <2>4, <2>5, <2>6 DEF MovedTo, Same, GetDisks
<1>8. CASE ~Placed(c) /\ ~MayRelocate(c)
  BY <1>8 DEF MayRelocate, Wanted
<1> QED
  BY <1>5, <1>6, <1>7, <1>8, GetsPlaced

-----------------------------------------------------------------------------
(* The theorems.                                                             *)

\* A change that fits the list it was made for fits the machine, if that is still
\* as it was.
LEMMA FreshFits ==
    ASSUME TypeOK, DevicesInv, NEW c \in Closures, HasAsked(c), Alike(found[c], devices),
           Len(request[c].disks) <= 1,
           request[c].removes \cap (request[c].edits \cup {m.key : m \in request[c].moves}) = {}
    PROVE  Fits(change[c])
<1> DEFINE ch == change[c]
           r == request[c]
           ds == found[c]
<1>1. /\ ds \in SUBSET DeviceSet /\ IsFiniteSet(ds) /\ r \in Requests
      /\ ch = Change(r, ds) /\ Outcome(r, ds) = "change"
  BY AskedFor
<1>2. /\ ch.removes \subseteq r.removes \cap Keys(ds)
      /\ ch.edits \subseteq r.edits \cap Keys(ds)
      /\ ch.moves \subseteq r.moves
      /\ DOMAIN ch.units = DOMAIN r.disks
      /\ \A i \in DOMAIN ch.units : ch.units[i] = assignController(ds)
      /\ \A m \in ch.moves : m.key \in Keys(GetEthernetCards(ds))
  BY <1>1, ChangeOf
<1>3. r.disks \in Seq(Names)
  BY <1>1, RequestTypes
<1>4. assignController(ds) \in Nat /\ assignController(ds) \notin UsedOn(ds, DiskCtrl)
  BY <1>1, AssignedIs
<1>5. Keys(ds) = Keys(devices)
  BY DEF Alike, Same, Keys
<1>6. UsedOn({d \in devices : d.key \notin ch.removes}, DiskCtrl) \subseteq UsedOn(ds, DiskCtrl)
  BY DEF Alike, Same, UsedOn
<1>7. \A i, j \in DOMAIN ch.units : i = j
  <2>1. DOMAIN ch.units = 1..Len(r.disks) /\ Len(r.disks) \in Nat
    BY <1>2, <1>3, SequenceIs
  <2>2. \A i, j \in 1..Len(r.disks) : i = j
    BY <2>1
  <2> QED
    BY <2>1, <2>2
<1>8. Values(ch.units) \subseteq {assignController(ds)}
  BY <1>2 DEF Values
<1>9. Values(ch.units) \subseteq 0..MaxUnit
  <2>1. CASE r.disks = << >>
    BY <1>2, <2>1 DEF Values
  <2>2. CASE r.disks # << >>
    <3>1. ~IsNic(r) /\ ~AddFails(r, ds)
      BY <1>1, <2>2, RequestTypes DEF Outcome
    <3> QED
      BY <1>1, <1>4, <1>8, <2>2, <3>1, RoomLeft, DevicesAssumption
  <2> QED  BY <2>1, <2>2
<1>10. ch.edits \cup {m.key : m \in ch.moves} \subseteq Keys(devices) \ ch.removes
  <2>1. \A m \in ch.moves : m.key \in Keys(ds)
    BY <1>2 DEF Keys, GetEthernetCards
  <2> QED
    BY <1>2, <1>5, <2>1
<1> HIDE DEF ch, r, ds
<1> QED
  BY <1>2, <1>4, <1>5, <1>6, <1>7, <1>8, <1>9, <1>10 DEF Fits, ch

LEMMA RefusalsInductive ==
    ASSUME TypeOK, DevicesInv, RefusalsAreWarranted, [Next]_vars
    PROVE  RefusalsAreWarranted'
<1> SUFFICES ASSUME NEW c \in Closures, c \in refused', c \notin stale',
                    Len(request[c].disks) <= 1,
                    request[c].removes \cap (request[c].edits \cup {m.key : m \in request[c].moves}) = {}
             PROVE  FALSE
  <2>1. UNCHANGED request
    BY MachineEvolves
  <2>2. \A c \in Closures : Len(request[c].disks) \in Nat
    BY RequestTypes DEF TypeOK
  <2>3. \A c \in refused' : c \in Closures
    BY HistoryTypes
  <2> QED
    BY <2>1, <2>2, <2>3 DEF RefusalsAreWarranted
<1>1. HasAsked(c) => found'[c] = found[c]
  <2>1. HasAsked(c) => pc[c] # "read"
    BY DEF DevicesInv, ParsedOf
  <2> QED  BY <2>1, Reads
<1>2. CASE c \in refused
  <2>1. found'[c] = found[c]
    BY <1>1, <1>2 DEF HasAsked
  <2>2. c \notin stale
    <3>1. stale \subseteq stale'
      BY StepQuiet DEF Next, Returned, vars, history, TaskEnds, Configures, Relocates, Fails
    <3> QED  BY <3>1
  <2>3. Len(request[c].disks) \in Nat
    BY RequestTypes DEF TypeOK
  <2> QED
    BY <1>2, <2>1, <2>2, <2>3 DEF RefusalsAreWarranted
<1>3. CASE c \notin refused
  <2>1. PICK d \in Closures : TaskEnds(d) /\ Fails(d)
    BY <1>3, StepQuiet DEF Next, Returned, vars, history, TaskEnds, Configures, Relocates
  <2>2. d = c /\ task.by = c /\ task.job = "configure" /\ ~Fits(change[c]) /\ UNCHANGED <<found, stale>>
    BY <1>3, <2>1 DEF TaskEnds, Fails
  <2>3. HasAsked(c)
    BY <2>2 DEF HasAsked
  <2>4. Fresh(c)
    <3>1. task = [job |-> "configure", by |-> c]
      BY <2>2, DevicesAssumption DEF TypeOK, NoTask
    <3> QED
      BY <2>2, <3>1 DEF Fresh
  <2>5. Alike(found[c], devices)
    BY <2>4 DEF DevicesInv, FreshOf, Alike
  <2>6. UNCHANGED request
    BY MachineEvolves
  <2> QED
    BY <2>2, <2>3, <2>5, <2>6, FreshFits
<1> QED
  BY <1>2, <1>3

IInv == TypeOK /\ DevicesInv /\ MovesOwnDisks /\ RefusalsAreWarranted

LEMMA Initially == Init => IInv
<1> SUFFICES ASSUME Init
             PROVE  IInv
  OBVIOUS
<1>1. /\ devices \in Layouts /\ devices \in SUBSET DeviceSet /\ IsFiniteSet(devices)
      /\ \A d, e \in devices : d.key = e.key => d = e
      /\ \A d, e \in GetDisks(devices) :
           d.ctrl = DiskCtrl /\ e.ctrl = DiskCtrl /\ d.unit = e.unit => d = e
      /\ \E d \in devices : IsSystem(d)
  BY DevicesAssumption DEF Init
<1>2. nextKey \in Nat /\ \A d \in devices : d.key < nextKey
  <2> DEFINE K == Keys(devices)
             f == [d \in devices |-> d.key]
  <2>1. K \in SUBSET Nat /\ K # {}
    BY <1>1 DEF Keys, DeviceSet
  <2>2. IsFiniteSet(K)
    <3>1. K = {f[d] : d \in devices} /\ f = [d \in devices |-> f[d]]
      BY DEF Keys
    <3> HIDE DEF f, K
    <3> QED  BY <1>1, <3>1, MappedFinite
  <2>3. \E n \in K : \A k \in K : k <= n
    <3> HIDE DEF K
    <3> QED  BY <2>1, <2>2, LargestOf
  <2> DEFINE n == CHOOSE n \in K : \A k \in K : k <= n
  <2>4. n \in K /\ \A k \in K : k <= n
    <3> HIDE DEF K
    <3> QED  BY <2>3
  <2>5. nextKey = 1 + n
    BY DEF Init
  <2>6. \A d \in devices : d.key \in K
    BY DEF Keys
  <2> HIDE DEF n, K
  <2>7. n \in Nat /\ \A d \in devices : d.key \in Nat /\ d.key <= n
    BY <2>1, <2>4, <2>6
  <2> QED
    BY <2>5, <2>7
<1>3. MachineOK
  BY <1>1, <1>2 DEF MachineOK
<1>4. TypeOK
  BY <1>1, <1>2, NoChangeType DEF Init, TypeOK, Pcs, Waiting
<1>5. ASSUME NEW c \in Closures
      PROVE  /\ FoundOf(c) /\ ParsedOf(c) /\ TaskOf(c) /\ FreshOf(c)
             /\ DoneOf(c) /\ MovesOf(c) /\ PlacedOf(c)
  <2>1. /\ pc[c] = "reconfigure" /\ found[c] = {} /\ change[c] = NoChange /\ moves[c] = {}
        /\ awaited[c] = "none" /\ result[c] = "none" /\ task = NoTask /\ task.by # c
        /\ c \notin refused
    BY DevicesAssumption DEF Init, NoTask
  <2>2. FoundOf(c) /\ ParsedOf(c) /\ MovesOf(c)
    BY <2>1, FS_EmptySet DEF FoundOf, ParsedOf, HasAsked, MovesOf
  <2>3. TaskOf(c) /\ FreshOf(c)
    BY <2>1, DevicesAssumption DEF TaskOf, FreshOf, Fresh, NoTask
  <2>4. DoneOf(c) /\ PlacedOf(c)
    BY <2>1 DEF DoneOf, PlacedOf, Done, Placed
  <2> QED
    BY <2>2, <2>3, <2>4
<1>6. MovesOwnDisks /\ RefusalsAreWarranted
  BY DEF Init, MovesOwnDisks, RefusalsAreWarranted
<1> QED
  BY <1>3, <1>4, <1>5, <1>6 DEF IInv, DevicesInv

LEMMA Inductive == IInv /\ [Next]_vars => IInv'
<1> SUFFICES ASSUME TypeOK, DevicesInv, MovesOwnDisks, RefusalsAreWarranted, [Next]_vars
             PROVE  IInv'
  BY DEF IInv
<1>1. MachineOK'
  BY MachineEvolves
<1>2. ASSUME NEW c \in Closures
      PROVE  (/\ FoundOf(c) /\ ParsedOf(c) /\ TaskOf(c) /\ FreshOf(c)
              /\ DoneOf(c) /\ MovesOf(c) /\ PlacedOf(c))'
  BY FoundKept, ParsedKept, TaskKept, FreshKept, DoneKept, MovesKept, PlacedKept
<1>3. DevicesInv'
  BY <1>1, <1>2 DEF DevicesInv
<1>4. MovesOwnDisks'
  BY OwnKept DEF MovesOwnDisks, Owns
<1> QED
  BY <1>3, <1>4, TypesInductive, RefusalsInductive DEF IInv

LEMMA Always == Spec => []IInv
  BY Initially, Inductive, PTL DEF Spec

\* The state stays within its types.
THEOREM DevicesTypeCorrect == Spec => []TypeOK
  BY Always, PTL DEF IInv

\* A closure moves only disks that it has added, however many others change the
\* machine at once: the number by which it knows them (generateUnitNum) is the one
\* that AssignController gave, and no other disk comes to that place.
THEOREM OnlyOwnDisksMove == Spec => []MovesOwnDisks
  BY Always, PTL DEF IInv

\* A change is refused only for what the code lets happen: others have changed the
\* machine since the reading, two new disks get one number, what is edited is
\* removed, or the controller is full.
THEOREM OnlyWarrantedRefusals == Spec => []RefusalsAreWarranted
  BY Always, PTL DEF IInv

\* What ReconfigureDisk and ReconfigureNic report as a success is one: disks are on
\* the datastores that were asked for, and what was removed stays away.
THEOREM SuccessesArePlaced == Spec => []SuccessIsPlaced
<1>1. IInv => SuccessIsPlaced
  <2> SUFFICES ASSUME TypeOK, DevicesInv, NEW c \in Closures, result[c] = "ok"
               PROVE  /\ ~IsNic(request[c]) /\ ~Excused(c) =>
                           \A i \in Wanted(c) :
                              \E d \in devices : d.by = c /\ d.kind = "disk" /\ d.on = request[c].disks[i]
                      /\ change[c].removes \cap Keys(devices) = {}
                      /\ ~IsNic(request[c]) =>
                           \A d \in GetDisks(devices) :
                              d.key \in request[c].removes /\ d.key \in Keys(found[c]) => d.unit = 0
    BY DEF IInv, SuccessIsPlaced
  <2>1. Done(c) /\ Placed(c) /\ DoneOf(c) /\ PlacedOf(c) /\ FoundOf(c)
    BY DEF DevicesInv, Done, Placed
  <2>2. /\ found[c] \in SUBSET DeviceSet /\ IsFiniteSet(found[c]) /\ request[c] \in Requests
        /\ change[c] = Change(request[c], found[c])
    BY <2>1, DoneAsked, AskedFor
  <2>3. change[c].removes \cap Keys(devices) = {} /\ Len(request[c].disks) <= 1
    BY <2>1 DEF DoneOf
  <2>4. ASSUME ~Excused(c), NEW i \in Wanted(c)
        PROVE  \E d \in devices : d.by = c /\ d.kind = "disk" /\ d.on = request[c].disks[i]
    <3>1. Len(request[c].disks) \in Nat /\ i \in 1..Len(request[c].disks)
      BY <2>2, RequestTypes, SequenceIs DEF Wanted
    <3>2. i = 1
      BY <2>3, <3>1, AtMostOne
    <3> QED
      BY <2>1, <2>4, <3>2 DEF PlacedOf, GetDisks
  <2>5. ASSUME ~IsNic(request[c]), NEW d \in GetDisks(devices),
               d.key \in request[c].removes, d.key \in Keys(found[c])
        PROVE  d.unit = 0
    <3>1. PICK x \in found[c] : x.key = d.key
      BY <2>5 DEF Keys
    <3>2. Same(x, d) /\ x.kind = "disk"
      BY <2>1, <2>5, <3>1 DEF FoundOf, GetDisks, Same
    <3>3. change[c].removes = removeDisk(request[c], found[c])
      BY <2>2, <2>5, ChangeOf
    <3>4. x.unit # 0 => d.key \in change[c].removes
      BY <2>5, <3>1, <3>2, <3>3 DEF removeDisk, GetDisks
    <3> QED
      BY <2>3, <3>2, <3>4 DEF Keys, Same, GetDisks
  <2> QED
    BY <2>3, <2>4, <2>5
<1> QED
  BY <1>1, Always, PTL

\* The device with a key is the one that has it.
LEMMA AtKey ==
    ASSUME NEW ds, NEW e \in ds, \A x, y \in ds : x.key = y.key => x = y
    PROVE  e.key \in Keys(ds) /\ At(ds, e.key) = e
  BY DEF Keys, At

\* What a step may do to a device.
MayChange(d) ==
    \/ /\ d.key \notin Keys(devices')
       /\ \E c \in Closures : d.key \in request[c].removes
       /\ d.kind = "disk" => d.unit # 0
    \/ /\ d.key \in Keys(devices')
       /\ LET e == At(devices', d.key)
          IN  /\ e.ctrl = d.ctrl /\ e.unit = d.unit
              /\ d.kind = "card" /\ e.on # d.on =>
                   \E c \in Closures : [key |-> d.key, net |-> e.on] \in request[c].moves

\* A device that a step keeps is changed only as a request wants it.
LEMMA KeptAsAsked ==
    ASSUME MachineOK', NEW d \in devices, NEW e \in devices', Same(d, e),
           d.kind = "card" /\ e.on # d.on =>
             \E c \in Closures : [key |-> d.key, net |-> e.on] \in request[c].moves
    PROVE  MayChange(d)
<1>1. e.key \in Keys(devices') /\ At(devices', e.key) = e
  BY AtKey DEF MachineOK
<1>2. e.key = d.key /\ e.ctrl = d.ctrl /\ e.unit = d.unit
  BY DEF Same
<1> QED
  BY <1>1, <1>2 DEF MayChange

LEMMA StepsAsAsked ==
    ASSUME IInv, [Next]_vars, NEW d \in devices
    PROVE  MayChange(d)
<1>1. TypeOK /\ DevicesInv /\ MachineOK /\ MachineOK' /\ d \in DeviceSet
  BY MachineEvolves DEF IInv, DevicesInv, TypeOK
<1>2. CASE UNCHANGED devices
  BY <1>1, <1>2, KeptAsAsked DEF Same
<1>3. ASSUME NEW c \in Closures, task.by = c, Configures(c)
      PROVE  MayChange(d)
  <2>1. /\ \A e \in devices' :
             \/ \E x \in devices : x.key \notin change[c].removes /\ MovedTo(x, e, Nets(change[c]))
             \/ New(e, change[c], c)
        /\ d.key \in change[c].removes \/ \E e \in devices' : MovedTo(d, e, Nets(change[c]))
    BY <1>1, <1>3, Configured
  <2>2. /\ found[c] \in SUBSET DeviceSet /\ IsFiniteSet(found[c]) /\ request[c] \in Requests
        /\ change[c] = Change(request[c], found[c]) /\ change[c] \in Changes
    BY <1>1, <1>3, AskedFor DEF HasAsked
  <2>3. CASE d.key \in change[c].removes
    <3>1. d.key \in request[c].removes
      BY <2>2, <2>3, ChangeOf
    <3>2. d.kind = "disk" => d.unit # 0
      <4>1. PICK x \in found[c] : x.key = d.key /\ (x.kind = "card" \/ (x.kind = "disk" /\ x.unit # 0))
        BY <2>2, <2>3, ChangeOf
      <4>2. Same(x, d)
        BY <1>1, <4>1 DEF DevicesInv, FoundOf
      <4> QED
        BY <4>1, <4>2 DEF Same
    <3>3. ASSUME NEW e \in devices', e.key = d.key
          PROVE  FALSE
      <4>1. d.key \in Nat /\ d.key < nextKey /\ nextKey \in Nat
        BY <1>1 DEF MachineOK, DeviceSet, TypeOK
      <4>2. ~New(e, change[c], c)
        BY <3>3, <4>1 DEF New
      <4> QED
        BY <2>1, <2>3, <3>3, <4>2 DEF MovedTo, Same
    <3> QED
      BY <3>1, <3>2, <3>3 DEF MayChange, Keys
  <2>4. CASE d.key \notin change[c].removes
    <3>1. PICK e \in devices' : MovedTo(d, e, Nets(change[c]))
      BY <2>1, <2>4
    <3>2. e.on # d.on => [key |-> d.key, net |-> e.on] \in request[c].moves
      <4>1. ASSUME e.on # d.on
            PROVE  [key |-> d.key, net |-> e.on] \in request[c].moves
        <5>1. PICK m \in change[c].moves : m.key = d.key /\ m.net = e.on
          BY <3>1, <4>1 DEF MovedTo, Nets
        <5>2. m \in [key : Nat, net : Names]
          BY <2>2 DEF Changes
        <5>3. m = [key |-> d.key, net |-> e.on]
          BY <5>1, <5>2
        <5> QED
          BY <2>2, <5>3, ChangeOf
      <4> QED  BY <4>1
    <3> QED
      BY <1>1, <3>1, <3>2, KeptAsAsked DEF MovedTo
  <2> QED
    BY <2>3, <2>4
<1>4. ASSUME NEW c \in Closures, Relocates(c)
      PROVE  MayChange(d)
  <2>1. PICK e \in devices' : MovedTo(d, e, Targets(moves[c]))
    BY <1>1, <1>4, RelocatedIs
  <2>2. e.on # d.on => d.kind = "disk"
    BY <1>1, <2>1 DEF MovedTo, Targets, DevicesInv, MovesOf
  <2> QED
    BY <1>1, <2>1, <2>2, KeptAsAsked DEF MovedTo
<1>5. ASSUME NEW c \in Closures, TaskEnds(c)
      PROVE  MayChange(d)
  BY <1>2, <1>3, <1>4, <1>5 DEF TaskEnds, Fails
<1> QED
  BY <1>2, <1>5, StepQuiet DEF Next, Returned, vars, machine

\* Only what was asked changes: a device goes or a card is connected elsewhere only
\* if a request names it, the system disk stays, and no device changes its place.
THEOREM OnlyAskedDevicesChange == Spec => OnlyAskedChanges
<1>1. IInv /\ [Next]_vars =>
        [\A d \in devices :
           \/ /\ d.key \notin Keys(devices')
              /\ \E c \in Closures : d.key \in request[c].removes
              /\ d.kind = "disk" => d.unit # 0
           \/ /\ d.key \in Keys(devices')
              /\ LET e == At(devices', d.key)
                 IN  /\ e.ctrl = d.ctrl /\ e.unit = d.unit
                     /\ d.kind = "card" /\ e.on # d.on =>
                          \E c \in Closures : [key |-> d.key, net |-> e.on] \in request[c].moves]_vars
  BY StepsAsAsked DEF MayChange
<1> QED
  BY <1>1, Always, PTL DEF Spec, OnlyAskedChanges

=============================================================================
