------------------------------ MODULE Devices ------------------------------
(***************************************************************************)
(* The devices of one machine, changed by several closures at once:        *)
(* ReconfigureDisk and ReconfigureNic (workerpool) turn a request into     *)
(* changes of the device list that they have read (virtualmachinereconfig),*)
(* and move the disks they have added to other datastores                  *)
(* (virtualmachinerelocate).  Reading the list, starting a task, waiting   *)
(* for it and reading the list again are steps of their own.               *)
(*                                                                         *)
(* vCenter is the environment: it runs one task on the machine at a time,  *)
(* refuses changes that do not fit its devices, and may fail at anything.  *)
(***************************************************************************)
EXTENDS Integers, Sequences, FiniteSets

CONSTANTS
    Closures,    \* the closures that reconfigure the machine
    Requests,    \* what they may be asked
    Layouts,     \* the device lists the machine may have at first
    DiskCtrl,    \* its SCSI controller
    Stores,      \* the datastores vCenter has
    Networks,    \* the networks it has
    Names,       \* what clients may send for one
    None,        \* no datastore asked for, no network asked for, ...
    Nobody,      \* nobody: by whom a device of the first list was added
    MaxUnit      \* the last unit number of a controller

\* A device: its key, its kind, the controller and unit it sits on, the store or
\* network behind it, whether a disk's backing is a flat file, and, as history,
\* the closure that added it.
Device(key, kind, ctrl, unit, on, flat, by) ==
    [key |-> key, kind |-> kind, ctrl |-> ctrl, unit |-> unit, on |-> on,
     flat |-> flat, by |-> by]

\* A request for disks or for cards: the datastores of the disks to add (None:
\* wherever the machine is), the networks of the cards to add, the keys to edit,
\* with the network that a card is to get, and the keys to remove.
Request(kind, disks, edits, cards, moves, removes) ==
    [kind |-> kind, disks |-> disks, edits |-> edits, cards |-> cards,
     moves |-> moves, removes |-> removes]

IsNic(r) == r.kind = "nic"

Keys(ds) == {d.key : d \in ds}
At(ds, key) == CHOOSE d \in ds : d.key = key
GetDisks(ds) == {d \in ds : d.kind = "disk"}
GetEthernetCards(ds) == {d \in ds : d.kind = "card"}

IsSystem(d) == d.kind = "disk" /\ d.ctrl = DiskCtrl /\ d.unit = 0
DeviceSet ==
    [key : Nat, kind : {"controller", "disk", "card", "other"}, ctrl : Nat,
     unit : Nat, on : Names, flat : BOOLEAN, by : Closures \cup {Nobody}]

\* Keys and the places on the SCSI controller are each one device's, and the
\* system disk has the first place.
ASSUME DevicesAssumption ==
    /\ DiskCtrl \in Nat \ {0} /\ MaxUnit \in Nat
    /\ Nobody \notin Closures
    /\ None \notin Stores \cup Networks
    /\ Stores \cup Networks \cup {None} \subseteq Names
    /\ \A ds \in Layouts :
         /\ ds \subseteq DeviceSet /\ IsFiniteSet(ds)
         /\ \A d \in ds : d.by = Nobody
         /\ \A d, e \in ds : d.key = e.key => d = e
         /\ \A d, e \in GetDisks(ds) :
              d.ctrl = DiskCtrl /\ e.ctrl = DiskCtrl /\ d.unit = e.unit => d = e
         /\ \E d \in ds : IsSystem(d)
    /\ Requests \subseteq [kind : {"disk", "nic"}, disks : Seq(Names), edits : SUBSET Nat,
                            cards : Seq(Names), moves : SUBSET [key : Nat, net : Names],
                            removes : SUBSET Nat]
    /\ \A r \in Requests : IF IsNic(r) THEN r.disks = << >> /\ r.edits = {}
                                       ELSE r.cards = << >> /\ r.moves = {}

-----------------------------------------------------------------------------
(* What a request becomes: the keys to remove and to edit, the cards to    *)
(* connect elsewhere, and the units and networks of what is added.         *)

NoChange == [removes |-> {}, edits |-> {}, moves |-> {}, units |-> << >>,
             cards |-> << >>]

\* The i-th unit number from start on that is not in use.
Free(start, used, i) ==
    CHOOSE u \in start..(start + Cardinality(used) + i) :
       u \notin used /\ Cardinality((start..u) \ used) = i

generateUnitNumUnused(ds, kind, cnt) ==  \* mutant: the numbers in use are not collected
    [i \in 1..cnt |-> IF kind = "disk" THEN i ELSE 6 + i]

\* generateUnitNum: numbers that no device of the machine has, on whichever
\* controller; 7 is kept from disks.
generateUnitNum(ds, kind, cnt) ==
    LET used == {d.unit : d \in ds} \cup (IF kind = "disk" THEN {7} ELSE {})
        start == IF kind = "disk" THEN 1 ELSE 7
    IN  [i \in 1..cnt |-> Free(start, used, i)]

\* AssignController overwrites the number with the first that is free on the
\* controller, on which the controller itself has 7.  What it is given is not
\* added to the list, so that several disks get one number.
UsedOn(ds, ctrl) == {7} \cup {d.unit : d \in {e \in ds : e.ctrl = ctrl}}
assignControllerFirst(ds) == Free(0, {7}, 1)  \* mutant: looks at no device
assignController(ds) == Free(0, UsedOn(ds, DiskCtrl), 1)

removeDiskAny(r, ds) == r.removes \cap Keys(GetDisks(ds))  \* mutant: unit 0 is not spared

\* removeDisk spares what has unit number 0, and passes over unknown keys.
removeDisk(r, ds) == {d.key : d \in {e \in GetDisks(ds) : e.unit # 0 /\ e.key \in r.removes}}

\* editDisk: unknown keys are logged and passed over.
editDisk(r, ds) == r.edits \cap Keys(GetDisks(ds))
EditPanics(r, ds) == \E d \in GetDisks(ds) : d.key \in r.edits /\ ~d.flat

\* addDisk: an error if there is no controller that has a place left (unit 7 is
\* none).
addDisk(r, ds) == [i \in DOMAIN r.disks |-> assignController(ds)]
AddFails(r, ds) ==
    /\ r.disks # << >>
    /\ \/ \A d \in ds : d.key # DiskCtrl
       \/ Cardinality({d \in ds : d.ctrl = DiskCtrl}) >= MaxUnit

\* parseReconfigureNic does nothing for a machine without cards.
removeNic(r, ds) == r.removes \cap Keys(GetEthernetCards(ds))
editNic(r, ds) == {m \in r.moves : m.net # None}
EditNicFails(r, ds) ==
    \E m \in r.moves : \/ m.key \notin Keys(GetEthernetCards(ds))
                       \/ m.net \notin Networks \cup {None}
addNic(r, ds) ==
    LET units == generateUnitNum(ds, "nic", Len(r.cards))
    IN  [i \in DOMAIN r.cards |-> [unit |-> units[i], net |-> r.cards[i]]]
AddNicFails(r, ds) == \E i \in DOMAIN r.cards : r.cards[i] \notin Networks

parseReconfigureDisk(r, ds) ==
    [NoChange EXCEPT !.removes = removeDisk(r, ds), !.edits = editDisk(r, ds),
                     !.units = addDisk(r, ds)]
parseReconfigureNic(r, ds) ==
    IF GetEthernetCards(ds) = {} THEN NoChange
    ELSE [NoChange EXCEPT !.removes = removeNic(r, ds), !.moves = editNic(r, ds),
                          !.cards = addNic(r, ds)]

\* Outcome is how the parsing ends.
Change(r, ds) == IF IsNic(r) THEN parseReconfigureNic(r, ds)
                             ELSE parseReconfigureDisk(r, ds)
Outcome(r, ds) ==
    CASE IsNic(r) /\ GetEthernetCards(ds) # {}
                    /\ (EditNicFails(r, ds) \/ AddNicFails(r, ds)) -> "error"
      [] ~IsNic(r) /\ EditPanics(r, ds)                            -> "panic"
      [] ~IsNic(r) /\ ~EditPanics(r, ds) /\ AddFails(r, ds)        -> "error"
      [] OTHER                                                     -> "change"

\* What is not told apart here may be a nil pointer or a failed assertion: the
\* format of a new disk, the allocation of a new card, the backing of a card that
\* is to be connected elsewhere.
MayPanic(r, ds) ==
    IF IsNic(r) THEN /\ GetEthernetCards(ds) # {}
                     /\ r.cards # << >> \/ editNic(r, ds) # {}
                ELSE r.disks # << >> /\ ~AddFails(r, ds)

-----------------------------------------------------------------------------
VARIABLES
    devices,  \* the devices of the machine
    nextKey,  \* the key of the next device
    task,     \* the vCenter task that runs on the machine
    request,  \* request[c]: what c is asked
    pc,       \* pc[c]: where c is
    found,    \* found[c]: the list c has read
    change,   \* change[c]: what c asks vCenter to change
    moves,    \* moves[c]: the disks c asks vCenter to move, with their datastores
    awaited,  \* awaited[c]: how the task c waits for stands
    result,   \* result[c]: what c returned

    \* History, read by no action's guard.
    refused,  \* the closures whose change did not fit the devices
    stale,    \* the closures since whose reading others have changed the devices
    robbed    \* the closures that have lost a device they had added

machine == <<devices, nextKey, task>>
local == <<pc, found, change, moves, awaited, result>>
history == <<refused, stale, robbed>>
vars == <<machine, request, local, history>>

Pcs == {"reconfigure", "read", "submit", "reconfiguring", "survey", "relocate",
        "locate", "move", "moving", "returned"}
Waiting == {"reconfiguring", "moving"}
NoTask == [job |-> "none", by |-> Nobody]
Changes == [removes : SUBSET Nat, edits : SUBSET Nat,
            moves : SUBSET [key : Nat, net : Names], units : Seq(Nat),
            cards : Seq([unit : Nat, net : Names])]

TypeOK ==
    /\ devices \subseteq DeviceSet
    /\ nextKey \in Nat
    /\ task \in {NoTask} \cup [job : {"configure", "relocate"}, by : Closures]
    /\ request \in [Closures -> Requests]
    /\ pc \in [Closures -> Pcs]
    /\ found \in [Closures -> SUBSET DeviceSet]
    /\ change \in [Closures -> Changes]
    /\ moves \in [Closures -> SUBSET [key : Nat, store : Names]]
    /\ awaited \in [Closures -> {"none", "running", "done", "failed"}]
    /\ \A c \in Closures : awaited[c] # "none" <=> pc[c] \in Waiting
    /\ result \in [Closures -> {"none", "ok", "error", "panic"}]
    /\ \A c \in Closures : result[c] # "none" <=> pc[c] = "returned"
    /\ refused \cup stale \cup robbed \subseteq Closures

Init ==
    /\ devices \in Layouts
    /\ nextKey = 1 + CHOOSE n \in Keys(devices) : \A k \in Keys(devices) : k <= n
    /\ task = NoTask
    /\ request \in [Closures -> Requests]
    /\ pc = [c \in Closures |-> "reconfigure"]
    /\ found = [c \in Closures |-> {}]
    /\ change = [c \in Closures |-> NoChange]
    /\ moves = [c \in Closures |-> {}]
    /\ awaited = [c \in Closures |-> "none"]
    /\ result = [c \in Closures |-> "none"]
    /\ refused = {} /\ stale = {} /\ robbed = {}

-----------------------------------------------------------------------------
(* vCenter.                                                                *)

Values(s) == {s[i] : i \in DOMAIN s}

\* The changes fit: what is removed and edited is there, a new disk's unit is in
\* use by no other disk of its controller, new or old.
Fits(ch) ==
    /\ ch.removes \subseteq Keys(devices)
    /\ ch.edits \cup {m.key : m \in ch.moves} \subseteq Keys(devices) \ ch.removes
    /\ \A i, j \in DOMAIN ch.units : ch.units[i] = ch.units[j] => i = j
    /\ Values(ch.units) \cap UsedOn({d \in devices : d.key \notin ch.removes}, DiskCtrl) = {}
    /\ Values(ch.units) \subseteq 0..MaxUnit

\* The devices after the changes.  New disks go where the machine is; a new card
\* names no controller (0).  Keys are given in turn and not again, which the
\* properties about which device is whose take from vCenter.
Home == (CHOOSE d \in devices : IsSystem(d)).on
Moved(d, ch) ==
    IF \E m \in ch.moves : m.key = d.key
    THEN [d EXCEPT !.on = (CHOOSE m \in ch.moves : m.key = d.key).net] ELSE d
NewDisks(ch, c) ==
    {Device(nextKey + i - 1, "disk", DiskCtrl, ch.units[i], Home, TRUE, c) :
       i \in DOMAIN ch.units}
NewCards(ch, c) ==
    {Device(nextKey + i - 1, "card", 0, ch.cards[i].unit, ch.cards[i].net, FALSE, c) :
       i \in DOMAIN ch.cards}
Apply(ch, c) ==
    /\ devices' = {Moved(d, ch) : d \in {e \in devices : e.key \notin ch.removes}}
                    \cup NewDisks(ch, c) \cup NewCards(ch, c)
    /\ nextKey' = nextKey + Len(ch.units) + Len(ch.cards)
    /\ robbed' = robbed \cup ({d.by : d \in {e \in devices : e.key \in ch.removes}} \ {Nobody})

\* Moving disks: they are there, and so are the datastores.
Relocated(ms) ==
    devices' = {IF d.key \in {m.key : m \in ms}
                THEN [d EXCEPT !.on = (CHOOSE m \in ms : m.key = d.key).store] ELSE d :
                  d \in devices}

\* A task ends, well or badly; its closure learns of it only if it still waits.
Reading == {c \in Closures : pc[c] \in {"submit", "reconfiguring"}}
Learn(c, how) == awaited' = [awaited EXCEPT ![c] = IF @ = "running" THEN how ELSE @]
Configures(c) ==
    /\ task.job = "configure" /\ Fits(change[c])
    /\ Apply(change[c], c)
    /\ stale' = stale \cup (Reading \ {c})
    /\ Learn(c, "done") /\ UNCHANGED refused
Relocates(c) ==
    /\ task.job = "relocate" /\ {m.key : m \in moves[c]} \subseteq Keys(devices)
    /\ Relocated(moves[c])
    /\ Learn(c, "done") /\ UNCHANGED <<nextKey, refused, stale, robbed>>
Fails(c) ==
    /\ Learn(c, "failed")
    /\ refused' = IF task.job = "configure" /\ ~Fits(change[c])
                  THEN refused \cup {c} ELSE refused
    /\ UNCHANGED <<devices, nextKey, stale, robbed>>
TaskEnds(c) ==
    /\ task.by = c
    /\ task' = NoTask
    /\ Configures(c) \/ Relocates(c) \/ Fails(c)
    /\ UNCHANGED <<request, pc, found, change, moves, result>>

-----------------------------------------------------------------------------
(* The closures.                                                           *)

Goto(c, s) == pc' = [pc EXCEPT ![c] = s] /\ UNCHANGED result
Return(c, res) == pc' = [pc EXCEPT ![c] = "returned"] /\ result' = [result EXCEPT ![c] = res]

Calm == UNCHANGED <<machine, request, awaited, history>>

\* Reconfigure looks the machine up.
Reconfigure(c) ==
    /\ pc[c] = "reconfigure"
    /\ Goto(c, "read") \/ Return(c, "error")
    /\ UNCHANGED <<found, change, moves>> /\ Calm

\* It reads the devices and parses the request.
Parse(c) ==
    /\ pc[c] = "read"
    /\ \/ /\ found' = [found EXCEPT ![c] = devices]
          /\ change' = [change EXCEPT ![c] = Change(request[c], devices)]
          /\ CASE Outcome(request[c], devices) = "change" -> Goto(c, "submit")
               [] OTHER -> Return(c, Outcome(request[c], devices))
       \/ /\ \/ Return(c, "error")
             \/ MayPanic(request[c], devices) /\ Return(c, "panic")
          /\ UNCHANGED <<found, change>>
    /\ UNCHANGED moves /\ Calm

\* A task is started, unless vCenter refuses it, as it does while another runs.
StartTask(c, job, waiting) ==
    /\ \/ /\ task = NoTask
          /\ task' = [job |-> job, by |-> c]
          /\ awaited' = [awaited EXCEPT ![c] = "running"]
          /\ Goto(c, waiting)
       \/ Return(c, "error") /\ UNCHANGED <<task, awaited>>
    /\ UNCHANGED <<devices, nextKey, request, found, change, moves, history>>

Submit(c) == pc[c] = "submit" /\ StartTask(c, "configure", "reconfiguring")

AwaitKeeps(c, waiting, next) ==  \* mutant: the wait leaves its mark behind
    /\ pc[c] = waiting
    /\ IF awaited[c] = "done" THEN next ELSE Return(c, "error")
    /\ UNCHANGED <<machine, request, found, change, moves, awaited, history>>
AwaitForever(c, waiting, next) ==  \* mutant: no timeout
    /\ pc[c] = waiting /\ awaited[c] # "running"
    /\ awaited' = [awaited EXCEPT ![c] = "none"]
    /\ IF awaited[c] = "done" THEN next ELSE Return(c, "error")
    /\ UNCHANGED <<machine, request, found, change, moves, history>>

\* A wait ends, with the task or with the timeout.
Await(c, waiting, next) ==
    /\ pc[c] = waiting
    /\ awaited' = [awaited EXCEPT ![c] = "none"]
    /\ IF awaited[c] = "done" THEN next ELSE Return(c, "error")
    /\ UNCHANGED <<machine, request, found, change, moves, history>>

MayRelocate(c) == \E i \in DOMAIN request[c].disks : request[c].disks[i] # None
Reconfiguring(c) ==
    Await(c, "reconfiguring", IF MayRelocate(c) THEN Goto(c, "survey") ELSE Return(c, "ok"))

\* ReconfigureDisk reads the disks again, and takes for a disk it has added the
\* one with the number that generateUnitNum gave.  A number that no disk has, a
\* backing that is no flat file, and a list that cannot be read are a nil
\* pointer or a failed assertion.
\* No two disks have the number: it was free on every controller.
Noted(c) == generateUnitNum(found[c], "disk", Len(request[c].disks))
OnUnit(n) == {d \in GetDisks(devices) : d.unit = n}
Wanted(c) == {i \in DOMAIN request[c].disks : request[c].disks[i] # None}
Survey(c) ==
    /\ pc[c] = "survey"
    /\ \/ /\ \A i \in Wanted(c) : \E d \in OnUnit(Noted(c)[i]) : d.flat
          /\ moves' = [moves EXCEPT ![c] =
                         UNION {{[key |-> d.key, store |-> request[c].disks[i]] :
                                   d \in {e \in OnUnit(Noted(c)[i]) : e.on # request[c].disks[i]}} :
                                  i \in Wanted(c)}]
          /\ IF moves'[c] = {} THEN Return(c, "ok") ELSE Goto(c, "relocate")
       \/ Return(c, "panic") /\ UNCHANGED moves
    /\ UNCHANGED <<found, change>> /\ Calm

\* Relocate looks the machine up and reads its disks.
Relocate(c) ==
    /\ pc[c] = "relocate"
    /\ Goto(c, "locate") \/ Return(c, "error")
    /\ UNCHANGED <<found, change, moves>> /\ Calm

\* parseStorage returns an error for a disk that is not in the list it has read
\* (none is, if that fails), and for a datastore that it does not find it reports
\* a name that was not given: a nil pointer.  Which disk comes first is left open.
parseStorage(c) ==
    /\ pc[c] = "locate"
    /\ LET keys == {m.key : m \in moves[c]}
           there == Keys(GetDisks(devices))
       IN  \/ /\ keys \subseteq there /\ {m.store : m \in moves[c]} \subseteq Stores
              /\ Goto(c, "move")
           \/ Return(c, "error")
           \/ keys \cap there # {} /\ Return(c, "panic")
    /\ UNCHANGED <<found, change, moves>> /\ Calm

Move(c) == pc[c] = "move" /\ StartTask(c, "relocate", "moving")

MovingBlind(c) ==  \* mutant: the outcome of the task is ignored
    /\ pc[c] = "moving"
    /\ awaited' = [awaited EXCEPT ![c] = "none"] /\ Return(c, "ok")
    /\ UNCHANGED <<machine, request, found, change, moves, history>>

\* The machine is looked up once more; that it is not found is no error.
Moving(c) == Await(c, "moving", Return(c, "ok"))

Step(c) ==
    \/ Reconfigure(c) \/ Parse(c) \/ Submit(c) \/ Reconfiguring(c) \/ Survey(c)
    \/ Relocate(c) \/ parseStorage(c) \/ Move(c) \/ Moving(c)

Returned == (\A c \in Closures : pc[c] = "returned") /\ UNCHANGED vars

Next == (\E c \in Closures : Step(c) \/ TaskEnds(c)) \/ Returned

Spec == Init /\ [][Next]_vars
FairSpec == Spec /\ \A c \in Closures : WF_vars(Step(c))

-----------------------------------------------------------------------------
(* Properties                                                              *)

Others(ds) == {d \in ds : d.ctrl # DiskCtrl}

\* The number that a new disk gets is in use on another controller, so that the
\* one that generateUnitNum notes is another.
Misnoted(c) == assignController(found[c]) \in {d.unit : d \in Others(found[c])}

\* Whatever the closures do at once, a device goes only if one of them was asked
\* to remove it, and never the disk on unit 0; a card is connected elsewhere
\* only if one was asked to; and a device changes neither controller nor unit.
OnlyAskedChanges ==
    [][\A d \in devices :
         \/ /\ d.key \notin Keys(devices')
            /\ \E c \in Closures : d.key \in request[c].removes
            /\ d.kind = "disk" => d.unit # 0
         \/ /\ d.key \in Keys(devices')
            /\ LET e == At(devices', d.key)
               IN  /\ e.ctrl = d.ctrl /\ e.unit = d.unit
                   /\ d.kind = "card" /\ e.on # d.on =>
                        \E c \in Closures : [key |-> d.key, net |-> e.on] \in request[c].moves]_vars

\* ReconfigureDisk moves only disks that it has added, although it knows them
\* only by the number that generateUnitNum gave (virtual_machine_operator.go:
\* 258-259).  Excepted are a number that generateUnitNum takes for used, and a
\* disk that another closure has removed, whose number may be given again.
MovesOwnDisks ==
    \A c \in Closures :
       ~Misnoted(c) /\ c \notin robbed =>
          \A m \in moves[c] : \A d \in devices : d.key = m.key => d.by = c

\* Another closure has taken a disk that c has added for its own; by
\* MovesOwnDisks it is one of the two excepted there.
Taken(c) ==
    \E e \in Closures \ {c} : \E m \in moves[e] :
       \E d \in devices : d.key = m.key /\ d.by = c

\* What c has added may be elsewhere than c knows.
Excused(c) == Misnoted(c) \/ c \in robbed \/ Taken(c)

\* A success is one: the disks that were asked for on a datastore are there, and
\* what was to be removed is gone.  Excepted are keys that are no removable disk
\* or card of the machine, a number that generateUnitNum takes for used, and a
\* disk that another closure has removed or taken for its own.
SuccessIsPlaced ==
    \A c \in Closures :
       result[c] = "ok" =>
         /\ ~IsNic(request[c]) /\ ~Excused(c) =>
              \A i \in Wanted(c) :
                 \E d \in devices : d.by = c /\ d.kind = "disk" /\ d.on = request[c].disks[i]
         /\ change[c].removes \cap Keys(devices) = {}
         /\ ~IsNic(request[c]) =>
              \A d \in GetDisks(devices) :
                 d.key \in request[c].removes /\ d.key \in Keys(found[c]) => d.unit = 0

\* A change that does not fit the machine was made for an older device list, or
\* asks for two disks at once, or to edit what it removes: a single new disk gets
\* a unit number that the controller has and no disk uses.
RefusalsAreWarranted ==
    \A c \in refused :
       \/ c \in stale
       \/ Len(request[c].disks) > 1
       \/ request[c].removes \cap (request[c].edits \cup {m.key : m \in request[c].moves}) # {}

\* Every closure returns, although a task may never end: each wait has a timeout
\* (Relocate is called with 10 minutes).
DevicesReturn == <>(\A c \in Closures : pc[c] = "returned")

-----------------------------------------------------------------------------
(* The inductive invariant behind the properties.                          *)

\* The same device, but for where its data or its connection is.
Same(d, e) ==
    /\ d.key = e.key /\ d.kind = e.kind /\ d.ctrl = e.ctrl /\ d.unit = e.unit
    /\ d.flat = e.flat /\ d.by = e.by

\* Keys and places on the controller are one device's, the next key is none's,
\* and the system disk stays.
MachineOK ==
    /\ IsFiniteSet(devices)
    /\ \A d, e \in devices : d.key = e.key => d = e
    /\ \A d \in devices : d.key < nextKey
    /\ \A d, e \in GetDisks(devices) :
         d.ctrl = DiskCtrl /\ e.ctrl = DiskCtrl /\ d.unit = e.unit => d = e
    /\ \E d \in devices : IsSystem(d)

\* What c has read is a list that the machine had: the devices of it that are
\* still there are the same, and the disks that are not in it were added since.
FoundOf(c) ==
    /\ IsFiniteSet(found[c])
    /\ \A d \in found[c] : d.key < nextKey
    /\ \A d \in found[c], e \in devices : d.key = e.key => Same(d, e)
    /\ found[c] # {} =>
         /\ \E d \in found[c] : IsSystem(d)
         /\ \A d \in GetDisks(devices) : d.key \in Keys(found[c]) \/ d.ctrl = DiskCtrl

\* What c asks of vCenter is what its request became.
HasAsked(c) ==
    \/ pc[c] \notin {"reconfigure", "read", "returned"}
    \/ result[c] = "ok" \/ task.by = c \/ c \in refused
ParsedOf(c) ==
    /\ found[c] = {} => change[c] = NoChange
    /\ found[c] # {} => change[c] = Change(request[c], found[c])
    /\ HasAsked(c) => found[c] # {} /\ Outcome(request[c], found[c]) = "change"
    /\ pc[c] \in {"reconfigure", "read"} => found[c] = {}

\* A closure that waits for a running task waits for the one that it started,
\* and a task outlives only a closure that gave up.
TaskOf(c) ==
    /\ awaited[c] = "running" =>
         task = [job |-> IF pc[c] = "reconfiguring" THEN "configure" ELSE "relocate", by |-> c]
    /\ task.by = c => awaited[c] = "running" \/ result[c] = "error"

\* Until a change is made the machine has the devices it was made for, or others
\* have changed them.
Fresh(c) == (pc[c] = "submit" \/ task = [job |-> "configure", by |-> c]) /\ c \notin stale
FreshOf(c) ==
    Fresh(c) =>
       /\ \A d \in found[c] : \E e \in devices : Same(d, e)
       /\ \A e \in devices : \E d \in found[c] : Same(d, e)

Done(c) ==
    \/ pc[c] = "reconfiguring" /\ awaited[c] = "done"
    \/ pc[c] \in {"survey", "relocate", "locate", "move", "moving"}
    \/ result[c] = "ok"

\* What was to be removed stays away, no more than one disk was added, and it is
\* where AssignController has put it.
DoneOf(c) ==
    Done(c) =>
       /\ change[c].removes \cap Keys(devices) = {}
       /\ Len(request[c].disks) <= 1
       /\ request[c].disks # << >> /\ c \notin robbed =>
            \E d \in GetDisks(devices) :
               d.by = c /\ d.ctrl = DiskCtrl /\ d.unit = assignController(found[c])

\* The disks to move are disks, and go to the datastore that was asked for.
MovesOf(c) ==
    /\ pc[c] \in {"reconfigure", "read", "submit", "reconfiguring", "survey"} => moves[c] = {}
    /\ pc[c] \in {"relocate", "locate", "move", "moving"} => moves[c] # {}
    /\ \A m \in moves[c] :
         /\ m.key < nextKey
         /\ m.store = request[c].disks[1]
         /\ \A d \in devices : d.key = m.key => d.kind = "disk"

\* The disk is on the datastore that was asked for.
Placed(c) == result[c] = "ok" \/ (pc[c] = "moving" /\ awaited[c] = "done")
PlacedOf(c) ==
    Placed(c) /\ Wanted(c) # {} /\ ~Excused(c) =>
       \E d \in GetDisks(devices) : d.by = c /\ d.on = request[c].disks[1]

DevicesInv ==
    /\ MachineOK
    /\ \A c \in Closures :
         /\ FoundOf(c) /\ ParsedOf(c) /\ TaskOf(c) /\ FreshOf(c)
         /\ DoneOf(c) /\ MovesOf(c) /\ PlacedOf(c)
=============================================================================
