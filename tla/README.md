# A verification development for vsphere-facade

vsphere-facade is an HTTP service in Go in front of VMware vCenter. It answers
queries at once; operations and deployments it answers with 202 and a request
id, runs them on worker pools, and reports their outcome by an HTTP callback.
This directory holds TLA+ modules that model its core, TLC configurations that
check them on small instances, and proofs that TLAPS checks.

## 1. The system

| component | state | operations | interacts with |
|---|---|---|---|
| handlers (`api/v1/virtual_machine_v1.go`) | frame of each request: `err`, the reply | create, delete, power on / off, shutdown, three reconfigurations (202); rename, descript, queries (synchronous) | record store, `vsphere.Get`, `AddTask` |
| task receiver (`taskreceiver`) and badger | one record per open request | `Receive`, `Done`, `Cancel`, `GetReceivedReq` | handlers, closures, startup |
| closures of the handlers | lists of successes, failures, not found | deploy or loop over the machines, call back, deferred `Done` | vCenter, callback, store |
| callback (`vsphere/callback`) | none | send once, 30 s timeout, error ignored | client, `config` |
| startup (`startup/startup.go`) | snapshot of the records | call back and cancel each | store, callback; runs beside the server |
| worker pools (`worker_pool.go`) | one receiving pool; a pool per vCenter and type in the process-wide go-cache | `AddTask`, `Get`, `newPool` | closures, cache |
| VC cache (`vsphere/cache`, `vsphere/vcenter.go`) | go-cache entries, refresh ticker | `Get`, `Set`, `Clean`, `CleanAll`, create, stop | queries, pools (same go-cache) |
| deployer (`virtual_machine_deployer.go`) | new machine, parameters | clone, reconfigure, customize, power on, wait, roll back | vCenter tasks |
| operator (`virtual_machine_operator.go`) | none of its own | power, shutdown, restart, reconfigure, disks, network | vCenter tasks |
| reconfiguration (`virtualmachinereconfig`) | none | translate parameters into device changes, unit numbers | vCenter |
| sessions (`helper/api.go`) | plain map of API sessions | `Init`, `Newer` | every handler |
| queries (`vsphere/*.go`, `helper/*`) | none | list and filter | VC cache |
| security (`api/security`, `aes.go`) | none | encode and decode tokens | handlers |

What is hard here: handlers, closures and the startup goroutine interleave over
one store; the process may die between any two of their steps; the store, the
callback and vCenter may each fail, and most of their errors are logged and
dropped; vCenter tasks outlive those who wait for them; pools are created and
forgotten concurrently.

What makes each part correct: no accepted request is lost and none is run twice
(handlers, store, startup); a report says what happened (closures); limits hold
and every closure is run (pools); success means a running machine and failure
leaves none behind (deployer); a query from the cache equals a query of vCenter
(VC cache and queries); a session is open and of the right account (sessions); a reported success is real, a reconfiguration
changes what it was asked to and stops the machine only if it must (operator);
only the devices a request names go or move (device changes).

## 2. The modules

**RequestLifecycle** composes handlers, store, closures, callback and startup.
Per request it keeps the program counter of the handler (`hpc`) and of the
closure (`tpc`), the handler's variable `err`, the turns its loop has taken over the
list of machines (a client may name one twice, and nobody looks for that) and
the report; globally the records (`db`), the startup goroutine (`spc`, `todo`,
`notified`) and the callbacks sent. An action is the code between two points
where another goroutine can interfere:

- `ReceiveRequest`, `Connect`, `LookUp`, `ReceiveFound`, `AddTask`, `StoreErr`,
  `Reply` are a handler from binding to answer. Five handlers write the record
  before they connect, three look the machine up first.
- `StartTask`, `CreateTask`, `DescribeTask`, `BatchTask`, `DeviceTask`,
  `ReconfigureTask`, `JudgeTask`, `ExplainTask`, `CallBack`, `Finish` are the
  closures. The closure of reconfigure assigns the handler's `err`
  (`virtual_machine_v1.go:294`), a data race: `RacyErr` lets a reader see its own
  last write or the other goroutine's. A panic goes to `Finish`, because `Done`
  is deferred and the pool's worker recovers.
- `StartupRead`, `StartupNotify`, `StartupCancel`, `StartupDone` are
  `interruptTaskCallback`; a panic there ends the process.
- `Crash` and `Restart` end the process at any point and start it again.

The constant `Db` switches the store off, makes it sound, or lets every `Set`,
`Del` and read fail; `DefaultCallback` says whether `vsphere.default.callback`
is missing, lacks an address, or has one; `ClosuresPanic` lets the code under a
closure panic. The constants of an instance are in `MCRequestLifecycle`.

**WorkerPool** models `AddTask`, `Get`, `newPool` and `CleanAll`. A task goes
through `AddTask` (offered to the receiving pool), `Receive` (a goroutine of it),
`Get` (first look), `NewPool` (second look and creation), `StorePool`, `Submit`
and `Finish`. The mutex of `newPool` is local and therefore absent. ants pools
are external: a bound on running closures, `Submit` blocking at the bound, no
bound for sizes of 0 and less. `MCWorkerPool` holds the instances.

**Deployer** models one `Deploy` against vCenter. `task` is the vCenter task on
the new machine and `awaited` how it stands for the waiting facade. `TaskEnds` is
vCenter's step and may happen long after the wait timed out. Every failure of a
look-up, of a start and of a task, and every timeout, is a disjunct of the step
it belongs to. `Init` allows every combination of what Deploy branches on.

**Operator** models the power operations, `Destroy` and `Reconfigure` on one
existing machine, run by several closures at once. Each helper is split where
another closure, vCenter or the guest can interfere: reading the power state
(`Shutdown`, `PowerOff`, `PowerOn`, `Destroy`), calling vCenter (`Halt`, `Cut`,
`Boot`, `Raze`), waiting with a timeout (`Halting`, `PoweringOff`, `PoweringOn`,
`Destroying`). `Measure`, `Configure`, `Configuring` are the three parts of
`Reconfigure`: compare and decide, start the task, wait. `AfterShutdown`,
`AfterPowerOff`, `AfterPowerOn` and `AfterConfigure` are what each operation does
with a helper's result. `TaskEnds` is vCenter's, `GuestStops` the guest's; a guest
that was told to shut down may do so long after the wait for it timed out. A
property that vCenter does not deliver is a nil pointer and panics. `seen`,
`failed` and `met` are history for the properties: the states of the machine and the
requested amounts it has had since a closure began. A hot-plug setting is enabled,
disabled or unset (the code tests for nil first, and stops the machine only for what is
disabled), and a running machine never takes other cores per socket. What the change of
devices, names and allocations adds to `Reconfigure` of `virtualmachinereconfig`
is the subject of Devices.

**CallbackContract** is what the facade promises to a client, without handlers,
records, closures or startup: an accepted request stays somebody's duty until its
client was called back, or is lost in one of the two ways the promise admits. Its
actions are `Take`, `Lose`, `Reply`, `Tell` and `Release`; `NobodyForgotten` is
what it comes to. RequestLifecycle implements it (`Contract`): a request is a duty
of badger, of the startup goroutine that has read its record, and of its closure
(`Duty`); `Told` is the kinds of callback sent; lost are the requests that `Set`
did not write and those whose closure panicked. `Shared` names the reconfiguration,
which may run although its client was answered with an error.

**Devices** models `ReconfigureDisk` and `ReconfigureNic` of the operator with what
they call, of several closures on one machine. `Reconfigure` looks the machine up;
`Parse` reads the device list and turns the request into changes (`removeDisk`,
`editDisk`, `addDisk`, `removeNic`, `editNic`, `addNic`, with `generateUnitNum` and
the external `assignController`); `Submit` and `Reconfiguring` start the task and
wait; `Survey` reads the disks again and looks for the new ones by unit number;
`Relocate`, `parseStorage`, `Move` and `Moving` are the relocation. `Free` is the loop
of `generateUnitNum`: the i-th number from a first one on that is not in use. A request
is one for disks or one for cards, whatever lists it carries, as there is one closure for
each; `MayPanic` are the nil pointers and failed assertions on fields that are left out
here (the allocation of a new card, the backing of an edited one, the format of a disk).
vCenter
runs one task at a time, refuses what does not fit (`Fits`), and may end a task after
its waiter has given up (`Configures`, `Relocates`, `Fails`). `refused`, `stale` and
`robbed` are history: whose change did not fit, since whose reading others have changed
the devices, and who has lost a disk it had added.

**ApiSession** models tokens and sessions. `GetToken` and `Verify` begin a request, and `Verify`
may answer 401;
`Read`, `Check`, `Dial`, `ParseVer`, `BeginWrite`, `EndWrite` are `helper.Init`, which
every handler calls. The write into the map is two steps, and `Fatal` is what Go's
runtime may do when another handler touches the map between them. vCenter refuses
logins, ends sessions (`Expire`) and may let a question time out. Encryption is a
seal on a field: what was not sealed cannot be opened.

**Inventory** (without variables) says of each kind of object which parameters a
handler binds (`Bind`), what it answers from vCenter (`QueryVCenter`), what one turn of
the walk over the datacenters adds (`Listed`), what one look-up by id adds (`Told`), and what
it answers from a cached list (`QueryCache`). **VCCache** runs them: a query goes through
`LookInCache`, then `AskVCenter`, or `FetchNext` for each object it names and `FetchEnds`,
or `GetDatacenters`, `ListNext` and `WalkEnds`, or `GetPolicies`. `Set` looks for the key
and stores later (`Settable` and `Store`: `KeepDatacenters` and `StoreDatacenters`,
`WalkEnds` and `StoreWalk`, `KeepTicker` and `StoreTicker`), so that two writers may both
store. `CleanKeys` takes the keys of its list one after the other, `CleanAll` lists those
of the vCenter and `DeleteNext` deletes them one by one. `FillNext`, `MakeTicker` and the
two steps after it are the goroutine of `CreateCache`; `tickers` are the calls whose
ticker runs, `kept` the one whose ticker is in the cache. Keys are modelled as
they are composed, once or twice prefixed with the VCID. `Change` is vCenter's: objects
come and go, but stay where they are (`Above` is a constant). `TopologyAssumption` is how
vCenter nests them: what is listed by datacenter is in exactly one, and a host or a pool
is in the cluster that owns it. `since`, `mark`, `late` (the keys under which, since they were
cleaned, a list was stored that was being read then), `overtaken`, `disturbed`, `raced` (the
calls that had a ticker to store while another had) and `seen` are history for the
properties.

How they fit: a request is authenticated and connected by ApiSession, whose failures
are the panics of `Connect` and `LookUp` in RequestLifecycle; a closure of
RequestLifecycle runs when WorkerPool runs it (`EveryTaskRuns` is why weak fairness
of `StartTask` is justified), and its `CreateTask` is one run of Deployer (where
"success" is what `Deploy` returned), a turn of its loop in `BatchTask` or a
`ReconfigureTask` one operation of Operator, a `DeviceTask` one closure of Devices;
`DeployReturns`, `OperationsReturn` and `DevicesReturn` are why weak fairness of those
steps is justified. VCCache and WorkerPool share go-cache: the removal of pools by
`CleanAll` is a step of WorkerPool.

## 3. What TLC checks

| run | instance | shows |
|---|---|---|
| `lifecycle_recovery` | a deployment without callback address and a deletion with one, whose list names one machine twice; faulty store, panics, one crash, and a default callback without address, so that the deployment's closure panics before it reports, and startup whenever it finds its record | `TypeOK`, `AcceptedIsRecoverable`, `ReportIsTruthful`, `RefusedRunsNothing`, `RecordsAreOwned`, `OneTurnEach`; `ContractKept`: RequestLifecycle implements CallbackContract |
| `lifecycle_answered` | a reconfiguration and a change of disks; sound store, panics, one crash, fairness | `AcceptedIsAnswered` |
| `pool_work` | three operations and a deployment on one vCenter; routine count 1 and none; two receiving goroutines; each key removed once | `TypeOK`, `PoolsAreBounded`, `RunningIsBounded`, `EveryTaskRuns` |
| `operator_two` | any two operations at once on one machine of 2 processors in 1 core per socket, on or off; four reconfigurations (more and fewer processors, more and less memory, fields left out), three hot-plug settings | `TypeOK`, `SuccessIsReal`, `StopSuffices`, `StopsAreWarranted`, `OnlyWantedChanges`, `OperationsReturn` |
| `deploy_outcome` | all requests Deploy distinguishes | `TypeOK`, `SuccessMeansRunning`, `FailureLeavesNothing`, `FirstBootIsConfigured`, `DeployReturns` |
| `devices` | two closures, each with any of eight requests (disks on given and unknown datastores, removal of the system disk and of unknown keys, edits, cards), on five device lists (a bare machine, a second disk, a disk that is no flat file and a gap, no controller, a controller with one place left) | `TypeOK`, `MovesOwnDisks`, `SuccessIsPlaced`, `RefusalsAreWarranted`, `OnlyAskedChanges`, `DevicesReturn` |
| `sessions` | three requests, four vCenters with the versions 6.7.3, 5.1.45, 6.5 and 7.0.1.0, both kinds of token; one session ends, one question times out | `TypeOK`, `ConnectedIsSupported`, `ConnectedWasLive`, `LoginsAreWarranted`, `SessionsAreAccounted` |
| `queries` | two requests at once (queries of networks, pools, policies and machines, cleans of two lists of keys, CleanAll, CreateCache) over two datacenters, of which one comes or goes with all that is in it and the other gains or loses a network; one call of vCenter fails; the cache starts empty or with the lists of two kinds | `TypeOK`, `CleanIsFelt`, `CachedAnswersAgree`, `AnswersFit`, `FilledIsFound`, `TickersAreFound` |

Four runs expect a violation. Each checks what the repository says and shows
that the code does otherwise (details under "findings" in `PROJECT.json`):

| run | what the repository says | what happens |
|---|---|---|
| `lifecycle_startup_race` | startup calls back interrupted tasks | also a live request that was received since the start |
| `lifecycle_shared_err` | "creating the task failed" | the task exists and runs; its error was taken for AddTask's |
| `operator_cold` | `Test_reconfigure_cold_cpu`: after a reconfiguration the machine is powered on | a machine that was stopped for it stays off, because the restart asks whether it was off before (`stopFirst && !isPoweredOn`), and success is reported |
| `ticker_race` | a ticker that exists already is not made again | two CreateCache calls both look before either stores; one of the two tickers runs for ever, and `StopTicker` cannot find it |

More consequences are visible in the models and have no run of their own.

- Batches: a machine that a request names twice has two turns (`OneTurnEach`), and is
  reported twice.
- Deployments: `Deploy` returns a nil error and no machine if the look-up after the
  clone fails (the antecedent of `SuccessMeansRunning`), and never reads the
  parameters `dataDisks` and `powerOn`.
- Operations: `Restart` forgets that neither way of stopping the machine worked. A
  number of processors beside the number of cores per socket that the machine has is not
  sent, and success is reported (`Omitted`); one that is left out counts as a decrease
  to 0. Other cores per socket and settings that vCenter leaves unset do not stop the
  machine, and vCenter then refuses the change (`Overlooked`).
- Recovery is at least once: a crash between callback and `Done` makes the next
  process report a reported request as interrupted. An interrupted reconfiguration is
  reported to the default address, because its own is recorded as `callBack` and
  looked up as `callback`. Without a default section, the sender panics and one
  record of an interrupted request ends every new process.
- Pools: the mutex of `newPool` is local, so that two pools may be made for one key;
  `CleanAll` forgets pools that are at work. `PoolsAreBounded` and `RunningIsBounded`
  say how much that costs (`cleans`).
- Devices: `AssignController` overwrites the unit number that `generateUnitNum` gave,
  and `ReconfigureDisk` looks for the new disk under the old number: when a device on
  another controller has the number that the disk gets, no disk is found and the
  closure panics. Several new disks of one request get one unit number, and vCenter
  refuses them. A datastore that is not there is reported under a name that was not
  given, a nil pointer.
- Sessions: a version of two numbers panics after the login, and the session stays
  open; two requests that log in at once leave one session open with nobody to use
  it. Tokens of JWT are never accepted: `Verify` decrypts fields that `Generate` did
  not encrypt.
- Cache: OS families are stored under another key than they are looked up under, and
  `Clean` does not reach resource pools or OS families. An empty list is stored and
  looks like a miss, and then keeps a better one from being stored (`Set` keeps what
  is there). Nothing reads the ticker's channel, so the cache is never refreshed.
  A client that cleans the key of the ticker loses it, too.
- Queries: networks are documented to be queried by `ids` and `datacenterId`
  (`network_v1.go:23`), but the parameters have no `form` tag and are not read under these
  names (`Bind`). A pool is never found by its id when vCenter is asked; from the cache,
  pools by cluster include those of every other cluster (an absent host equals an
  absent host). Machines by folder panic on a property that was not read, and by ids
  on a folder. Folders by datacenter are all folders from the cache and the machine
  folders from vCenter.

**Bounds.** `MaxCrashes` caps crashes from outside; one is enough for a crash in
every state of the first process and a complete recovery beside new requests,
and the crashes of a panicking startup are not counted. Two requests let one be
at work while the other is recovered; requests share only the store and the
startup goroutine. A list of two entries has a first and a last turn. The operations
are shared out over two runs, as each kind of closure keeps to itself; the proofs are about
all of them together, the safety of reconfigurations and device changes included. `MaxCleans` caps removals per key; one lets a pool vanish at every point of
every other task. Two receiving goroutines are the smallest number that races in
`newPool`, and three operations exceed what one pool of size 1 and one race allow.
Deployer has no bound. Two closures are what the pool of operations runs at once
(`routineCount` of `operation` is 2 in `config.yml`), and every wait and task
meets every step of the other. The four wants and three hot-plug settings are one
of each case that `Reconfigure` tells apart. Two
closures on one machine are again what the pool runs; the device lists hold each
of the cases that `generateUnitNum` and `assignController` tell apart, with the
controller's and the mouse's unit numbers as vCenter gives them. `MaxUnit` is 8 (not 15), so
that a list of few devices leaves one place of a controller, beyond its own unit 7. `MaxExpired`,
`MaxTimeouts` and `MaxFailures` are 1: each lets one request meet the event at every
step while the others go on; three requests are needed for two that write the map
while a third reads it. `MaxSessions` is 4, so that every request may log in and one
may do so twice. The two inventories of `queries` differ in a network of the one datacenter and in the
whole of the other, so that a list of each may be old or new, and a list of datacenters,
too (`MaxChanges` is 1); the kinds that clients ask for, clean (`CleanKinds`, of which the
key of pools is named in vain) and fill are one of each way through the code, while
`CachedAnswersAgree` compares both implementations for every kind, 828 sets of parameters and both spellings.
The proofs hold for every value of all these bounds.

**Fairness.** Weak fairness of each handler, each closure and the startup
goroutine: the Go scheduler runs what can run and every call to vCenter has a
deadline or fails. Weak fairness of `Restart`: a supervisor starts the process
again. A closure that waits in `Submit` for a full pool is woken when a worker
frees, which weak fairness of a task's step expresses because ants serves its
waiters and the instance's tasks are finite. Clients, crashes, vCenter and the
guest get no fairness; `DeployReturns`, `OperationsReturn` and `DevicesReturn` hold although vCenter
may never end a task and the guest never stop, because every wait has a timeout.
ApiSession and VCCache state only safety and assume no fairness.
Deadlock is checked in every run: `Quiet`, `Idle` and `Returned` are the only
places where a system may rest.

**Exceptions written into the properties.** `AcceptedIsRecoverable` excepts a
closure that panicked (its record goes without a callback) and a record that
`Set` failed to write; `RecordsAreOwned` a handler that panicked after `Receive`
and failures of badger; `ReportIsTruthful` and `RefusedRunsNothing` the
reconfiguration, whose `err` is shared; `FailureLeavesNothing` a clone that
outlives its timeout, a machine that cannot be powered on (Deploy does not roll
back there) and a roll-back that fails itself; `SuccessIsReal` a `Destroy` whose
look-up failed, a `Restart` that could not stop the machine and a number of processors
that a reconfiguration does not send (`Omitted`); that the machine runs again after a
reconfiguration is no part of it, since it does not (`ReconfiguredRuns`, violated in
`operator_cold`); `StopSuffices`
another closure that starts the machine or changes its hardware meanwhile, and what the
decision to stop does not look at (`Overlooked`);
`StopsAreWarranted` the same number of processors, which is compared although it is not sent; `MovesOwnDisks` a unit
number that a device on another controller has (`Misnoted`), and a closure that has lost
a disk to the removal of another (`robbed`), after which the number may be given again;
`SuccessIsPlaced` both of these, and a disk that another closure has taken for its own
(`Taken`), which can only be one of the former;
`RefusalsAreWarranted` an older device list, several disks in one request, and a
request that edits what it removes; `LoginsAreWarranted` a question that timed out;
`SessionsAreAccounted` the four ways in which a session is left to vCenter;
`CleanIsFelt` a list that was being read when the cache was cleaned, and the kinds whose
key a client cannot name (`Unfelt`: OS families, and pools once a client has tried);
`FilledIsFound` these kinds and lists, a failed call and a clean by another;
`TickersAreFound` tickers that two calls had made before either was stored (`raced`; that
they, too, are found is violated in `ticker_race`) and a vCenter that is ignored as a whole;
`CachedAnswersAgree` and `AnswersFit` the queries that `ReadOtherwise` names; `AnswersFit`
also the parameters that no query reads (`Unheeded`) and, as far as it asks for all objects,
those in a datacenter that comes or goes (`Lasting`: the walks go by the cached list of
datacenters, however old). They are behaviours of the code.

## 4. What is proved

`RequestLifecycleProofs`, for any requests, machines, operations, configuration
and number of crashes, from `ConstantsAssumption`:

- `TypeCorrect`: `Spec => []TypeOK`, by one lemma per building block of the
  actions and one step per action.
- `Recoverable`: `Spec => []AcceptedIsRecoverable`. The property is not
  inductive: a handler on its way to "accepted" must be covered before it
  answers. `RecordInv` says that a request is covered (record, failed write,
  panic or callback) from its record on, that a closure about to remove the
  record has called back or panicked, and that startup has called back what it is
  about to cancel.
- `RefusedSafe` and `NeverTwice`: `RefusedRunsNothing` and `OneTurnEach`, from
  `ProgressInv`: a closure exists only after its handler submitted it, nobody but
  the closure of reconfigure makes `err` an error, and a closure has done as much as it
  has taken turns, so that the next effect is that of the next entry of its list.
- `ReportsAreTrue`: `ReportIsTruthful`, from `TruthInv`. That a sent report is true
  does not follow from the reports sent before it: a closure with an `err` of its
  own must note each effect as it makes it, must have noted every machine it has
  left behind, and must have no machine left when it calls back; once the report is
  sent, nothing is visited any more, so that it stays true.
- `RecordsHaveOwners`: `RecordsAreOwned`, from `OwnedInv`. A record may lose its handler
  only to its closure or to an error, its closure only with the record itself, and
  both to a restart, after which `startup` has still to read it, has it in `todo` or is at
  it. `OneByOne` (startup is at one record at a time, and has none to do when it is
  done) is what leaves no record between two owners.

`WorkerPoolProofs`, for any finite set of tasks, any routine counts and capacity
and any number of removals, from `PoolAssumption`:

- `PoolTypeCorrect`: `Spec => []TypeOK`, with the bound on receiving goroutines.
- `Separate`: `PoolsAreSeparate`, which no run checks, from `OwnPoolInv` (a pool is cached under and
  held by tasks of the key it was created for).
- `Bounded`: `PoolsAreBounded`, from `CreatedInv`: while a key has no cached
  pool, every pool created for it since its last removal is still held by a
  goroutine about to store it, and those are at most `ReceiveCapacity`.
- `RunningBounded`: `RunningIsBounded`, from `Bounded`, `RoomInv` (no single pool
  runs more than its count) and an injection of the running closures into
  created pools times worker numbers.

`OperatorProofs`, for any closures, operations, requests and hot-plug settings,
from `OperatorAssumption`:

- `OperatorTypeCorrect`: `Spec => [](TypeOK /\ StageOK)`. `StageOK`, a closure comes
  only to the helpers of its operation, is needed because what a helper's result
  leads to is a case distinction over the operations that call it.
- `OperatorSuccess`: `SuccessIsReal`, from `SuccessInv`. A result says nothing of the
  steps before it, so `WatchOf` keeps that a closure has seen every state of the
  machine since it began and the effect of its own finished task, and `BehindOf`
  what an operation of several helpers has behind it (a `Restart` that powers off
  has a failed shutdown, one that powers on has seen the machine off or failed
  twice). For a reconfiguration, `Decided` says that the machine has had every amount
  which the plan leaves out, but for `Omitted`, and `Applied` that it has had those which the
  plan sends once its task is done; with `WantedInv` (what is sent is what was asked for) the
  two give every amount of the request. The steps of others only add to what a closure has
  seen.
- `StopsWarranted`: `StopsAreWarranted`. The plan `Measure` makes stops the machine only if
  one of the changed parts needs it (lemma `StopNeeded`), and nobody changes a plan.
- `StopsEnough`: `StopSuffices`, from `StopInv`. `ReadyOf` carries the plan's promise from
  `Measure` to `Configure`: if nobody can disturb the closure, the machine is off or can take
  the change, or the plan overlooked that it cannot. Late tasks of other closures are ruled out by `TaskOK` (a task that
  starts or changes the machine is one of a closure that has gone that far, and so
  is not idle).
- `NothingElse`: `OnlyWantedChanges`, an action property. The task that changes the machine
  may end long after it was planned; `WantedInv` says that every plan, old or new, sends
  only amounts that its closure was asked for, or none.

`ContractProofs`, for any requests, machines, operations, configuration and number of
crashes:

- `PromiseKept`: `Contract!Spec => []NobodyForgotten`. The invariant is inductive.
- `KeepsContract`: `Spec => ContractKept`, that is, RequestLifecycle implements
  CallbackContract. The initial states map to initial states, and one lemma per
  action shows which step of the contract (or stutter) it is: a `Set` is `Take` or
  `Lose`, `Reply` is `Reply`, `CallBack` and `StartupNotify` are `Tell`, everything that
  removes a record, a closure or a snapshot is `Release`. The steps need the inductive
  invariant `TypeOK /\ RecordInv /\ ProgressInv /\ ReportInv`: `Release` may let go only of
  requests that were called back or are lost, which `RecordInv` knows; a report is
  only sent about a request that was not refused, which `ProgressInv` (a refused
  request has no closure) and `ReportInv` (a report is the work of a closure) know.

`ApiSessionProofs`, for any calls, accounts, token types, versions and bounds on
sessions, from `SessionAssumption` (the version numbers are in the range in which
folding them into one number keeps their order):

- `SessionTypeCorrect`: `Spec => []TypeOK`.
- `SupportedOnly` and `OwnSessionOnly`: `ConnectedIsSupported` and `ConnectedWasLive`, from
  `HeldInv`: whatever is in the map under an account was opened with that account and
  checked, which is what a handler that only finds a session there relies on.
- `NoIdleLogin`: `LoginsAreWarranted`, from `LoginInv`: a call that has not found anything
  wanting still has its session open.
- `NoSessionIsLost`: `SessionsAreAccounted`, from `AccountInv`: what a call has taken from the
  map is there still or was excused when it was replaced.

`DeployerProofs`, for every request (Deployer has no other parameters):

- `DeployerTypeCorrect`, `SuccessIsRunning`, `FailureIsClean`, `StartsConfigured`: `TypeOK`,
  `SuccessMeansRunning`, `FailureLeavesNothing`, `FirstBootIsConfigured`. What success and
  failure mean says nothing of the steps in between, so `DeployerInv` says for each step
  how the machine and the task on it stand: before there is a machine (`Creating`), until
  it runs (`Preparing`), and while it is rolled back (`Undoing`). `Awaits` relates the task,
  the wait for it and the machine. `Undoing` has to admit a reconfiguration or a
  customization that outlived its waiter, but no task that starts the machine, and
  `StartsReady` holds for a start that nobody awaits, which is what the first boot needs.

`DevicesProofs`, for any closures, requests, device lists, datastores and networks, from
`DevicesAssumption` (keys and places on the controller are each one device's, the system
disk has the first place):

- `DevicesTypeCorrect`, `OnlyOwnDisksMove`, `OnlyWarrantedRefusals`, `SuccessesArePlaced`:
  `TypeOK`, `MovesOwnDisks`, `RefusalsAreWarranted`, `SuccessIsPlaced`, all from `DevicesInv`.
  `MachineOK` keeps keys and places unique through every task. `FoundOf` and `ParsedOf` tie
  what a closure has read to the machine as it is now, which is what makes an old list
  harmless: its devices are still the same ones, and a disk that is not in it was added
  since, and sits on the controller. `FreshOf` says that until anybody changes the devices a
  list is the machine's, so that a single new disk fits. `DoneOf` carries the new disk and
  its place from the end of the task to the second reading, `MovesOf` and `PlacedOf` from
  there through the relocation. The lemmas on `Free` say that the number it gives is not in
  use, and that the noted number is the assigned one when no other controller has it.
- `OnlyAskedDevicesChange`: the action property `OnlyAskedChanges`, from the same invariant.

`VCCacheProofs`, for any objects, inventories, calls, kinds asked for, cleaned and filled,
settings of the cache and bounds on changes and failures, from `InventoryAssumption`,
`TopologyAssumption` and `CacheAssumption`:

- `CacheTypeCorrect`, `CleansAreFelt`, `AnswersAreFit`, `FilledServes`,
  `TickersServe`: `TypeOK`, `CleanIsFelt`, `AnswersFit`, `FilledIsFound`, `TickersAreFound`,
  from `CacheSystemInv`. A list enters the
  cache after it was read, so `ReadInv` says of what a call has read and may still store what
  `CacheInv` says of what is cached: it is explained by inventories since the kind was
  cleaned, and lacks nothing that all of them have, but for the datacenters still to be
  visited. `CleanAll` lists keys and deletes them later: a list stored between the two
  survives the delete, so both invariants hold for the inventories since each pending delete
  was listed (`mark`), as well. `DatacentersInv` is what an old list of datacenters is still
  good for. `FetchInv` says what a call has been told of the objects it asks for one by one. `FillInv`
  keeps what CreateCache has filled, and `AnswersFit` is inductive on top of these. `TickerInv`
  says that a ticker made alone is either about to be stored by the only call that has one,
  with nothing under its key, or is under its key with no call left to replace it.
- `ImplementationsAgree`: `CachedAnswersAgree`. `Disagreements` is empty, kind by kind: what the
  filter of a cached list keeps is what vCenter is asked for, which rests on
  `TopologyAssumption`.

Only model-checked: liveness (`AcceptedIsAnswered`, `EveryTaskRuns`, `DeployReturns`,
`OperationsReturn`, `DevicesReturn`), which is out of the prover's reach. Every safety
invariant and action property of the passing runs is proved. The violation runs show
counterexamples, which need no proof.

## 5. What is not modelled, and what is left

A composition of lifecycle, pools and operations in one module: the parts are checked and
proved apart, each under the assumption the next one shows.

That vCenter gives the key of a device to no other device, ever, is an assumption on it
(`nextKey` only grows), which the properties of Devices rest on.

Not modelled: how the specifications of clones, customizations and reconfigurations
are filled in (data on which no step depends); HTTP routing, swagger's generated text,
logging, the wording of responses, the exchange with vCenter below a call's outcome;
`Rename` and `Descript`, which are one synchronous call each; the relocation of a
machine to another host or pool, and snapshots, which are not routed; `StopTicker`,
`GetDatacenter` and its like, which nobody calls.
