------------------------------ MODULE Operator ------------------------------
(***************************************************************************)
(* VirtualMachineOperator: the operations on an existing machine, with the *)
(* helpers they are made of (Shutdown, PowerOff, PowerOn and Destroy of    *)
(* helper/virtualmachine, Reconfigure of virtualmachinereconfig).          *)
(*                                                                         *)
(* The closures of several requests may run operations on one machine at   *)
(* the same time: the pool of operations of a vCenter has a routine count  *)
(* of its own, and nothing locks a machine.  Each helper reads the power   *)
(* state, then calls vCenter, then waits with a timeout, and the others    *)
(* take steps in between.                                                  *)
(*                                                                         *)
(* vCenter is the environment, as in module Deployer: one task at a time   *)
(* on the machine, tasks outlive their waiters.  Shutting the guest down   *)
(* is not a task: vCenter passes the wish on, and the machine goes off     *)
(* some time later, or never.                                              *)
(***************************************************************************)
EXTENDS Naturals

CONSTANTS
    Closures,       \* the closures that run an operation on the machine
    Operations,     \* the operations they run
    Wants,          \* the hardware that requests for reconfiguration ask for
    HotPlugs,       \* the hot-plug settings the machine may have
    Hardware,       \* the hardware it has at first
    ShutdownFirst   \* vsphere.default.operation.shutdownFirst

AllOperations ==
    {"power_on", "power_off", "shutdown", "restart", "destroy", "reconfigure"}

\* Numbers of processors, cores per socket and units of memory.  In a request
\* 0 stands for a field that is not given, as in the code.
Amounts == [cpu : Nat, cores : Nat, memory : Nat]

Fields == {"cpu", "cores", "memory"}

Nothing == [cpu |-> 0, cores |-> 0, memory |-> 0]

\* A hot-plug setting may be missing from what vCenter answers.
Settings == {"enabled", "disabled", "unset"}

ASSUME OperatorAssumption ==
    /\ Operations \subseteq AllOperations
    /\ Wants \subseteq Amounts
    /\ HotPlugs \subseteq [addCpu : Settings, removeCpu : Settings, addMemory : Settings]
    /\ Hardware \in Amounts
    /\ Hardware.cpu > 0 /\ Hardware.cores > 0 /\ Hardware.memory > 0
    /\ ShutdownFirst \in BOOLEAN

VARIABLES
    vm,        \* the machine: "absent", "off" or "on"
    stopping,  \* its guest has been told to shut down
    hw,        \* its hardware
    hot,       \* its hot-plug settings
    task,      \* the vCenter task that runs on it, and the closure it is for
    op,        \* op[c]: the operation of closure c
    want,      \* want[c]: the hardware it is to set, if it is a reconfiguration
    pc,        \* pc[c]: where c is
    awaited,   \* awaited[c]: how the task that c waits for stands
    plan,      \* plan[c]: what a reconfiguration has read and decided on
    result,    \* result[c]: what the operation returned

    \* History, read by no action's guard.
    seen,      \* seen[c]: the states of the machine since c began
    failed,    \* failed[c]: the helpers that failed in c
    met        \* met[c]: the given fields of want[c] whose amount the machine
               \* has had since c began

vcenter == <<vm, stopping, hw, hot, task>>
request == <<op, want>>
vars == <<vcenter, request, pc, awaited, plan, result, seen, failed, met>>

NoTask == [job |-> "none"]
Jobs == {"power_on", "power_off", "destroy", "configure"}

\* In the states of Waiting a closure waits for a task of vCenter, in "halting"
\* for the power state.
Waiting == {"powering_on", "powering_off", "destroying", "configuring"}

Pcs == Waiting \cup
       {"idle", "shutdown", "halt", "halting", "power_off", "cut", "power_on",
        "boot", "destroy", "raze", "measure", "configure", "returned"}

NoPlan == [stopFirst |-> FALSE, wasOn |-> FALSE, param |-> Nothing, of |-> Nothing]
Plans == [stopFirst : BOOLEAN, wasOn : BOOLEAN, param : Amounts, of : Amounts]

MachineTypeOK ==
    /\ vm \in {"absent", "off", "on"}
    /\ stopping \in BOOLEAN
    /\ hw \in Amounts
    /\ hot \in HotPlugs
    /\ task \in [job : Jobs, by : Closures] \cup {NoTask}

ClosureTypeOK ==
    /\ op \in [Closures -> Operations]
    /\ want \in [Closures -> Wants \cup {Nothing}]
    /\ pc \in [Closures -> Pcs]
    /\ awaited \in [Closures -> {"none", "running", "done", "failed"}]
    /\ plan \in [Closures -> Plans]
    /\ result \in [Closures -> {"none", "ok", "error", "panic"}]

HistoryTypeOK ==
    /\ seen \in [Closures -> SUBSET {"absent", "off", "on"}]
    /\ failed \in [Closures -> SUBSET {"shutdown", "power_off", "lookup"}]
    /\ met \in [Closures -> SUBSET Fields]

\* A closure waits for a task exactly in its waiting states, has a result
\* exactly when it has returned, and is the one the running task answers to if
\* its wait has not ended.
WaitsOK ==
    \A c \in Closures :
        /\ awaited[c] # "none" <=> pc[c] \in Waiting
        /\ result[c] # "none" <=> pc[c] = "returned"
        /\ awaited[c] = "running" => task # NoTask /\ task.by = c

\* Every variable has its type; only a running guest shuts down; WaitsOK.
TypeOK ==
    /\ MachineTypeOK /\ ClosureTypeOK /\ HistoryTypeOK
    /\ stopping => vm = "on"
    /\ WaitsOK

Init ==
    /\ vm \in {"off", "on"} /\ stopping = FALSE
    /\ hw = Hardware /\ hot \in HotPlugs
    /\ task = NoTask
    /\ op \in [Closures -> Operations]
    /\ want \in [Closures -> Wants \cup {Nothing}]
    /\ \A c \in Closures : want[c] = Nothing <=> op[c] # "reconfigure"
    /\ pc = [c \in Closures |-> "idle"]
    /\ awaited = [c \in Closures |-> "none"]
    /\ plan = [c \in Closures |-> NoPlan]
    /\ result = [c \in Closures |-> "none"]
    /\ seen = [c \in Closures |-> {}]
    /\ failed = [c \in Closures |-> {}]
    /\ met = [c \in Closures |-> {}]

-----------------------------------------------------------------------------
(* vCenter.                                                                *)

Running(c) == pc[c] \notin {"idle", "returned"}

Becomes(state) ==
    /\ vm' = state
    /\ stopping' = (stopping /\ state = "on")
    /\ seen' = [c \in Closures |-> IF Running(c) THEN seen[c] \cup {state} ELSE seen[c]]

\* The fields that a change sets: 0 is left out of what is sent to vCenter.
Changed(h, change) ==
    LET Given(new, old) == IF new # 0 THEN new ELSE old
    IN  [cpu |-> Given(change.cpu, h.cpu), cores |-> Given(change.cores, h.cores),
         memory |-> Given(change.memory, h.memory)]

\* The fields given in w that hardware h has.
MetBy(h, w) == {f \in Fields : w[f] # 0 /\ w[f] = h[f]}

Rebuilt(h) ==
    /\ hw' = h
    /\ met' = [c \in Closures |->
                 IF Running(c) THEN met[c] \cup MetBy(h, want[c]) ELSE met[c]]

\* What a running machine with hardware h can take: what its settings enable,
\* and other cores per socket never.
CanTake(h, change) ==
    /\ change.cpu > h.cpu => hot.addCpu = "enabled"
    /\ change.cpu # 0 /\ change.cpu < h.cpu => hot.removeCpu = "enabled"
    /\ change.cores \in {0, h.cores}
    /\ change.memory > h.memory => hot.addMemory = "enabled"
    /\ change.memory # 0 => change.memory >= h.memory

\* The states of the machine in which vCenter accepts a task.
Accepts(job, c) ==
    /\ task = NoTask
    /\ CASE job = "power_on" -> vm = "off"
         [] job = "power_off" -> vm = "on"
         [] job = "destroy" -> vm = "off"
         [] job = "configure" -> \/ vm = "off"
                                 \/ vm = "on" /\ CanTake(hw, plan[c].param)

\* A task takes effect.
Effect(job, c) ==
    /\ CASE job = "power_on" -> Becomes("on")
         [] job = "power_off" -> Becomes("off")
         [] job = "destroy" -> Becomes("absent")
         [] job = "configure" -> UNCHANGED <<vm, stopping, seen>>
    /\ IF job = "configure" THEN Rebuilt(Changed(hw, plan[c].param))
                            ELSE UNCHANGED <<hw, met>>

\* It ends, well or badly; its closure learns of it only if it still waits.
TaskEnds(c) ==
    /\ task # NoTask /\ task.by = c
    /\ task' = NoTask
    /\ \/ /\ Effect(task.job, c)
          /\ awaited' = [awaited EXCEPT ![c] = IF @ = "running" THEN "done" ELSE @]
       \/ /\ awaited' = [awaited EXCEPT ![c] = IF @ = "running" THEN "failed" ELSE @]
          /\ UNCHANGED <<vm, stopping, hw, seen, met>>
    /\ UNCHANGED <<hot, request, pc, plan, result, failed>>

\* The guest that was told to shut down has done so.
GuestStops ==
    /\ stopping
    /\ Becomes("off")
    /\ UNCHANGED <<hw, hot, task, request, pc, awaited, plan, result, failed, met>>

-----------------------------------------------------------------------------
(* The ways a closure goes on.                                             *)

GoTo(c, s) == pc' = [pc EXCEPT ![c] = s] /\ UNCHANGED result

Return(c, res) == /\ pc' = [pc EXCEPT ![c] = "returned"]
                  /\ result' = [result EXCEPT ![c] = res]

Ends(c, ok) == Return(c, IF ok THEN "ok" ELSE "error")

Fails(c, what) == failed' = [failed EXCEPT ![c] = @ \cup {what}]

\* A property that cannot be read is a nil pointer, which is dereferenced.
Panic(c) == Return(c, "panic") /\ UNCHANGED failed

\* vCenter accepts a task and c waits for it.
Submit(job, c, waiting) ==
    /\ Accepts(job, c)
    /\ task' = [job |-> job, by |-> c]
    /\ awaited' = [awaited EXCEPT ![c] = "running"]
    /\ GoTo(c, waiting)
    /\ UNCHANGED <<vm, stopping, hw, hot, request, plan, seen, failed, met>>

\* A step that neither starts a task nor ends a wait.
Local == UNCHANGED <<vcenter, request, awaited, plan, seen, met>>

\* A wait for a task ends: with the task, or with the timeout.
Awaited(c) == /\ awaited' = [awaited EXCEPT ![c] = "none"]
              /\ UNCHANGED <<vcenter, request, plan, seen, met>>

Succeeded(c) == awaited[c] = "done"
Failed(c) == awaited[c] \in {"failed", "running"}

\* What each operation does after the helper Shutdown ...
AfterShutdown(c, ok) ==
    /\ IF ok THEN UNCHANGED failed ELSE Fails(c, "shutdown")
    /\ CASE op[c] = "shutdown" -> Ends(c, ok)
         [] op[c] = "power_off" -> IF ok THEN Ends(c, TRUE) ELSE GoTo(c, "power_off")
         [] op[c] = "restart" -> GoTo(c, IF ok THEN "power_on" ELSE "power_off")
         [] op[c] = "reconfigure" -> GoTo(c, IF ok THEN "configure" ELSE "power_off")

\* ... after PowerOff (Restart goes on although it has failed) ...
AfterPowerOff(c, ok) ==
    /\ IF ok THEN UNCHANGED failed ELSE Fails(c, "power_off")
    /\ CASE op[c] = "power_off" -> Ends(c, ok)
         [] op[c] = "restart" -> GoTo(c, "power_on")
         [] op[c] = "reconfigure" -> IF ok THEN GoTo(c, "configure") ELSE Ends(c, FALSE)
         [] op[c] = "destroy" -> IF ok THEN GoTo(c, "raze") ELSE Ends(c, FALSE)

\* ... and after PowerOn, whose error a reconfiguration only logs.
AfterPowerOn(c, ok) ==
    /\ UNCHANGED failed
    /\ Ends(c, ok \/ op[c] = "reconfigure")

-----------------------------------------------------------------------------
(* The helpers.                                                            *)

PowerOffFirst == IF ShutdownFirst THEN "shutdown" ELSE "power_off"

Start(c) ==
    /\ pc[c] = "idle"
    /\ GoTo(c, CASE op[c] = "power_off" -> PowerOffFirst
                 [] op[c] \in {"shutdown", "restart"} -> "shutdown"
                 [] op[c] = "reconfigure" -> "measure"
                 [] OTHER -> op[c])
    /\ seen' = [seen EXCEPT ![c] = {vm}]
    /\ met' = [met EXCEPT ![c] = MetBy(hw, want[c])]
    /\ UNCHANGED <<vcenter, request, awaited, plan, failed>>

Shutdown(c) ==
    /\ pc[c] = "shutdown"
    /\ \/ vm = "off" /\ AfterShutdown(c, TRUE)
       \/ vm = "on" /\ GoTo(c, "halt") /\ UNCHANGED failed
       \/ Panic(c)
    /\ Local

Halt(c) ==
    /\ pc[c] = "halt"
    /\ \/ /\ vm = "on"
          /\ stopping' = TRUE
          /\ GoTo(c, "halting")
          /\ UNCHANGED <<vm, hw, hot, task, request, awaited, plan, seen, failed, met>>
       \/ AfterShutdown(c, FALSE) /\ Local

\* It waits for the power state, not for the guest: whoever switched the
\* machine off, the wait ends well.
Halting(c) ==
    /\ pc[c] = "halting"
    /\ \/ vm = "off" /\ AfterShutdown(c, TRUE)
       \/ AfterShutdown(c, FALSE)
    /\ Local

PowerOff(c) ==
    /\ pc[c] = "power_off"
    /\ \/ vm = "off" /\ AfterPowerOff(c, TRUE)
       \/ vm = "on" /\ GoTo(c, "cut") /\ UNCHANGED failed
       \/ Panic(c)
    /\ Local

Cut(c) ==
    /\ pc[c] = "cut"
    /\ \/ Submit("power_off", c, "powering_off")
       \/ AfterPowerOff(c, FALSE) /\ Local

\* Mutant: the wait has no timeout.
PoweringOffForever(c) ==
    /\ pc[c] = "powering_off"
    /\ \/ Succeeded(c) /\ AfterPowerOff(c, TRUE)
       \/ awaited[c] = "failed" /\ AfterPowerOff(c, FALSE)
    /\ Awaited(c)

PoweringOff(c) ==
    /\ pc[c] = "powering_off"
    /\ \/ Succeeded(c) /\ AfterPowerOff(c, TRUE)
       \/ Failed(c) /\ AfterPowerOff(c, FALSE)
    /\ Awaited(c)

PowerOn(c) ==
    /\ pc[c] = "power_on"
    /\ \/ vm = "on" /\ AfterPowerOn(c, TRUE)
       \/ vm = "off" /\ GoTo(c, "boot") /\ UNCHANGED failed
       \/ Panic(c)
    /\ Local

\* Mutant: the wait is left to another goroutine.
BootUnawaited(c) ==
    /\ pc[c] = "boot"
    /\ \/ /\ Accepts("power_on", c)
          /\ task' = [job |-> "power_on", by |-> c]
          /\ awaited' = [awaited EXCEPT ![c] = "running"]
          /\ AfterPowerOn(c, TRUE)
          /\ UNCHANGED <<vm, stopping, hw, hot, request, plan, seen, met>>
       \/ AfterPowerOn(c, FALSE) /\ Local

Boot(c) ==
    /\ pc[c] = "boot"
    /\ \/ Submit("power_on", c, "powering_on")
       \/ AfterPowerOn(c, FALSE) /\ Local

PoweringOn(c) ==
    /\ pc[c] = "powering_on"
    /\ \/ Succeeded(c) /\ AfterPowerOn(c, TRUE)
       \/ Failed(c) /\ AfterPowerOn(c, FALSE)
    /\ Awaited(c)

\* Destroy returns nil, as if it had succeeded, when its look-up fails.
Destroy(c) ==
    /\ pc[c] = "destroy"
    /\ \/ Ends(c, TRUE) /\ Fails(c, "lookup")
       \/ vm = "off" /\ GoTo(c, "raze") /\ UNCHANGED failed
       \/ vm = "on" /\ GoTo(c, "power_off") /\ UNCHANGED failed
       \/ Panic(c)
    /\ Local

Raze(c) ==
    /\ pc[c] = "raze"
    /\ \/ Submit("destroy", c, "destroying")
       \/ Ends(c, FALSE) /\ UNCHANGED failed /\ Local

Destroying(c) ==
    /\ pc[c] = "destroying"
    /\ \/ Succeeded(c) /\ Ends(c, TRUE)
       \/ Failed(c) /\ Ends(c, FALSE)
    /\ UNCHANGED failed
    /\ Awaited(c)

-----------------------------------------------------------------------------
(* Reconfigure.                                                            *)

\* The request is compared with the hardware field by field.  A field that is
\* not given differs from any amount; a new number of processors counts as a
\* change only together with a new number of cores per socket.
CpuGiven(w) == w.cpu > 0 \/ w.cores > 0
CpuChanged(w) == CpuGiven(w) /\ w.cores # hw.cores
MemoryChanged(w) == w.memory > 0 /\ w.memory # hw.memory

\* Mutant: the fields that do not change are sent as they were read.
WholeChange(w) ==
    [cpu |-> IF CpuChanged(w) /\ w.cpu > 0 THEN w.cpu ELSE hw.cpu,
     cores |-> IF CpuChanged(w) /\ w.cores > 0 THEN w.cores ELSE hw.cores,
     memory |-> IF MemoryChanged(w) THEN w.memory ELSE hw.memory]

Change(w) ==
    [cpu |-> IF CpuChanged(w) /\ w.cpu # hw.cpu THEN w.cpu ELSE 0,
     cores |-> IF CpuChanged(w) THEN w.cores ELSE 0,
     memory |-> IF MemoryChanged(w) THEN w.memory ELSE 0]

\* Mutant: memory that shrinks is forgotten.
StopFirstUnlessShrinking(w) ==
    /\ vm = "on"
    /\ \/ MemoryChanged(w) /\ w.memory > hw.memory /\ hot.addMemory = "disabled"
       \/ CpuGiven(w) /\ w.cpu > hw.cpu /\ hot.addCpu = "disabled"
       \/ CpuGiven(w) /\ w.cpu < hw.cpu /\ hot.removeCpu = "disabled"

\* Mutant: every change is made with the machine off.
StopFirstAlways(w) == vm = "on"

\* What the settings of the machine disable while it runs is done with the
\* machine off; a setting that is unset disables nothing.
StopFirst(w) ==
    /\ vm = "on"
    /\ \/ MemoryChanged(w) /\ w.memory > hw.memory /\ hot.addMemory = "disabled"
       \/ MemoryChanged(w) /\ w.memory < hw.memory
       \/ CpuGiven(w) /\ w.cpu > hw.cpu /\ hot.addCpu = "disabled"
       \/ CpuGiven(w) /\ w.cpu < hw.cpu /\ hot.removeCpu = "disabled"

Measure(c) ==
    /\ pc[c] = "measure"
    /\ \/ /\ vm # "absent"
          /\ ~CpuChanged(want[c]) /\ ~MemoryChanged(want[c])
          /\ Ends(c, TRUE)
          /\ plan' = [plan EXCEPT ![c] = [NoPlan EXCEPT !.of = hw]]
       \/ /\ vm # "absent"
          /\ CpuChanged(want[c]) \/ MemoryChanged(want[c])
          /\ plan' = [plan EXCEPT ![c] =
                        [stopFirst |-> StopFirst(want[c]), wasOn |-> vm = "on",
                         param |-> Change(want[c]), of |-> hw]]
          /\ GoTo(c, IF StopFirst(want[c]) THEN PowerOffFirst ELSE "configure")
       \/ Panic(c) /\ UNCHANGED plan
    /\ UNCHANGED <<vcenter, request, awaited, seen, failed, met>>

\* What fails before the task is started: the look-up of the machine, of its
\* devices, the call.
Configure(c) ==
    /\ pc[c] = "configure"
    /\ \/ Submit("configure", c, "configuring")
       \/ Ends(c, FALSE) /\ UNCHANGED failed /\ Local

\* The machine that was stopped is to be started again if it was off before,
\* which it never was.
AfterConfigure(c) ==
    IF plan[c].stopFirst /\ ~plan[c].wasOn THEN GoTo(c, "power_on") ELSE Ends(c, TRUE)

\* Mutant: the timeout of the wait is taken for success.
ConfiguringIgnoresTimeout(c) ==
    /\ pc[c] = "configuring"
    /\ \/ awaited[c] # "failed" /\ AfterConfigure(c)
       \/ awaited[c] = "failed" /\ Ends(c, FALSE)
    /\ UNCHANGED failed
    /\ Awaited(c)

Configuring(c) ==
    /\ pc[c] = "configuring"
    /\ \/ Succeeded(c) /\ AfterConfigure(c)
       \/ Failed(c) /\ Ends(c, FALSE)
    /\ UNCHANGED failed
    /\ Awaited(c)

-----------------------------------------------------------------------------

Step(c) ==
    \/ Start(c) \/ Shutdown(c) \/ Halt(c) \/ Halting(c)
    \/ PowerOff(c) \/ Cut(c) \/ PoweringOff(c)
    \/ PowerOn(c) \/ Boot(c) \/ PoweringOn(c)
    \/ Destroy(c) \/ Raze(c) \/ Destroying(c)
    \/ Measure(c) \/ Configure(c) \/ Configuring(c)

Idle == /\ \A c \in Closures : pc[c] = "returned"
        /\ task = NoTask /\ ~stopping
        /\ UNCHANGED vars

Next == \/ \E c \in Closures : Step(c) \/ TaskEnds(c)
        \/ GuestStops
        \/ Idle

Spec == Init /\ [][Next]_vars

\* The closures run and their waits time out; vCenter and the guest owe nothing.
FairSpec == Spec /\ \A c \in Closures : WF_vars(Step(c))

-----------------------------------------------------------------------------
(* Properties.                                                             *)

Succeeds(c, o) == result[c] = "ok" /\ op[c] = o

\* The number of processors that a reconfiguration leaves out although it is
\* asked for: the cores per socket named beside it are those there are.
Omitted(c, f) == f = "cpu" /\ want[c].cores = plan[c].of.cores

\* An operation that reports success has seen the machine in the state it was to
\* bring about since it began, whatever the other closures and late tasks did
\* meanwhile; for a reconfiguration, every amount its request names.  The
\* exceptions are in the code: Destroy takes a failed look-up for a machine that
\* is gone, Restart forgets that neither way of stopping worked, Reconfigure
\* does not send a number of processors without new cores per socket.
RealOf(c) ==
    /\ Succeeds(c, "power_on") => "on" \in seen[c]
    /\ Succeeds(c, "power_off") \/ Succeeds(c, "shutdown") => "off" \in seen[c]
    /\ Succeeds(c, "destroy") => "absent" \in seen[c] \/ "lookup" \in failed[c]
    /\ Succeeds(c, "restart") =>
          /\ "on" \in seen[c]
          /\ "off" \in seen[c] \/ {"shutdown", "power_off"} \subseteq failed[c]
    /\ Succeeds(c, "reconfigure") =>
          \A f \in Fields : want[c][f] # 0 => f \in met[c] \/ Omitted(c, f)

SuccessIsReal == \A c \in Closures : RealOf(c)

\* After a reconfiguration that reports success a machine that was on is on
\* again, if nobody else works on it: what Test_reconfigure_cold_cpu
\* (test/operator_reconfigure_test.go:32) asserts, and the code does not do.
ReconfiguredRuns ==
    \A c \in Closures : Succeeds(c, "reconfigure") /\ "on" \in seen[c] => vm = "on"

\* A reconfiguration changes what its request names and nothing else: one that
\* read the hardware before another changed it does not write the old amounts
\* back.
OnlyWantedChanges ==
    [][\A f \in DOMAIN hw :
          hw'[f] # hw[f] =>
              /\ task # NoTask
              /\ hw'[f] = want[task.by][f]]_vars

\* What StopFirst does not look at: cores per socket, and settings that are unset.
Overlooked(h, change) ==
    \/ change.cores # 0
    \/ change.cpu > h.cpu /\ hot.addCpu = "unset"
    \/ change.cpu # 0 /\ change.cpu < h.cpu /\ hot.removeCpu = "unset"
    \/ change.memory > h.memory /\ hot.addMemory = "unset"

\* A reconfiguration that has come to its change can make it, on a running
\* machine only what the machine takes while it runs, unless another closure
\* has started the machine or changed its hardware since.  The exception is in
\* the code: what it overlooks when it decides whether to stop the machine.
StopSuffices ==
    \A c \in Closures :
        pc[c] = "configure" /\ vm = "on" /\ ~CanTake(hw, plan[c].param) =>
            \/ Overlooked(plan[c].of, plan[c].param)
            \/ \E d \in Closures \ {c} :
                  /\ op[d] \in {"power_on", "restart", "reconfigure"}
                  /\ pc[d] # "idle"

\* A reconfiguration stops the machine only for a change that the machine does
\* not take while it runs.  The exception is in the code: another number of
\* processors, or none, beside the cores per socket there are counts although
\* it is not sent.
StopsAreWarranted ==
    \A c \in Closures :
        plan[c].stopFirst =>
            \/ ~CanTake(plan[c].of, plan[c].param)
            \/ Omitted(c, "cpu") /\ want[c].cpu # plan[c].of.cpu

\* Every operation returns, even if vCenter never ends a task and the guest
\* never stops: every wait has a timeout.
OperationsReturn == \A c \in Closures : <>(pc[c] = "returned")

(* The inductive invariants behind TypeOK and SuccessIsReal.                *)

\* The operations that come to each helper.
Fits(s, o) ==
    /\ s \in {"shutdown", "halt", "halting"} =>
          o \in {"power_off", "shutdown", "restart", "reconfigure"}
    /\ s \in {"power_off", "cut", "powering_off"} =>
          o \in {"power_off", "restart", "reconfigure", "destroy"}
    /\ s \in {"power_on", "boot", "powering_on"} =>
          o \in {"power_on", "restart", "reconfigure"}
    /\ s \in {"destroy", "raze", "destroying"} => o = "destroy"
    /\ s \in {"measure", "configure", "configuring"} => o = "reconfigure"

StageOK == \A c \in Closures : Fits(pc[c], op[c])

\* The change of c has taken effect.
Applied(c) == \A f \in Fields : plan[c].param[f] # 0 => f \in met[c]

\* What c does not send, the machine has had already.
Decided(c) ==
    \A f \in Fields :
        want[c][f] # 0 => \/ f \in met[c]
                          \/ plan[c].param[f] = want[c][f]
                          \/ Omitted(c, f)

\* The closure has watched the machine since it began; the task it waits for is
\* the one its step started, and when it is done its effect has been seen.
WatchOf(c) ==
    /\ Running(c) => vm \in seen[c] /\ MetBy(hw, want[c]) \subseteq met[c]
    /\ awaited[c] = "running" =>
          /\ pc[c] = "powering_on" => task.job = "power_on"
          /\ pc[c] = "powering_off" => task.job = "power_off"
          /\ pc[c] = "destroying" => task.job = "destroy"
          /\ pc[c] = "configuring" => task.job = "configure"
    /\ awaited[c] = "done" =>
          /\ pc[c] = "powering_on" => "on" \in seen[c]
          /\ pc[c] = "powering_off" => "off" \in seen[c]
          /\ pc[c] = "destroying" => "absent" \in seen[c]
          /\ pc[c] = "configuring" => Applied(c)

\* What an operation of several helpers has behind it.
BehindOf(c) ==
    /\ pc[c] \in {"idle", "measure"} => plan[c] = NoPlan
    /\ op[c] = "restart" /\ pc[c] \in {"power_off", "cut", "powering_off"} =>
          "shutdown" \in failed[c]
    /\ op[c] = "restart" /\ pc[c] \in {"power_on", "boot", "powering_on"} =>
          "off" \in seen[c] \/ {"shutdown", "power_off"} \subseteq failed[c]
    /\ op[c] = "reconfigure" /\ pc[c] \in {"power_on", "boot", "powering_on"} =>
          Applied(c)
    /\ op[c] = "reconfigure" /\ pc[c] \notin {"idle", "measure", "returned"} => Decided(c)

SuccessInv == \A c \in Closures : WatchOf(c) /\ BehindOf(c) /\ RealOf(c)

(* The inductive invariant behind StopSuffices.                             *)

\* Whoever could start the machine or change its hardware beside c is idle.
Undisturbed(c) ==
    \A d \in Closures \ {c} :
        op[d] \in {"power_on", "restart", "reconfigure"} => pc[d] = "idle"

\* A task that starts or changes the machine is one of a closure that has gone
\* that far.
TaskOK ==
    /\ task.job = "power_on" =>
          /\ op[task.by] \in {"power_on", "restart", "reconfigure"}
          /\ pc[task.by] \in {"powering_on", "returned"}
    /\ task.job = "configure" =>
          /\ op[task.by] = "reconfigure"
          /\ pc[task.by] \in {"configuring", "power_on", "boot", "powering_on", "returned"}

\* The machine takes the change of c, or it was overlooked that it does not.
Ready(c) == CanTake(hw, plan[c].param) \/ Overlooked(plan[c].of, plan[c].param)

\* What an undisturbed reconfiguration may rely on before it makes its change.
ReadyOf(c) ==
    Undisturbed(c) =>
        /\ pc[c] = "configure" /\ vm = "on" => Ready(c)
        /\ pc[c] = "powering_off" /\ awaited[c] = "done" => vm # "on"

StopInv == TaskOK /\ \A c \in Closures : ReadyOf(c)

(* The inductive invariant behind OnlyWantedChanges.  SuccessIsReal rests on *)
(* it too.                                                                   *)

\* What a closure sends is what it was asked for, or left out.
SentOf(c) ==
    /\ plan[c].param.cpu \in {0, want[c].cpu}
    /\ plan[c].param.cores \in {0, want[c].cores}
    /\ plan[c].param.memory \in {0, want[c].memory}

WantedInv == \A c \in Closures : SentOf(c)

=============================================================================
