------------------------------ MODULE Deployer ------------------------------
(***************************************************************************)
(* One deployment: VirtualMachineDeployer.Deploy clones a template, sets   *)
(* the hardware of the new machine, customizes its guest, powers it on and *)
(* waits for its address; most failures roll back by destroying the new    *)
(* machine.                                                                *)
(*                                                                         *)
(* vCenter is the environment.  A call that starts a vCenter task returns  *)
(* at once; the facade then waits for the task with a timeout, and a task  *)
(* whose waiter gave up goes on.  While a task runs on the machine vCenter *)
(* refuses to start another.  A look-up may fail although the machine is   *)
(* there, because GetObject returns nil for every error, and a property    *)
(* that cannot be read is a nil pointer that Deploy dereferences: it       *)
(* panics, and the worker that runs it recovers.  Nobody else touches the  *)
(* new machine before Deploy returns.                                      *)
(***************************************************************************)
EXTENDS FiniteSets

\* The request, as far as Deploy branches on it: network interfaces are asked
\* for; the template has network cards; the request has settings for the guest
\* family of the template; the timeouts for address and network are positive.
\* The fields dataDisks and powerOn of a request are read by nobody: no disk is
\* added, and every new machine is powered on.
Parameters == [nics : BOOLEAN, cards : BOOLEAN, os : BOOLEAN,
               waitForIP : BOOLEAN, waitForNet : BOOLEAN]

Jobs == {"clone", "reconfigure", "customize", "power_on", "power_off", "destroy"}

VARIABLES
    p,         \* the request
    step,      \* where Deploy is
    oNewVM,    \* Deploy holds an object for the new machine
    result,    \* what Deploy returned
    vm,        \* the new machine in vCenter
    settings,  \* what has been set on it: "hardware", "nics", "guest"
    task,      \* the vCenter task that runs on it
    awaited,   \* how the task the facade waits for stands
    failures   \* history: the steps that failed

machine == <<vm, settings>>
calling == <<task, awaited>>
vars == <<p, step, oNewVM, result, machine, calling, failures>>

\* A step in -ing waits for the task that the step before it started.
Waiting == {"cloning", "reconfiguring", "customizing", "powering_on",
            "powering_off", "destroying"}

Steps == Waiting \cup
         {"clone", "found", "reconfigure", "write_back", "customize", "power_on",
          "wait_ip", "wait_net", "roll_back", "power_off", "destroy", "returned"}

Failures == {"clone", "clone_timeout", "lookup", "reconfigure", "customize",
             "power_on", "wait_ip", "wait_net", "roll_back", "panic"}

\* Deploy waits exactly in its waiting steps, and a task that has ended while
\* it waits is gone from vCenter; it has a result exactly when it has returned.
TypeOK ==
    /\ p \in Parameters
    /\ step \in Steps
    /\ oNewVM \in BOOLEAN
    /\ result \in {"none", "ok", "error", "panic"}
    /\ step = "returned" <=> result # "none"
    /\ vm \in {"absent", "off", "on"}
    /\ settings \in SUBSET {"hardware", "nics", "guest"}
    /\ task \in Jobs \cup {"none"}
    /\ awaited \in {"none", "running", "done", "failed"}
    /\ awaited # "none" <=> step \in Waiting
    /\ awaited = "running" => task # "none"
    /\ failures \in SUBSET Failures

Init ==
    /\ p \in Parameters
    /\ step = "clone" /\ oNewVM = FALSE /\ result = "none"
    /\ vm = "absent" /\ settings = {}
    /\ task = "none" /\ awaited = "none" /\ failures = {}

-----------------------------------------------------------------------------
(* vCenter.                                                                *)

\* What parseReconfigureNic and the others put into the one reconfiguration:
\* the interfaces, unless the template has no card.
Configured == {"hardware"} \cup (IF p.nics /\ p.cards THEN {"nics"} ELSE {})

\* A task takes effect.
Effect(job) ==
    /\ vm' = CASE job \in {"clone", "power_off"} -> "off"
               [] job = "power_on" -> "on"
               [] job = "destroy" -> "absent"
               [] OTHER -> vm
    /\ settings' = CASE job = "reconfigure" -> settings \cup Configured
                     [] job = "customize" -> settings \cup {"guest"}
                     [] job = "destroy" -> {}
                     [] OTHER -> settings

\* It ends, well or badly; the facade learns of it only if it still waits.
TaskEnds ==
    /\ task # "none"
    /\ task' = "none"
    /\ \/ /\ Effect(task)
          /\ awaited' = IF awaited = "running" THEN "done" ELSE awaited
       \/ /\ UNCHANGED machine
          /\ awaited' = IF awaited = "running" THEN "failed" ELSE awaited
    /\ UNCHANGED <<p, step, oNewVM, result, failures>>

-----------------------------------------------------------------------------
(* The ways a step of Deploy goes on.                                      *)

GoOn(s) == step' = s /\ UNCHANGED <<result, failures>>

Return(res, why) ==
    /\ step' = "returned" /\ result' = res
    /\ failures' = failures \cup {why}

Panic == Return("panic", "panic")

RollBack(why) == /\ step' = "roll_back" /\ failures' = failures \cup {why}
                 /\ UNCHANGED result

\* vCenter accepts a task and the facade waits for it.
Submit(job, waiting) ==
    /\ task = "none"
    /\ task' = job /\ awaited' = "running"
    /\ GoOn(waiting)

\* The wait ends: with the task, or, while the task goes on, with the timeout.
Awaited == /\ awaited' = "none"
           /\ UNCHANGED <<p, oNewVM, machine, task>>

Succeeded == awaited = "done"
TimedOut == awaited = "running"
Failed == awaited \in {"failed", "running"}

\* A step that starts no task.
Local == UNCHANGED <<p, oNewVM, machine, calling>>

-----------------------------------------------------------------------------
(* Deploy, in the order of its code.                                       *)

\* Clone: the template and its location are looked up, the task is started.
Clone ==
    /\ step = "clone"
    /\ \/ Submit("clone", "cloning") /\ UNCHANGED <<p, oNewVM, machine>>
       \/ Return("error", "clone") /\ Local
       \/ Panic /\ Local

\* A wait that fails for another reason than its deadline leaves no task info,
\* which is dereferenced.
Cloning ==
    /\ step = "cloning"
    /\ \/ Succeeded /\ GoOn("found")
       \/ awaited = "failed" /\ Return("error", "clone")
       \/ TimedOut /\ Return("error", "clone_timeout")
       \/ TimedOut /\ Panic
    /\ Awaited

\* Clone returns GetObject and no error; when the object is nil Deploy returns
\* that error, which is nil too.
NewVM ==
    /\ step = "found"
    /\ \/ oNewVM' = TRUE /\ GoOn("reconfigure")
       \/ Return("ok", "lookup") /\ UNCHANGED oNewVM
    /\ UNCHANGED <<p, machine, calling>>

\* Reconfigure: everything that fails before its task is started ...  A share of
\* the network that a new interface does not give is dereferenced.
Reconfigure ==
    /\ step = "reconfigure"
    /\ \/ Submit("reconfigure", "reconfiguring") /\ UNCHANGED <<p, oNewVM, machine>>
       \/ RollBack("reconfigure") /\ Local
       \/ p.nics /\ p.cards /\ Panic /\ Local

\* Mutant: the error is logged and not returned.
ReconfiguringGoesOn ==
    /\ step = "reconfiguring"
    /\ GoOn("write_back")
    /\ Awaited

\* Mutant: the error is returned without roll-back.
ReconfiguringReturns ==
    /\ step = "reconfiguring"
    /\ \/ Succeeded /\ GoOn("write_back")
       \/ Failed /\ Return("error", "reconfigure")
    /\ Awaited

\* ... and in it.
Reconfiguring ==
    /\ step = "reconfiguring"
    /\ \/ Succeeded /\ GoOn("write_back")
       \/ Failed /\ RollBack("reconfigure")
    /\ Awaited

\* The keys of the new network cards are looked up by their unit numbers, which
\* parseReconfigureNic has not set if the template has no card.
WriteBack ==
    /\ step = "write_back"
    /\ \/ /\ p.nics => p.cards
          /\ GoOn("customize")
       \/ p.nics /\ ~p.cards /\ Panic
    /\ Local

\* The guest family is read (or panics) when there are settings for the guest.
Customize ==
    /\ step = "customize"
    /\ \/ ~p.os /\ GoOn("power_on") /\ Local
       \/ p.os /\ Submit("customize", "customizing") /\ UNCHANGED <<p, oNewVM, machine>>
       \/ p.os /\ (RollBack("customize") \/ Panic) /\ Local

\* Mutant: a timeout is taken for success.
CustomizingIgnoresTimeout ==
    /\ step = "customizing"
    /\ \/ (Succeeded \/ TimedOut) /\ GoOn("power_on")
       \/ awaited = "failed" /\ RollBack("customize")
    /\ Awaited

Customizing ==
    /\ step = "customizing"
    /\ \/ Succeeded /\ GoOn("power_on")
       \/ Failed /\ RollBack("customize")
    /\ Awaited

\* Mutant: the timeout is 0, for which the helper does not wait.
PowerOnUnawaited ==
    /\ step = "power_on"
    /\ IF vm = "on"
         THEN GoOn("wait_ip") /\ Local
         ELSE \/ /\ Submit("power_on", "wait_ip")
                 /\ UNCHANGED <<p, oNewVM, machine>>
              \/ Return("error", "power_on") /\ Local
              \/ Panic /\ Local

\* PowerOn of the helper: a machine that is on already needs nothing.  Deploy
\* does not roll back when it fails.
PowerOn ==
    /\ step = "power_on"
    /\ IF vm = "on"
         THEN GoOn("wait_ip") /\ Local
         ELSE \/ /\ Submit("power_on", "powering_on")
                 /\ UNCHANGED <<p, oNewVM, machine>>
              \/ Return("error", "power_on") /\ Local
              \/ Panic /\ Local

\* Mutant: Deploy waits as long as the task takes.
PoweringOnForever ==
    /\ step = "powering_on"
    /\ \/ Succeeded /\ GoOn("wait_ip")
       \/ awaited = "failed" /\ Return("error", "power_on")
    /\ Awaited

PoweringOn ==
    /\ step = "powering_on"
    /\ \/ Succeeded /\ GoOn("wait_ip")
       \/ Failed /\ Return("error", "power_on")
    /\ Awaited

Done == step' = "returned" /\ result' = "ok" /\ UNCHANGED failures

\* The network is waited for only if the address is.
WaitIP ==
    /\ step = "wait_ip"
    /\ \/ ~p.waitForIP /\ Done
       \/ /\ p.waitForIP
          /\ \/ vm = "on" /\ IF p.waitForNet THEN GoOn("wait_net") ELSE Done
             \/ RollBack("wait_ip")
    /\ Local

WaitNet ==
    /\ step = "wait_net"
    /\ \/ vm = "on" /\ Done
       \/ RollBack("wait_net")
    /\ Local

-----------------------------------------------------------------------------
(* rollBack and Destroy; an error of theirs is only logged, and Deploy      *)
(* returns the error that led here.                                         *)

\* Destroy returns nil, as if it had succeeded, when its look-up fails.
DestroyLookUp ==
    /\ step = "roll_back"
    /\ \/ GoOn(IF vm = "off" THEN "destroy" ELSE "power_off")
       \/ Return("error", "roll_back")
       \/ Panic
    /\ Local

PowerOff ==
    /\ step = "power_off"
    /\ \/ Submit("power_off", "powering_off") /\ UNCHANGED <<p, oNewVM, machine>>
       \/ Return("error", "roll_back") /\ Local
       \/ Panic /\ Local

PoweringOff ==
    /\ step = "powering_off"
    /\ \/ Succeeded /\ GoOn("destroy")
       \/ Failed /\ Return("error", "roll_back")
    /\ Awaited

Destroy ==
    /\ step = "destroy"
    /\ \/ Submit("destroy", "destroying") /\ UNCHANGED <<p, oNewVM, machine>>
       \/ Return("error", "roll_back") /\ Local

RolledBack == step' = "returned" /\ result' = "error" /\ UNCHANGED failures

Destroying ==
    /\ step = "destroying"
    /\ \/ Succeeded /\ RolledBack
       \/ Failed /\ Return("error", "roll_back")
    /\ Awaited

-----------------------------------------------------------------------------

DeployStep ==
    \/ Clone \/ Cloning \/ NewVM \/ Reconfigure \/ Reconfiguring \/ WriteBack
    \/ Customize \/ Customizing \/ PowerOn \/ PoweringOn \/ WaitIP \/ WaitNet
    \/ DestroyLookUp \/ PowerOff \/ PoweringOff \/ Destroy \/ Destroying

Returned == step = "returned" /\ task = "none" /\ UNCHANGED vars

Next == DeployStep \/ TaskEnds \/ Returned

Spec == Init /\ [][Next]_vars

\* The goroutine runs and its waits time out; vCenter owes it nothing.
FairSpec == Spec /\ WF_vars(DeployStep)

-----------------------------------------------------------------------------
(* Properties.                                                             *)

\* When Deploy has a machine and reports success, the machine runs, its
\* hardware and its interfaces are set, and its guest is customized if the
\* request asked for it; no task that is still under way undoes this later.
SuccessMeansRunning ==
    result = "ok" /\ oNewVM =>
        /\ vm = "on"
        /\ "hardware" \in settings
        /\ p.nics => "nics" \in settings
        /\ p.os => "guest" \in settings

\* When Deploy reports an error no machine is left behind, once the tasks it
\* gave up waiting for have ended; the exceptions are a clone that outlives its
\* timeout, a machine that could not be powered on, and a roll-back that fails.
FailureLeavesNothing ==
    result = "error" /\ task = "none" /\ vm # "absent" =>
        failures \cap {"clone_timeout", "power_on", "roll_back"} # {}

\* The guest boots for the first time only with its hardware set and its
\* customization, if any, in place: vSphere applies a customization at the
\* first boot.
FirstBootIsConfigured ==
    [][vm # "on" /\ vm' = "on" =>
          /\ "hardware" \in settings
          /\ p.os => "guest" \in settings]_vars

\* Deploy returns, even if vCenter never ends a task: every wait has a timeout.
DeployReturns == <>(step = "returned")

-----------------------------------------------------------------------------
(* The inductive invariant behind the properties: what is so of the machine *)
(* and of the task on it at each step of Deploy.                            *)

\* Deploy waits for the task it has just submitted; until the task ends the
\* machine is as it was, and when it has succeeded it is as it should be.
Awaits(job, before, after) ==
    CASE awaited = "running" -> task = job /\ before
      [] awaited = "failed"  -> task = "none" /\ before
      [] awaited = "done"    -> task = "none" /\ after

HardwareSet == Configured \subseteq settings
Wired == HardwareSet /\ (p.nics => p.cards)
Ready == Wired /\ (p.os => "guest" \in settings)
Off == oNewVM /\ vm = "off"
On == oNewVM /\ vm = "on" /\ Ready

\* Before there is an object of the machine.
Creating ==
    /\ step \in {"clone", "cloning", "found"} => ~oNewVM
    /\ step = "clone" => vm = "absent" /\ task = "none"
    /\ step = "cloning" => Awaits("clone", vm = "absent", vm = "off")
    /\ step = "found" => vm = "off" /\ task = "none"

\* Until it runs.
Preparing ==
    /\ step \in {"reconfigure", "write_back", "customize", "power_on"} =>
          Off /\ task = "none"
    /\ step = "reconfiguring" => Off /\ Awaits("reconfigure", TRUE, HardwareSet)
    /\ step = "write_back" => HardwareSet
    /\ step = "customize" => Wired
    /\ step = "customizing" =>
          Off /\ Wired /\ p.os /\ Awaits("customize", TRUE, "guest" \in settings)
    /\ step = "power_on" => Ready
    /\ step = "powering_on" => oNewVM /\ Ready /\ Awaits("power_on", vm = "off", vm = "on")
    /\ step \in {"wait_ip", "wait_net"} => On /\ task = "none"

\* A task that outlived its waiter may still run when the roll-back begins, but
\* none that would start or remove the machine.
Undoing ==
    /\ step \in {"roll_back", "power_off", "destroy"} =>
          task \in {"none", "reconfigure", "customize"} /\ vm # "absent"
    /\ step = "powering_off" => Awaits("power_off", vm # "absent", vm = "off")
    /\ step = "destroying" => Awaits("destroy", vm # "absent", vm = "absent")

Outcomes ==
    /\ result = "ok" /\ oNewVM => On /\ task = "none"
    /\ result = "error" =>
          \/ failures \cap {"clone_timeout", "power_on", "roll_back"} # {}
          \/ vm = "absent" /\ task = "none"

\* A machine is only ever started ready, even by a task that nobody awaits.
StartsReady == task = "power_on" => Ready

DeployerInv == Creating /\ Preparing /\ Undoing /\ Outcomes /\ StartsReady

=============================================================================
