-------------------------- MODULE RequestLifecycle --------------------------
(***************************************************************************)
(* The life of an asynchronous request of the facade, from the HTTP        *)
(* handler to the callback:                                                *)
(*                                                                         *)
(*   - the handlers of api/v1/virtual_machine_v1.go that answer 202        *)
(*     (create, delete, power_on, power_off, shutdown, reconfigure,        *)
(*     reconfigure_nic, reconfigure_disk), each a goroutine of the server; *)
(*   - the record of the request that taskreceiver keeps in badger;        *)
(*   - the closure a handler passes to workerpool.AddTask, which runs on a *)
(*     goroutine of its own, calls the client back and removes the record; *)
(*   - startup.Run, which runs beside the server after every start and     *)
(*     calls back the requests whose records an earlier process left;      *)
(*   - a crash of the process between any two of these steps.              *)
(*                                                                         *)
(* How many closures run at once is the subject of module WorkerPool; here *)
(* every queued closure may be started at any time.                        *)
(***************************************************************************)
EXTENDS FiniteSets, Naturals, Sequences

CONSTANTS
    Requests,         \* the requests clients send, one uuid each
    Machines,         \* the virtual machines requests name
    Operation,        \* Operation[r]: the handler that request r goes to
    Targets,          \* Targets[r]: the machines request r names, in order; a list
                      \* of ids may name one twice, which nobody looks for
    HasCallback,      \* HasCallback[r]: r carries a callback address itself
    DefaultCallback,  \* vsphere.default.callback of config.yml (see below)
    Db,               \* server.db.badger: "off", "sound" or "faulty"
    ClosuresPanic,    \* whether code under a closure may panic
    MaxCrashes        \* bound: crashes from outside (the panics of the
                      \* startup goroutine are not counted)

ReceiveFirst == {"create", "delete", "power_on", "power_off", "shutdown"}
Batch == {"delete", "power_on", "power_off", "shutdown"}
Device == {"reconfigure_nic", "reconfigure_disk"}
Operations == ReceiveFirst \cup Device \cup {"reconfigure"}

\* A callback section of config.yml may be missing, may lack httpPost, or may
\* have it.
CallbackConfigs == {"absent", "nohttp", "http"}

ASSUME ConstantsAssumption ==
    /\ Operation \in [Requests -> Operations]
    /\ Targets \in [Requests -> Seq(Machines) \ {<< >>}]
    /\ \A r \in Requests : Operation[r] \notin Batch => Len(Targets[r]) = 1
    /\ HasCallback \in [Requests -> BOOLEAN]
    /\ DefaultCallback \in CallbackConfigs
    /\ Db \in {"off", "sound", "faulty"}
    /\ ClosuresPanic \in BOOLEAN
    /\ MaxCrashes \in Nat

VARIABLES
    alive,      \* the process is running
    crashes,    \* crashes so far
    db,         \* the requests that have a record in badger
    hpc,        \* hpc[r]: where the handler of r is
    reply,      \* reply[r]: the HTTP answer to r
    err,        \* err[r]: the variable err of the handler's frame
    tpc,        \* tpc[r]: where the closure of r is
    turn,       \* turn[r]: the turns its loop over Targets[r] has taken
    report,     \* report[r]: the lists success, notFound, failed it builds
    spc,        \* where the startup goroutine is
    todo,       \* the part of its snapshot it has still to visit
    notified,   \* the request it has called back and has still to cancel

    \* History, read by no action's guard.
    effect,     \* effect[r]: what vCenter did for r, to which machine
    calls,      \* the callbacks sent (delivery is not known to the sender)
    panicked,   \* the requests whose closure panicked
    unsaved,    \* the requests whose record was never written
    stuck       \* the records that badger failed to read or to delete

process   == <<alive, crashes>>
store     == <<db, unsaved, stuck>>
handler   == <<hpc, reply>>
closure   == <<tpc, turn, report, effect, panicked>>
startup   == <<spc, todo, notified>>
vars      == <<process, store, handler, err, closure, startup, calls>>

\* What is done to a machine, and what is noted of it.  The order of the notes
\* stands for the order within each of the three lists.
Outcomes == {"success", "notFound", "failed"}
Entry == [id : Machines, how : Outcomes]

Call == [req : Requests, kind : {"report", "interrupted"},
         to : {"own", "default"}, body : Seq(Entry)]

HandlerPcs == {"idle", "recorded", "found", "ready", "submitted", "stored",
               "replied", "dead"}
TaskPcs == {"none", "queued", "running", "describing", "judging", "explaining",
            "calling", "finishing", "finished", "dead"}

StoreTypeOK ==
    /\ db \in SUBSET Requests
    /\ unsaved \in SUBSET Requests
    /\ stuck \in SUBSET Requests

HandlerTypeOK ==
    /\ hpc \in [Requests -> HandlerPcs]
    /\ reply \in [Requests -> {"none", "accepted", "refused", "error"}]
    /\ err \in [Requests -> {"nil", "error"}]

ClosureTypeOK ==
    /\ tpc \in [Requests -> TaskPcs]
    /\ turn \in [Requests -> Nat]
    /\ \A r \in Requests : turn[r] <= Len(Targets[r])
    /\ report \in [Requests -> Seq(Entry)]
    /\ effect \in [Requests -> Seq(Entry)]
    /\ panicked \in SUBSET Requests

\* The startup goroutine exists while the process does, and it marks exactly
\* the request it is about to cancel.
StartupTypeOK ==
    /\ alive \in BOOLEAN
    /\ crashes \in 0..MaxCrashes
    /\ spc \in {"down", "reading", "notifying", "cancelling", "done"}
    /\ todo \in SUBSET Requests
    /\ notified \in SUBSET Requests
    /\ notified # {} <=> spc = "cancelling"
    /\ alive <=> spc # "down"

TypeOK ==
    /\ StoreTypeOK
    /\ HandlerTypeOK
    /\ ClosureTypeOK
    /\ StartupTypeOK
    /\ calls \in SUBSET Call

Init ==
    /\ alive = TRUE /\ crashes = 0
    /\ db = {} /\ unsaved = {} /\ stuck = {}
    /\ hpc = [r \in Requests |-> "idle"]
    /\ reply = [r \in Requests |-> "none"]
    /\ err = [r \in Requests |-> "nil"]
    /\ tpc = [r \in Requests |-> "none"]
    /\ turn = [r \in Requests |-> 0]
    /\ report = [r \in Requests |-> << >>]
    /\ effect = [r \in Requests |-> << >>]
    /\ panicked = {}
    /\ spc = "reading" /\ todo = {} /\ notified = {}
    /\ calls = {}

-----------------------------------------------------------------------------
(* taskreceiver and badger.  Set and Del log an error and go on.           *)

DbOutcomes == CASE Db = "off"    -> {FALSE}
                [] Db = "sound"  -> {TRUE}
                [] Db = "faulty" -> {TRUE, FALSE}

\* taskreceiver.Receive
Receive(r) ==
    /\ \E ok \in DbOutcomes :
         /\ db' = IF ok THEN db \cup {r} ELSE db
         /\ unsaved' = IF ok THEN unsaved ELSE unsaved \cup {r}
    /\ UNCHANGED stuck

\* taskreceiver.Done and taskreceiver.Cancel
Delete(r) ==
    /\ \E ok \in DbOutcomes :
         /\ db' = IF ok THEN db \ {r} ELSE db
         /\ stuck' = IF ok \/ r \notin db THEN stuck ELSE stuck \cup {r}
    /\ UNCHANGED unsaved

-----------------------------------------------------------------------------
(* The handlers.                                                           *)

Answer(r, a) == /\ hpc' = [hpc EXCEPT ![r] = "replied"]
                /\ reply' = [reply EXCEPT ![r] = a]

Proceed(r, from, to) == /\ hpc[r] = from
                        /\ hpc' = [hpc EXCEPT ![r] = to]
                        /\ UNCHANGED reply

\* Binding or validation fails: 400.
Refuse(r) ==
    /\ alive /\ hpc[r] = "idle"
    /\ Answer(r, "refused")
    /\ UNCHANGED <<process, store, err, closure, startup, calls>>

\* create, delete, power_on, power_off, shutdown: the record is written
\* before vsphere.Get is called.
ReceiveRequest(r) ==
    /\ alive /\ Operation[r] \in ReceiveFirst
    /\ Proceed(r, "idle", "recorded")
    /\ Receive(r)
    /\ UNCHANGED <<process, err, closure, startup, calls>>

\* vsphere.Get connects to vCenter; it panics when it cannot, and ErrHandler
\* answers 500.  Nothing removes the record.
Connect(r) ==
    /\ alive
    /\ \/ Proceed(r, "recorded", "ready")
       \/ hpc[r] = "recorded" /\ Answer(r, "error")
    /\ UNCHANGED <<process, store, err, closure, startup, calls>>

\* reconfigure, reconfigure_nic, reconfigure_disk: vCenter is asked for the
\* machine first (panic: 500, no such machine: 400).
LookUp(r) ==
    /\ alive /\ Operation[r] \notin ReceiveFirst
    /\ \/ Proceed(r, "idle", "found")
       \/ hpc[r] = "idle" /\ (Answer(r, "refused") \/ Answer(r, "error"))
    /\ UNCHANGED <<process, store, err, closure, startup, calls>>

ReceiveFound(r) ==
    /\ alive
    /\ Proceed(r, "found", "ready")
    /\ Receive(r)
    /\ UNCHANGED <<process, err, closure, startup, calls>>

\* workerpool.AddTask: Submit hands the closure to another goroutine and
\* returns nil (the pool is never closed) ...
AddTask(r) ==
    /\ alive
    /\ Proceed(r, "ready", "submitted")
    /\ tpc' = [tpc EXCEPT ![r] = "queued"]
    /\ UNCHANGED <<process, store, err, turn, report, effect, panicked,
                   startup, calls>>

\* ... which the handler stores in err ...
StoreErr(r) ==
    /\ alive
    /\ Proceed(r, "submitted", "stored")
    /\ err' = [err EXCEPT ![r] = "nil"]
    /\ UNCHANGED <<process, store, closure, startup, calls>>

\* ... and tests.  Only the closure of reconfigure also writes this variable;
\* a read of it while the other goroutine may write is a data race, and sees
\* either the reader's own last write or the other's.
RacyErr(r, own) == {own, err[r]}

Reply(r) ==
    /\ alive /\ hpc[r] = "stored"
    /\ \E e \in RacyErr(r, "nil") :
         \/ /\ e = "nil"
            /\ Answer(r, "accepted")
            /\ UNCHANGED store
         \/ /\ e = "error"
            /\ Delete(r)
            /\ Answer(r, "error")
    /\ UNCHANGED <<process, err, closure, startup, calls>>

-----------------------------------------------------------------------------
(* The closures.  A panic is recovered by the worker of the pool, after    *)
(* the deferred taskreceiver.Done.                                         *)

Panic(r) ==
    /\ tpc' = [tpc EXCEPT ![r] = "finishing"]
    /\ panicked' = panicked \cup {r}
    /\ UNCHANGED <<turn, report, effect>>

GoTo(r, pc) == tpc' = [tpc EXCEPT ![r] = pc]

\* The machine whose turn it is.
Current(r) == Targets[r][turn[r] + 1]

\* Mutant: the loop does not move on.
TurnAgain(r, v) ==
    /\ effect' = [effect EXCEPT ![r] = Append(@, [id |-> Current(r), how |-> v])]
    /\ UNCHANGED turn

\* What is done to the machine whose turn it is (of a deployment: what Deploy
\* returned, see module Deployer) ...
Turn(r, v) ==
    /\ effect' = [effect EXCEPT ![r] = Append(@, [id |-> Current(r), how |-> v])]
    /\ turn' = [turn EXCEPT ![r] = @ + 1]

\* ... and what the closure notes about it.
Note(r, m, v) == report' = [report EXCEPT ![r] = Append(@, [id |-> m, how |-> v])]

Visited(r, v) ==
    /\ turn[r] < Len(Targets[r])
    /\ Turn(r, v) /\ Note(r, Current(r), v)

\* Mutant: Done is called and not deferred.
StartTaskUndeferred(r) ==
    /\ alive /\ tpc[r] = "queued"
    /\ Delete(r)
    /\ GoTo(r, "running")
    /\ UNCHANGED <<turn, report, effect, panicked>>
    /\ UNCHANGED <<process, handler, err, startup, calls>>

StartTask(r) ==
    /\ alive /\ tpc[r] = "queued"
    /\ GoTo(r, "running")
    /\ UNCHANGED <<turn, report, effect, panicked>>
    /\ UNCHANGED <<process, store, handler, err, startup, calls>>

\* Deploy; its error is local to the closure.
CreateTask(r) ==
    /\ alive /\ tpc[r] = "running" /\ Operation[r] = "create"
    /\ \/ /\ \/ Visited(r, "success") /\ GoTo(r, "describing")
             \/ Visited(r, "failed") /\ GoTo(r, "calling")
          /\ UNCHANGED panicked
       \/ ClosuresPanic /\ Panic(r)
    /\ UNCHANGED <<process, store, handler, err, startup, calls>>

\* The new machine is read back for the callback.
DescribeTask(r) ==
    /\ alive /\ tpc[r] = "describing"
    /\ \/ GoTo(r, "calling") /\ UNCHANGED <<turn, report, effect, panicked>>
       \/ ClosuresPanic /\ Panic(r)
    /\ UNCHANGED <<process, store, handler, err, startup, calls>>

LastTurn(r) == turn[r] + 1 = Len(Targets[r])

\* Mutant: the first failure ends the loop.
BatchTaskBreaks(r) ==
    /\ alive /\ tpc[r] = "running" /\ Operation[r] \in Batch
    /\ \E v \in Outcomes :
         /\ Visited(r, v)
         /\ GoTo(r, IF LastTurn(r) \/ v = "failed" THEN "calling" ELSE "running")
    /\ UNCHANGED panicked
    /\ UNCHANGED <<process, store, handler, err, startup, calls>>

\* Mutant: the loop assigns the handler's err.
BatchTaskSharesErr(r) ==
    /\ alive /\ tpc[r] = "running" /\ Operation[r] \in Batch
    /\ \E v \in Outcomes :
         /\ Visited(r, v)
         /\ err' = [err EXCEPT ![r] = IF v = "failed" THEN "error" ELSE "nil"]
         /\ GoTo(r, IF LastTurn(r) THEN "calling" ELSE "running")
    /\ UNCHANGED panicked
    /\ UNCHANGED <<process, store, handler, startup, calls>>

\* One turn of the loop over the ids of the request.
BatchTask(r) ==
    /\ alive /\ tpc[r] = "running" /\ Operation[r] \in Batch
    /\ \/ \E v \in Outcomes :
            /\ Visited(r, v)
            /\ GoTo(r, IF LastTurn(r) THEN "calling" ELSE "running")
            /\ UNCHANGED panicked
       \/ ClosuresPanic /\ Panic(r)
    /\ UNCHANGED <<process, store, handler, err, startup, calls>>

\* reconfigure_nic and reconfigure_disk; the error is local to the closure.
DeviceTask(r) ==
    /\ alive /\ tpc[r] = "running" /\ Operation[r] \in Device
    /\ \/ \E v \in {"success", "failed"} :
            /\ Visited(r, v)
            /\ GoTo(r, "calling")
            /\ UNCHANGED panicked
       \/ ClosuresPanic /\ Panic(r)
    /\ UNCHANGED <<process, store, handler, err, startup, calls>>

\* reconfigure stores its result in the handler's err, tests it, logs it and
\* takes its text: three steps, beside the handler's StoreErr and Reply.
ReconfigureTask(r) ==
    /\ alive /\ tpc[r] = "running" /\ Operation[r] = "reconfigure"
    /\ \/ \E v \in {"success", "failed"} :
            /\ turn[r] < Len(Targets[r]) /\ Turn(r, v) /\ UNCHANGED report
            /\ err' = [err EXCEPT ![r] = IF v = "failed" THEN "error" ELSE "nil"]
            /\ GoTo(r, "judging")
            /\ UNCHANGED panicked
       \/ ClosuresPanic /\ Panic(r) /\ UNCHANGED err
    /\ UNCHANGED <<process, store, handler, startup, calls>>

ReconfigureErr(r) ==
    RacyErr(r, IF effect[r][1].how = "failed" THEN "error" ELSE "nil")

\* Mutant: success returns without the callback.
JudgeTaskReturns(r) ==
    /\ alive /\ tpc[r] = "judging"
    /\ \E e \in ReconfigureErr(r) :
         GoTo(r, IF e = "nil" THEN "finishing" ELSE "explaining")
    /\ UNCHANGED <<turn, report, effect, panicked>>
    /\ UNCHANGED <<process, store, handler, err, startup, calls>>

JudgeTask(r) ==
    /\ alive /\ tpc[r] = "judging"
    /\ \E e \in ReconfigureErr(r) :
         \/ /\ e = "nil"
            /\ Note(r, Targets[r][1], "success")
            /\ GoTo(r, "calling")
         \/ /\ e = "error"
            /\ GoTo(r, "explaining")
            /\ UNCHANGED report
    /\ UNCHANGED <<turn, effect, panicked>>
    /\ UNCHANGED <<process, store, handler, err, startup, calls>>

\* err.Error() panics on an err that has become nil.
ExplainTask(r) ==
    /\ alive /\ tpc[r] = "explaining"
    /\ \E e \in ReconfigureErr(r) :
         \/ /\ e = "error"
            /\ Note(r, Targets[r][1], "failed")
            /\ GoTo(r, "calling")
            /\ UNCHANGED <<turn, effect, panicked>>
         \/ e = "nil" /\ Panic(r)
    /\ UNCHANGED <<process, store, handler, err, startup, calls>>

\* sendByHttp dereferences the default callback section whoever is called,
\* and asserts that one of the two addresses exists.
SendPanics(own) == \/ DefaultCallback = "absent"
                   \/ DefaultCallback = "nohttp" /\ ~own

Send(r, kind, own, body) ==
    calls' = calls \cup {[req |-> r, kind |-> kind,
                          to |-> IF own THEN "own" ELSE "default",
                          body |-> body]}

\* Mutant: the callback is sent by a goroutine of its own.
CallBackDetached(r) ==
    /\ alive
    /\ \/ tpc[r] = "calling" /\ GoTo(r, "finishing") /\ UNCHANGED calls
       \/ /\ tpc[r] \in {"finishing", "finished"} /\ r \notin panicked
          /\ Send(r, "report", HasCallback[r], report[r])
          /\ UNCHANGED tpc
    /\ UNCHANGED <<turn, report, effect, panicked>>
    /\ UNCHANGED <<process, store, handler, err, startup>>

\* The callback of a closure; whether it was delivered is ignored.
CallBack(r) ==
    /\ alive /\ tpc[r] = "calling"
    /\ \/ /\ ~SendPanics(HasCallback[r])
          /\ Send(r, "report", HasCallback[r], report[r])
          /\ GoTo(r, "finishing")
          /\ UNCHANGED <<turn, report, effect, panicked>>
       \/ /\ SendPanics(HasCallback[r])
          /\ Panic(r)
          /\ UNCHANGED calls
    /\ UNCHANGED <<process, store, handler, err, startup>>

\* The deferred taskreceiver.Done.
Finish(r) ==
    /\ alive /\ tpc[r] = "finishing"
    /\ Delete(r)
    /\ GoTo(r, "finished")
    /\ UNCHANGED <<turn, report, effect, panicked>>
    /\ UNCHANGED <<process, handler, err, startup, calls>>

-----------------------------------------------------------------------------
(* Crash, restart and the startup goroutine.                               *)

Die ==
    /\ alive' = FALSE
    /\ hpc' = [r \in Requests |-> IF hpc[r] \in {"idle", "replied"}
                                    THEN hpc[r] ELSE "dead"]
    /\ tpc' = [r \in Requests |-> IF tpc[r] \in {"none", "finished"}
                                    THEN tpc[r] ELSE "dead"]
    /\ spc' = "down" /\ todo' = {} /\ notified' = {}
    /\ UNCHANGED <<store, reply, err, turn, report, effect, panicked, calls>>

Crash ==
    /\ alive /\ crashes < MaxCrashes
    /\ crashes' = crashes + 1
    /\ Die

\* main: the server and startup.Run start together.
Restart ==
    /\ ~alive
    /\ alive' = TRUE
    /\ spc' = "reading"
    /\ UNCHANGED <<crashes, store, handler, err, closure, todo, notified, calls>>

\* taskreceiver.GetReceivedReq: a snapshot of the records.  GetAll leaves out
\* an entry whose value cannot be read.
StartupRead ==
    /\ alive /\ spc = "reading"
    /\ \E seen \in IF Db = "faulty" THEN SUBSET db ELSE {db} :
         /\ todo' = seen
         /\ stuck' = stuck \cup (db \ seen)
    /\ spc' = "notifying"
    /\ UNCHANGED <<process, db, unsaved, handler, err, closure, notified, calls>>

\* The callback address is looked up under the key "callback" of the record;
\* the three reconfigure requests are recorded with the key "callBack".
RecordedCallback(r) == HasCallback[r] /\ Operation[r] \in ReceiveFirst

\* A panic here is recovered by nobody: it ends the process.
StartupNotify(r) ==
    /\ alive /\ spc = "notifying" /\ r \in todo
    /\ \/ /\ ~SendPanics(RecordedCallback(r))
          /\ Send(r, "interrupted", RecordedCallback(r), << >>)
          /\ spc' = "cancelling"
          /\ todo' = todo \ {r}
          /\ notified' = {r}
          /\ UNCHANGED <<process, store, handler, err, closure>>
       \/ /\ SendPanics(RecordedCallback(r))
          /\ Die
          /\ UNCHANGED crashes

\* Mutant: the record is not cancelled.
StartupKeeps(r) ==
    /\ alive /\ spc = "cancelling" /\ r \in notified
    /\ spc' = "notifying" /\ notified' = {}
    /\ UNCHANGED <<process, store, handler, err, closure, todo, calls>>

\* Mutant: the loop leaves its request marked.
StartupForgetsReset(r) ==
    /\ alive /\ spc = "cancelling" /\ r \in notified
    /\ Delete(r)
    /\ spc' = "notifying"
    /\ UNCHANGED <<process, handler, err, closure, todo, notified, calls>>

\* Mutant: the loop returns after one request.
StartupReturns(r) ==
    /\ alive /\ spc = "cancelling" /\ r \in notified
    /\ Delete(r)
    /\ spc' = "done" /\ notified' = {} /\ todo' = {}
    /\ UNCHANGED <<process, handler, err, closure, calls>>

StartupCancel(r) ==
    /\ alive /\ spc = "cancelling" /\ r \in notified
    /\ Delete(r)
    /\ spc' = "notifying"
    /\ notified' = {}
    /\ UNCHANGED <<process, handler, err, closure, todo, calls>>

StartupDone ==
    /\ alive /\ spc = "notifying" /\ todo = {}
    /\ spc' = "done"
    /\ UNCHANGED <<process, store, handler, err, closure, todo, notified, calls>>

-----------------------------------------------------------------------------

\* What a handler does once it has begun, and what a closure does.
HandlerStep(r) == \/ Connect(r) \/ ReceiveFound(r) \/ AddTask(r)
                  \/ StoreErr(r) \/ Reply(r)

TaskStep(r) == \/ StartTask(r) \/ CreateTask(r) \/ DescribeTask(r)
               \/ BatchTask(r) \/ DeviceTask(r) \/ ReconfigureTask(r)
               \/ JudgeTask(r) \/ ExplainTask(r) \/ CallBack(r) \/ Finish(r)

ClientStep(r) == Refuse(r) \/ ReceiveRequest(r) \/ LookUp(r)

StartupStep == \/ StartupRead \/ StartupDone
               \/ \E r \in Requests : StartupNotify(r) \/ StartupCancel(r)

\* Every request has been dealt with and the process may idle.
Quiet ==
    /\ alive /\ spc = "done" /\ crashes = MaxCrashes
    /\ \A r \in Requests : /\ hpc[r] \in {"replied", "dead"}
                           /\ tpc[r] \in {"none", "finished", "dead"}
    /\ UNCHANGED vars

Next == \/ \E r \in Requests : ClientStep(r) \/ HandlerStep(r) \/ TaskStep(r)
        \/ StartupStep \/ Crash \/ Restart \/ Quiet

Spec == Init /\ [][Next]_vars

\* Goroutines that can run do run, a call to vCenter returns, and whoever
\* supervises the process starts it again.  Clients need not send anything
\* and nothing has to crash.
Fairness == /\ \A r \in Requests : /\ WF_vars(HandlerStep(r))
                                   /\ WF_vars(TaskStep(r))
            /\ WF_vars(StartupStep)
            /\ WF_vars(Restart)

FairSpec == Spec /\ Fairness

-----------------------------------------------------------------------------
(* Properties.                                                             *)

Called(r) == \E c \in calls : c.req = r

HandlerBusy(r) == hpc[r] \in {"recorded", "found", "ready", "submitted", "stored"}
TaskBusy(r) == tpc[r] \in {"queued", "running", "describing", "judging",
                           "explaining", "calling", "finishing"}

\* The closures that keep their error to themselves.
OwnErr(r) == Operation[r] # "reconfigure"

\* No accepted request is lost silently: as long as its client has not been
\* called back, its record is in badger, where the next startup finds it.  The
\* exceptions are a closure that panicked (the deferred Done removes the
\* record although no callback was sent) and a record that Set never wrote.
AcceptedIsRecoverable ==
    \A r \in Requests :
        reply[r] = "accepted" /\ ~Called(r) =>
            r \in db \/ r \in panicked \/ r \in unsaved

\* A report lists every machine of the request, as often as the request does,
\* each under what vCenter really did to it then, for every closure that does
\* not share its err with the handler.
Ids(entries) == [i \in DOMAIN entries |-> entries[i].id]

ReportIsTruthful ==
    \A c \in calls :
        c.kind = "report" /\ OwnErr(c.req) =>
            /\ c.body = effect[c.req]
            /\ Ids(c.body) = Targets[c.req]

\* A request answered with an error starts nothing in vCenter (reconfigure
\* excepted, see ErrorReplyRunsNothing).
RefusedRunsNothing ==
    \A r \in Requests :
        reply[r] \in {"refused", "error"} /\ OwnErr(r) =>
            tpc[r] = "none" /\ effect[r] = << >>

\* Once startup.Run is through, every record belongs to a handler or to a
\* closure at work in this process.  The exceptions are a handler that was
\* ended by a panic of vsphere.Get after Receive, and a failure of badger.
RecordsAreOwned ==
    alive /\ spc = "done" =>
        \A r \in db : \/ HandlerBusy(r) \/ TaskBusy(r)
                      \/ reply[r] = "error" \/ r \in stuck

\* A closure gives each entry of its list one turn, in their order, and never
\* another, whatever crashes and restarts lie between: recovery calls back and
\* does not execute again.  No machine is operated on more often than the
\* request names it.
OneTurnEach ==
    [][\A r \in Requests :
          effect'[r] # effect[r] =>
              /\ Len(effect[r]) < Len(Targets[r])
              /\ \E v \in Outcomes :
                    effect'[r] = Append(effect[r],
                                        [id |-> Targets[r][Len(effect[r]) + 1], how |-> v])]_vars

\* Every accepted request is called back in the end, through crashes and
\* restarts, unless its closure panicked or badger failed it.
AcceptedIsAnswered ==
    \A r \in Requests :
        reply[r] = "accepted" ~> \/ Called(r) \/ r \in panicked
                                 \/ r \in unsaved \/ r \in stuck

(* The promise of module CallbackContract.                                 *)

\* A request is a duty of badger, of the startup goroutine that has read its
\* record, and of its closure.
Duty == db \cup todo \cup {r \in Requests : TaskBusy(r)}
Told == [r \in Requests |-> {c.kind : c \in {d \in calls : d.req = r}}]

Contract == INSTANCE CallbackContract
    WITH duty <- Duty, answer <- reply, told <- Told, lost <- unsaved \cup panicked,
         Shared <- {r \in Requests : ~OwnErr(r)}

\* Handlers, closures, startup, crashes and failures of badger together keep
\* the promise: no accepted request stops being a duty before its client was
\* called back, nothing is called back after it stopped being one, and no
\* request is both refused and reported on.
ContractKept == Contract!Spec

(* The inductive invariants behind AcceptedIsRecoverable, RefusedRunsNothing *)
(* and OneTurnEach.                                                          *)

Covered(r) == r \in db \/ r \in unsaved \/ r \in panicked \/ Called(r)

\* A request stays covered from its record on, because the three places that
\* delete a record do so after the callback or the panic, or (Reply) on the way
\* to an answer that is not "accepted".
RecordInv ==
    \A r \in Requests :
        /\ hpc[r] \in {"recorded", "ready", "submitted", "stored"} => Covered(r)
        /\ reply[r] = "accepted" => Covered(r)
        /\ tpc[r] = "finishing" => r \in panicked \/ Called(r)
        /\ r \in notified => Called(r)

\* A closure exists only once its handler has submitted it, it has taken its
\* turns in the order of the list, and nobody else writes the handler's err.
ProgressOf(r) ==
    /\ OwnErr(r) => err[r] = "nil"
    /\ hpc[r] \in {"idle", "recorded", "found", "ready"} => tpc[r] = "none"
    /\ tpc[r] \in {"none", "queued"} => effect[r] = << >>
    /\ Len(effect[r]) = turn[r]
    /\ \A i \in 1..turn[r] : effect[r][i].id = Targets[r][i]
    /\ reply[r] # "none" => hpc[r] = "replied"
    /\ reply[r] \in {"refused", "error"} /\ OwnErr(r) => tpc[r] = "none"

ProgressInv == \A r \in Requests : ProgressOf(r)

\* A report is the work of a closure.
ReportInv == \A c \in calls : c.kind = "report" => tpc[c.req] # "none"

(* The inductive invariants behind ReportIsTruthful and RecordsAreOwned.   *)

\* A closure with an err of its own notes what it does as it does it, turn by
\* turn, and what it has noted is complete when it calls back.
TruthOf(r) ==
    /\ report[r] = effect[r]
    /\ tpc[r] \notin {"judging", "explaining"}
    /\ tpc[r] \in {"describing", "calling"} => turn[r] = Len(Targets[r])

\* A report is sent at the end of the closure, after which nothing is visited.
TruthInv ==
    /\ \A r \in Requests : OwnErr(r) => TruthOf(r)
    /\ \A c \in calls :
          c.kind = "report" /\ OwnErr(c.req) =>
              /\ tpc[c.req] \in {"finishing", "finished", "dead"}
              /\ c.body = effect[c.req]
              /\ turn[c.req] = Len(Targets[c.req])

\* A record has an owner, or the startup goroutine has still to come to it.  It
\* loses its handler only to its closure or to an error, its closure only with
\* the record (or a failure of badger), and both to a restart.
Owned(r) == \/ HandlerBusy(r) \/ TaskBusy(r)
            \/ reply[r] = "error" \/ r \in stuck
OwnedOf(r) ==
    /\ hpc[r] = "idle" => r \notin db
    /\ hpc[r] \in {"submitted", "stored"} => TaskBusy(r) \/ tpc[r] = "finished"
    /\ tpc[r] = "finished" /\ r \in db => r \in stuck
    /\ alive /\ r \in db => Owned(r) \/ spc = "reading" \/ r \in todo \cup notified

\* The startup goroutine marks one request at a time, and visits all it has read.
OneByOne == /\ \A q, r \in notified : q = r
            /\ spc = "done" => todo = {}

OwnedInv == OneByOne /\ \A r \in Requests : OwnedOf(r)

(* What the repository says of this code, and what it does not do.         *)

\* startup.go:17, "query interrupted tasks": only a request that an earlier
\* process left behind is called back as interrupted.
InterruptedIsInterrupted ==
    \A c \in calls :
        c.kind = "interrupted" => hpc[c.req] = "dead" \/ tpc[c.req] = "dead"

\* virtual_machine_v1.go:309, "task creation failed": a request is cancelled
\* and answered with an error only when no task was created for it.
ErrorReplyRunsNothing ==
    \A r \in Requests : reply[r] = "error" => tpc[r] = "none"

=============================================================================
