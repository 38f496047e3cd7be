--------------------------- MODULE OperatorProofs ---------------------------
(***************************************************************************)
(* Proofs about Operator, for any closures, operations, requests and       *)
(* hot-plug settings.                                                      *)
(***************************************************************************)
EXTENDS Operator, TLAPS

LEMMA InitTypes == OperatorAssumption /\ Init => TypeOK
<1> SUFFICES ASSUME OperatorAssumption, Init PROVE TypeOK
  OBVIOUS
<1>1. Nothing \in Amounts
  BY DEF Nothing, Amounts
<1>2. MachineTypeOK
  BY DEF OperatorAssumption, Init, MachineTypeOK
<1>3. NoPlan \in Plans
  BY <1>1 DEF NoPlan, Plans
<1>4. ClosureTypeOK
  BY <1>3 DEF Init, ClosureTypeOK, Pcs
<1>5. HistoryTypeOK
  BY DEF Init, HistoryTypeOK
<1>6. WaitsOK
  BY DEF Init, WaitsOK, Waiting
<1> QED
  BY <1>2, <1>4, <1>5, <1>6 DEF Init, TypeOK

\* A change sets amounts.
LEMMA ChangedType ==
    ASSUME NEW h \in Amounts, NEW change \in Amounts
    PROVE  Changed(h, change) \in Amounts
BY DEF Changed, Amounts

LEMMA BecomesTypes ==
    ASSUME TypeOK, NEW state \in {"absent", "off", "on"}, Becomes(state)
    PROVE  /\ vm' \in {"absent", "off", "on"}
           /\ stopping' \in BOOLEAN /\ (stopping' => vm' = "on")
           /\ seen' \in [Closures -> SUBSET {"absent", "off", "on"}]
BY DEF Becomes, TypeOK, MachineTypeOK, HistoryTypeOK

LEMMA TaskEndsTypes ==
    ASSUME TypeOK, NEW c \in Closures, TaskEnds(c) PROVE TypeOK'
<1> USE DEF TypeOK
<1>1. ASSUME Effect(task.job, c) PROVE hw' \in Amounts /\ vm' \in {"absent", "off", "on"}
                /\ stopping' \in BOOLEAN /\ (stopping' => vm' = "on")
                /\ seen' \in [Closures -> SUBSET {"absent", "off", "on"}]
                /\ met' \in [Closures -> SUBSET Fields]
  <2>1. task.job \in Jobs /\ plan[c].param \in Amounts
    BY DEF TaskEnds, MachineTypeOK, ClosureTypeOK, Plans
  <2>2. hw' \in Amounts
    BY <1>1, <2>1, ChangedType DEF Effect, Rebuilt, MachineTypeOK
  <2>3. met' \in [Closures -> SUBSET Fields]
    BY <1>1 DEF Effect, Rebuilt, MetBy, HistoryTypeOK
  <2>4. CASE task.job = "configure"
    BY <1>1, <2>2, <2>3, <2>4 DEF Effect, MachineTypeOK, HistoryTypeOK
  <2>5. CASE task.job # "configure"
    BY <1>1, <2>1, <2>2, <2>3, <2>5, BecomesTypes DEF Effect, Jobs
  <2> QED
    BY <2>4, <2>5
<1>2. MachineTypeOK' /\ HistoryTypeOK' /\ (stopping => vm = "on")'
  BY <1>1 DEF TaskEnds, MachineTypeOK, HistoryTypeOK
<1>3. ClosureTypeOK'
  BY DEF TaskEnds, ClosureTypeOK, request
<1>4. WaitsOK'
  BY DEF TaskEnds, WaitsOK, ClosureTypeOK, request
<1> QED
  BY <1>2, <1>3, <1>4

LEMMA GuestStopsTypes == TypeOK /\ GuestStops => TypeOK'
<1> SUFFICES ASSUME TypeOK, GuestStops PROVE TypeOK'
  OBVIOUS
<1>1. MachineTypeOK' /\ HistoryTypeOK' /\ ~stopping'
  BY DEF TypeOK, GuestStops, Becomes, MachineTypeOK, HistoryTypeOK
<1>2. ClosureTypeOK' /\ WaitsOK'
  BY DEF TypeOK, GuestStops, ClosureTypeOK, WaitsOK, request
<1> QED
  BY <1>1, <1>2 DEF TypeOK

-----------------------------------------------------------------------------
(* The ways a closure goes on.                                             *)

\* c goes on without starting a task: to a helper that fits its operation, or to
\* its end.
Goes(c) ==
    \E s \in Pcs \ (Waiting \cup {"idle"}), r \in {"none", "ok", "error", "panic"} :
        /\ pc' = [pc EXCEPT ![c] = s]
        /\ result' = [result EXCEPT ![c] = r]
        /\ r = "none" <=> s # "returned"
        /\ Fits(s, op[c])

\* It does not wait any longer.
Unwaits(c) == \/ awaited' = awaited /\ pc[c] \notin Waiting
              \/ awaited' = [awaited EXCEPT ![c] = "none"]

LEMMA GoToGoes ==
    ASSUME TypeOK, NEW c \in Closures, pc[c] # "returned",
           NEW s \in Pcs \ (Waiting \cup {"idle", "returned"}), Fits(s, op[c]),
           GoTo(c, s)
    PROVE  Goes(c)
<1>1. result[c] = "none" /\ result \in [Closures -> {"none", "ok", "error", "panic"}]
  BY DEF TypeOK, WaitsOK, ClosureTypeOK
<1>2. result' = [result EXCEPT ![c] = "none"]
  BY <1>1 DEF GoTo
<1> QED
  BY <1>2 DEF GoTo, Goes

LEMMA ReturnGoes ==
    ASSUME NEW c \in Closures, NEW r \in {"ok", "error", "panic"}, Return(c, r)
    PROVE  Goes(c)
<1>1. Fits("returned", op[c])
  BY DEF Fits
<1> QED
  BY <1>1 DEF Return, Goes, Pcs, Waiting

LEMMA EndsGoes ==
    ASSUME NEW c \in Closures, NEW ok \in BOOLEAN, Ends(c, ok) PROVE Goes(c)
BY ReturnGoes DEF Ends

LEMMA GoesTypes ==
    ASSUME TypeOK, StageOK, NEW c \in Closures, Goes(c), Unwaits(c),
           UNCHANGED <<request, task>>, plan' \in [Closures -> Plans]
    PROVE  ClosureTypeOK' /\ WaitsOK' /\ StageOK'
<1>1. PICK s \in Pcs \ (Waiting \cup {"idle"}), r \in {"none", "ok", "error", "panic"} :
           /\ pc' = [pc EXCEPT ![c] = s]
           /\ result' = [result EXCEPT ![c] = r]
           /\ r = "none" <=> s # "returned"
           /\ Fits(s, op[c])
  BY DEF Goes
<1>2. ClosureTypeOK'
  BY <1>1 DEF TypeOK, ClosureTypeOK, Unwaits, request
<1>3. WaitsOK'
  BY <1>1 DEF TypeOK, ClosureTypeOK, WaitsOK, Unwaits
<1>4. StageOK'
  BY <1>1 DEF TypeOK, ClosureTypeOK, StageOK, request
<1> QED
  BY <1>2, <1>3, <1>4

FailedType == failed' \in [Closures -> SUBSET {"shutdown", "power_off", "lookup"}]

LEMMA FailsType ==
    ASSUME TypeOK, NEW c \in Closures, NEW w \in {"shutdown", "power_off", "lookup"},
           Fails(c, w) \/ UNCHANGED failed
    PROVE  FailedType
BY DEF FailedType, Fails, TypeOK, HistoryTypeOK

LEMMA AfterShutdownGoes ==
    ASSUME TypeOK, StageOK, NEW c \in Closures, NEW ok \in BOOLEAN,
           pc[c] \in {"shutdown", "halt", "halting"}, AfterShutdown(c, ok)
    PROVE  Goes(c) /\ FailedType
<1>1. op[c] \in {"power_off", "shutdown", "restart", "reconfigure"}
  BY DEF StageOK, Fits
<1>2. FailedType
  BY FailsType DEF AfterShutdown
<1>3. CASE op[c] = "shutdown"
  BY <1>2, <1>3, EndsGoes DEF AfterShutdown
<1>4. CASE op[c] = "power_off"
  <2>1. Ends(c, TRUE) \/ GoTo(c, "power_off")
    BY <1>4 DEF AfterShutdown
  <2> QED
    BY <2>1, <1>2, <1>4, EndsGoes, GoToGoes DEF Fits, Pcs, Waiting
<1>5. CASE op[c] = "restart"
  <2>1. GoTo(c, "power_on") \/ GoTo(c, "power_off")
    BY <1>5 DEF AfterShutdown
  <2> QED
    BY <2>1, <1>2, <1>5, GoToGoes DEF Fits, Pcs, Waiting
<1>6. CASE op[c] = "reconfigure"
  <2>1. GoTo(c, "configure") \/ GoTo(c, "power_off")
    BY <1>6 DEF AfterShutdown
  <2> QED
    BY <2>1, <1>2, <1>6, GoToGoes DEF Fits, Pcs, Waiting
<1> QED
  BY <1>1, <1>3, <1>4, <1>5, <1>6

LEMMA AfterPowerOffGoes ==
    ASSUME TypeOK, StageOK, NEW c \in Closures, NEW ok \in BOOLEAN,
           pc[c] \in {"power_off", "cut", "powering_off"}, AfterPowerOff(c, ok)
    PROVE  Goes(c) /\ FailedType
<1>1. op[c] \in {"power_off", "restart", "reconfigure", "destroy"}
  BY DEF StageOK, Fits
<1>2. FailedType
  BY FailsType DEF AfterPowerOff
<1>3. CASE op[c] = "power_off"
  BY <1>2, <1>3, EndsGoes DEF AfterPowerOff
<1>4. CASE op[c] = "restart"
  <2>1. GoTo(c, "power_on")
    BY <1>4 DEF AfterPowerOff
  <2> QED
    BY <2>1, <1>2, <1>4, GoToGoes DEF Fits, Pcs, Waiting
<1>5. CASE op[c] = "reconfigure"
  <2>1. GoTo(c, "configure") \/ Ends(c, FALSE)
    BY <1>5 DEF AfterPowerOff
  <2> QED
    BY <2>1, <1>2, <1>5, EndsGoes, GoToGoes DEF Fits, Pcs, Waiting
<1>6. CASE op[c] = "destroy"
  <2>1. GoTo(c, "raze") \/ Ends(c, FALSE)
    BY <1>6 DEF AfterPowerOff
  <2> QED
    BY <2>1, <1>2, <1>6, EndsGoes, GoToGoes DEF Fits, Pcs, Waiting
<1> QED
  BY <1>1, <1>3, <1>4, <1>5, <1>6

LEMMA AfterPowerOnGoes ==
    ASSUME TypeOK, StageOK, NEW c \in Closures, NEW ok \in BOOLEAN, AfterPowerOn(c, ok)
    PROVE  Goes(c) /\ FailedType
BY EndsGoes, FailsType DEF AfterPowerOn

LEMMA AfterConfigureGoes ==
    ASSUME TypeOK, StageOK, NEW c \in Closures, pc[c] = "configuring", AfterConfigure(c)
    PROVE  Goes(c)
<1>1. op[c] = "reconfigure"
  BY DEF StageOK, Fits
<1>2. GoTo(c, "power_on") \/ Ends(c, TRUE)
  BY DEF AfterConfigure
<1> QED
  BY <1>1, <1>2, EndsGoes, GoToGoes DEF Fits, Pcs, Waiting

-----------------------------------------------------------------------------
(* Type correctness, with StageOK.                                         *)

\* A step in which nothing happens in vCenter.
LEMMA LocalTypes ==
    ASSUME TypeOK, StageOK, NEW c \in Closures, Goes(c), FailedType, Unwaits(c),
           UNCHANGED <<vcenter, request, seen, met>>,
           plan' \in [Closures -> Plans]
    PROVE  TypeOK' /\ StageOK'
<1>1. ClosureTypeOK' /\ WaitsOK' /\ StageOK'
  BY GoesTypes DEF vcenter
<1>2. MachineTypeOK' /\ HistoryTypeOK' /\ (stopping => vm = "on")'
  BY DEF TypeOK, MachineTypeOK, HistoryTypeOK, FailedType, vcenter
<1> QED
  BY <1>1, <1>2 DEF TypeOK

LEMMA SubmitTypes ==
    ASSUME TypeOK, StageOK, NEW c \in Closures, NEW job \in Jobs, NEW s \in Waiting,
           pc[c] \notin Waiting \cup {"returned"}, Fits(s, op[c]), Submit(job, c, s)
    PROVE  TypeOK' /\ StageOK'
<1>1. MachineTypeOK' /\ HistoryTypeOK' /\ (stopping => vm = "on")'
  BY DEF Submit, TypeOK, MachineTypeOK, HistoryTypeOK, ClosureTypeOK
<1>2. task = NoTask /\ task' = [job |-> job, by |-> c] /\ task' # NoTask
  BY DEF Submit, Accepts, NoTask, Jobs
<1>3. ClosureTypeOK'
  BY DEF Submit, GoTo, TypeOK, ClosureTypeOK, request, Pcs
<1>4. WaitsOK'
  <2> SUFFICES ASSUME NEW d \in Closures
               PROVE  /\ awaited'[d] # "none" <=> pc'[d] \in Waiting
                      /\ result'[d] # "none" <=> pc'[d] = "returned"
                      /\ awaited'[d] = "running" => task' # NoTask /\ task'.by = d
    BY DEF WaitsOK
  <2>1. CASE d = c
    BY <2>1, <1>2 DEF Submit, GoTo, TypeOK, ClosureTypeOK, WaitsOK, Waiting
  <2>2. CASE d # c
    BY <2>2, <1>2 DEF Submit, GoTo, TypeOK, ClosureTypeOK, WaitsOK
  <2> QED
    BY <2>1, <2>2
<1>5. StageOK'
  BY DEF Submit, GoTo, TypeOK, ClosureTypeOK, StageOK, request
<1> QED
  BY <1>1, <1>3, <1>4, <1>5 DEF TypeOK

\* Local and Awaited are the two forms of the frame of LocalTypes.
LEMMA LocalFrame ==
    ASSUME TypeOK, NEW c \in Closures, pc[c] \notin Waiting, Local
    PROVE  /\ Unwaits(c) /\ UNCHANGED <<vcenter, request, seen, met>>
           /\ plan' \in [Closures -> Plans]
BY DEF Local, Unwaits, TypeOK, ClosureTypeOK

LEMMA AwaitedFrame ==
    ASSUME TypeOK, NEW c \in Closures, Awaited(c)
    PROVE  /\ Unwaits(c) /\ UNCHANGED <<vcenter, request, seen, met>>
           /\ plan' \in [Closures -> Plans]
BY DEF Awaited, Unwaits, TypeOK, ClosureTypeOK

LEMMA PanicGoes ==
    ASSUME TypeOK, NEW c \in Closures, Panic(c) PROVE Goes(c) /\ FailedType
BY ReturnGoes, FailsType DEF Panic

LEMMA StepTypes ==
    ASSUME TypeOK, StageOK, NEW c \in Closures, Step(c) PROVE TypeOK' /\ StageOK'
<1>1. CASE Start(c)
  <2>1. Goes(c)
    <3> DEFINE s == CASE op[c] = "power_off" -> PowerOffFirst
                      [] op[c] \in {"shutdown", "restart"} -> "shutdown"
                      [] op[c] = "reconfigure" -> "measure"
                      [] OTHER -> op[c]
    <3>1. op[c] \in AllOperations
      BY OperatorAssumption DEF TypeOK, ClosureTypeOK
    <3>2. s \in {"shutdown", "power_off", "measure", "power_on", "destroy"} /\ Fits(s, op[c])
      BY <3>1 DEF AllOperations, PowerOffFirst, Fits
    <3>3. GoTo(c, s) /\ pc[c] = "idle"
      BY <1>1 DEF Start
    <3>4. s \in Pcs \ (Waiting \cup {"idle", "returned"})
      BY <3>2 DEF Pcs, Waiting
    <3> HIDE DEF s
    <3> QED
      BY <3>2, <3>3, <3>4, GoToGoes
  <2>2. ClosureTypeOK' /\ WaitsOK' /\ StageOK'
    BY <1>1, <2>1, GoesTypes DEF Start, Unwaits, TypeOK, ClosureTypeOK, Waiting, vcenter
  <2>3. MachineTypeOK' /\ HistoryTypeOK' /\ (stopping => vm = "on")'
    BY <1>1 DEF Start, MetBy, TypeOK, MachineTypeOK, HistoryTypeOK, vcenter
  <2> QED
    BY <2>2, <2>3 DEF TypeOK
<1>2. CASE Shutdown(c)
  <2>1. GoTo(c, "halt") /\ UNCHANGED failed => Goes(c) /\ FailedType
    BY <1>2, GoToGoes, FailsType DEF Shutdown, StageOK, Fits, Pcs, Waiting
  <2>2. Goes(c) /\ FailedType
    BY <1>2, <2>1, AfterShutdownGoes, PanicGoes DEF Shutdown
  <2> QED
    BY <1>2, <2>2, LocalFrame, LocalTypes DEF Shutdown, Waiting
<1>3. CASE Halt(c)
  <2>1. CASE AfterShutdown(c, FALSE) /\ Local
    BY <1>3, <2>1, AfterShutdownGoes, LocalFrame, LocalTypes DEF Halt, Waiting
  <2>2. CASE /\ vm = "on" /\ stopping' = TRUE /\ GoTo(c, "halting")
             /\ UNCHANGED <<vm, hw, hot, task, request, awaited, plan, seen, failed, met>>
    <3>1. Goes(c)
      BY <1>3, <2>2, GoToGoes DEF Halt, StageOK, Fits, Pcs, Waiting
    <3>2. ClosureTypeOK' /\ WaitsOK' /\ StageOK'
      BY <1>3, <2>2, <3>1, GoesTypes DEF Halt, Unwaits, TypeOK, ClosureTypeOK, Waiting
    <3>3. MachineTypeOK' /\ HistoryTypeOK' /\ (stopping => vm = "on")'
      BY <2>2 DEF TypeOK, MachineTypeOK, HistoryTypeOK
    <3> QED
      BY <3>2, <3>3 DEF TypeOK
  <2> QED
    BY <1>3, <2>1, <2>2 DEF Halt
<1>4. CASE Halting(c)
  BY <1>4, AfterShutdownGoes, LocalFrame, LocalTypes DEF Halting, Waiting
<1>5. CASE PowerOff(c)
  <2>1. GoTo(c, "cut") /\ UNCHANGED failed => Goes(c) /\ FailedType
    BY <1>5, GoToGoes, FailsType DEF PowerOff, StageOK, Fits, Pcs, Waiting
  <2>2. Goes(c) /\ FailedType
    BY <1>5, <2>1, AfterPowerOffGoes, PanicGoes DEF PowerOff
  <2> QED
    BY <1>5, <2>2, LocalFrame, LocalTypes DEF PowerOff, Waiting
<1>6. CASE Cut(c)
  <2>1. CASE Submit("power_off", c, "powering_off")
    BY <1>6, <2>1, SubmitTypes DEF Cut, StageOK, Fits, Jobs, Waiting
  <2>2. CASE AfterPowerOff(c, FALSE) /\ Local
    BY <1>6, <2>2, AfterPowerOffGoes, LocalFrame, LocalTypes DEF Cut, Waiting
  <2> QED
    BY <1>6, <2>1, <2>2 DEF Cut
<1>7. CASE PoweringOff(c)
  BY <1>7, AfterPowerOffGoes, AwaitedFrame, LocalTypes DEF PoweringOff
<1>8. CASE PowerOn(c)
  <2>1. GoTo(c, "boot") /\ UNCHANGED failed => Goes(c) /\ FailedType
    BY <1>8, GoToGoes, FailsType DEF PowerOn, StageOK, Fits, Pcs, Waiting
  <2>2. Goes(c) /\ FailedType
    BY <1>8, <2>1, AfterPowerOnGoes, PanicGoes DEF PowerOn
  <2> QED
    BY <1>8, <2>2, LocalFrame, LocalTypes DEF PowerOn, Waiting
<1>9. CASE Boot(c)
  <2>1. CASE Submit("power_on", c, "powering_on")
    BY <1>9, <2>1, SubmitTypes DEF Boot, StageOK, Fits, Jobs, Waiting
  <2>2. CASE AfterPowerOn(c, FALSE) /\ Local
    BY <1>9, <2>2, AfterPowerOnGoes, LocalFrame, LocalTypes DEF Boot, Waiting
  <2> QED
    BY <1>9, <2>1, <2>2 DEF Boot
<1>10. CASE PoweringOn(c)
  BY <1>10, AfterPowerOnGoes, AwaitedFrame, LocalTypes DEF PoweringOn
<1>11. CASE Destroy(c)
  <2>1. (GoTo(c, "raze") \/ GoTo(c, "power_off")) /\ UNCHANGED failed
          => Goes(c) /\ FailedType
    BY <1>11, GoToGoes, FailsType DEF Destroy, StageOK, Fits, Pcs, Waiting
  <2>2. Goes(c) /\ FailedType
    BY <1>11, <2>1, EndsGoes, FailsType, PanicGoes DEF Destroy
  <2> QED
    BY <1>11, <2>2, LocalFrame, LocalTypes DEF Destroy, Waiting
<1>12. CASE Raze(c)
  <2>1. CASE Submit("destroy", c, "destroying")
    BY <1>12, <2>1, SubmitTypes DEF Raze, StageOK, Fits, Jobs, Waiting
  <2>2. CASE Ends(c, FALSE) /\ UNCHANGED failed /\ Local
    BY <1>12, <2>2, EndsGoes, FailsType, LocalFrame, LocalTypes DEF Raze, Waiting
  <2> QED
    BY <1>12, <2>1, <2>2 DEF Raze
<1>13. CASE Destroying(c)
  BY <1>13, EndsGoes, FailsType, AwaitedFrame, LocalTypes DEF Destroying
<1>14. CASE Measure(c)
  <2>1. hw \in Amounts /\ want[c] \in Amounts /\ pc[c] \notin Waiting
    BY <1>14, OperatorAssumption DEF Measure, TypeOK, MachineTypeOK, ClosureTypeOK,
       Waiting, Nothing, Amounts
  <2>2. Change(want[c]) \in Amounts
    BY <2>1 DEF Change, Amounts
  <2>3. StopFirst(want[c]) \in BOOLEAN
    BY DEF StopFirst
  <2>4. plan' \in [Closures -> Plans]
    <3> DEFINE made == [stopFirst |-> StopFirst(want[c]), wasOn |-> vm = "on",
                        param |-> Change(want[c]), of |-> hw]
    <3>1. made \in Plans
      BY <2>1, <2>2, <2>3 DEF Plans
    <3>2. plan \in [Closures -> Plans]
      BY DEF TypeOK, ClosureTypeOK
    <3>3. \/ plan' = [plan EXCEPT ![c] = made] \/ plan' = plan
          \/ plan' = [plan EXCEPT ![c] = [NoPlan EXCEPT !.of = hw]]
      BY <1>14 DEF Measure
    <3>4. [NoPlan EXCEPT !.of = hw] \in Plans
      BY <2>1 DEF Plans, NoPlan, Nothing, Amounts
    <3> HIDE DEF made
    <3> QED
      BY <3>1, <3>2, <3>3, <3>4
  <2>5. GoTo(c, IF StopFirst(want[c]) THEN PowerOffFirst ELSE "configure") => Goes(c)
    <3> DEFINE s == IF StopFirst(want[c]) THEN PowerOffFirst ELSE "configure"
    <3>1. s \in {"shutdown", "power_off", "configure"}
      BY DEF PowerOffFirst
    <3>2. op[c] = "reconfigure" /\ pc[c] # "returned"
      BY <1>14 DEF Measure, StageOK, Fits
    <3> HIDE DEF s
    <3>3. GoTo(c, s) => Goes(c)
      BY <3>1, <3>2, GoToGoes DEF Fits, Pcs, Waiting
    <3> QED
      BY <3>3 DEF s
  <2>6. Goes(c)
    BY <1>14, <2>5, EndsGoes, PanicGoes DEF Measure
  <2>7. FailedType
    BY <1>14, FailsType DEF Measure
  <2> QED
    BY <1>14, <2>1, <2>4, <2>6, <2>7, LocalTypes DEF Measure, Unwaits
<1>15. CASE Configure(c)
  <2>1. CASE Submit("configure", c, "configuring")
    BY <1>15, <2>1, SubmitTypes DEF Configure, StageOK, Fits, Jobs, Waiting
  <2>2. CASE Ends(c, FALSE) /\ UNCHANGED failed /\ Local
    BY <1>15, <2>2, EndsGoes, FailsType, LocalFrame, LocalTypes DEF Configure, Waiting
  <2> QED
    BY <1>15, <2>1, <2>2 DEF Configure
<1>16. CASE Configuring(c)
  BY <1>16, AfterConfigureGoes, EndsGoes, FailsType, AwaitedFrame, LocalTypes
     DEF Configuring
<1> QED
  BY <1>1, <1>2, <1>3, <1>4, <1>5, <1>6, <1>7, <1>8, <1>9, <1>10, <1>11, <1>12, <1>13,
     <1>14, <1>15, <1>16 DEF Step

\* TypeOK and StageOK hold in every state: every variable has its type, each
\* closure waits for a task exactly in its waiting states, and comes only to the
\* helpers of its operation.
LEMMA StepsKeepTypes == TypeOK /\ StageOK /\ [Next]_vars => TypeOK' /\ StageOK'
<1> SUFFICES ASSUME TypeOK, StageOK, [Next]_vars PROVE TypeOK' /\ StageOK'
  OBVIOUS
<1>1. ASSUME NEW c \in Closures, Step(c) PROVE TypeOK' /\ StageOK'
  BY <1>1, StepTypes
<1>2. ASSUME NEW c \in Closures, TaskEnds(c) PROVE TypeOK' /\ StageOK'
  BY <1>2, TaskEndsTypes DEF TaskEnds, StageOK, request
<1>3. CASE GuestStops
  BY <1>3, GuestStopsTypes DEF GuestStops, StageOK, request
<1>4. CASE UNCHANGED vars
  BY <1>4 DEF vars, vcenter, request, TypeOK, MachineTypeOK, ClosureTypeOK, HistoryTypeOK,
     WaitsOK, StageOK
<1> QED
  BY <1>1, <1>2, <1>3, <1>4 DEF Next, Idle

\* Type correctness, for any closures, operations, requests and hot-plug
\* settings.
THEOREM OperatorTypeCorrect == Spec => [](TypeOK /\ StageOK)
<1>1. Init => TypeOK /\ StageOK
  BY InitTypes, OperatorAssumption DEF Init, StageOK, Fits
<1> QED
  BY <1>1, StepsKeepTypes, PTL DEF Spec

-----------------------------------------------------------------------------
(* Plans, and what is sent.                                                  *)

AmountsOK(a) == a.cpu \in Nat /\ a.cores \in Nat /\ a.memory \in Nat

LEMMA AmountsOfTypes ==
    ASSUME TypeOK, NEW c \in Closures
    PROVE  AmountsOK(hw) /\ AmountsOK(want[c])
<1>1. hw \in Amounts /\ want[c] \in Amounts
  BY OperatorAssumption DEF TypeOK, MachineTypeOK, ClosureTypeOK, Amounts, Nothing
<1> QED
  BY <1>1 DEF Amounts, AmountsOK

\* Plans are made by Measure only, and what they were made of stays.
LEMMA PlanMade ==
    ASSUME TypeOK, [Next]_vars, NEW c \in Closures
    PROVE  /\ UNCHANGED <<hot, want, op>>
           /\ plan'[c] # plan[c] =>
                /\ pc[c] = "measure"
                /\ \/ plan'[c] = [stopFirst |-> StopFirst(want[c]), wasOn |-> vm = "on",
                                  param |-> Change(want[c]), of |-> hw]
                   \/ plan'[c] = [NoPlan EXCEPT !.of = hw]
<1> USE DEF vcenter, request, Local, Awaited, Submit
<1>1. ASSUME NEW d \in Closures, Step(d), ~Measure(d)
      PROVE  UNCHANGED <<hot, want, op, plan>>
  BY <1>1 DEF Step, Start, Shutdown, Halt, Halting, PowerOff, Cut, PoweringOff, PowerOn,
              Boot, PoweringOn, Destroy, Raze, Destroying, Configure, Configuring
<1>2. ASSUME NEW d \in Closures, Measure(d)
      PROVE  /\ UNCHANGED <<hot, want, op>> /\ pc[d] = "measure"
             /\ \/ UNCHANGED plan
                \/ plan' = [plan EXCEPT ![d] =
                             [stopFirst |-> StopFirst(want[d]), wasOn |-> vm = "on",
                              param |-> Change(want[d]), of |-> hw]]
                \/ plan' = [plan EXCEPT ![d] = [NoPlan EXCEPT !.of = hw]]
  BY <1>2 DEF Measure
<1>3. ASSUME (\E d \in Closures : TaskEnds(d)) \/ GuestStops \/ Idle \/ UNCHANGED vars
      PROVE  UNCHANGED <<hot, want, op, plan>>
  BY <1>3 DEF TaskEnds, GuestStops, Idle, vars
<1>4. plan \in [Closures -> Plans]
  BY DEF TypeOK, ClosureTypeOK
<1> QED
  BY <1>1, <1>2, <1>3, <1>4 DEF Next

LEMMA WantedInductive == TypeOK /\ WantedInv /\ [Next]_vars => WantedInv'
<1> SUFFICES ASSUME TypeOK, WantedInv, [Next]_vars, NEW c \in Closures
             PROVE  SentOf(c)'
  BY DEF WantedInv
<1>1. UNCHANGED want
  BY PlanMade
<1>2. CASE plan'[c] = plan[c]
  BY <1>1, <1>2 DEF WantedInv, SentOf
<1>3. CASE plan'[c] = [stopFirst |-> StopFirst(want[c]), wasOn |-> vm = "on",
                      param |-> Change(want[c]), of |-> hw]
  <2>1. plan'[c].param = Change(want[c])
    BY <1>3
  <2> QED
    BY <1>1, <2>1 DEF SentOf, Change
<1>4. CASE plan'[c] = [NoPlan EXCEPT !.of = hw]
  <2>1. plan'[c].param = Nothing
    BY <1>4 DEF NoPlan
  <2> QED
    BY <1>1, <2>1 DEF SentOf, Nothing
<1> QED
  BY <1>2, <1>3, <1>4, PlanMade

\* What is sent was asked for.
LEMMA WantedAlways == Spec => []WantedInv
<1>1. Init => WantedInv
  <2> SUFFICES ASSUME Init, NEW c \in Closures
               PROVE  SentOf(c)
    BY DEF WantedInv
  <2>1. plan[c].param = Nothing
    BY DEF Init, NoPlan
  <2> QED
    BY <2>1 DEF SentOf, Nothing
<1> QED
  BY <1>1, WantedInductive, OperatorTypeCorrect, PTL DEF Spec

\* The amounts that a change leaves out stay.
LEMMA ChangedField ==
    ASSUME NEW h \in Amounts, NEW ch
    PROVE  /\ DOMAIN Changed(h, ch) = {"cpu", "cores", "memory"}
           /\ Changed(h, ch).cpu = IF ch.cpu # 0 THEN ch.cpu ELSE h.cpu
           /\ Changed(h, ch).cores = IF ch.cores # 0 THEN ch.cores ELSE h.cores
           /\ Changed(h, ch).memory = IF ch.memory # 0 THEN ch.memory ELSE h.memory
  BY DEF Changed

-----------------------------------------------------------------------------
(* SuccessIsReal, by SuccessInv.                                           *)

\* What a step of c has earned it, if vCenter stood still.
Earns(c) == BehindOf(c)' /\ RealOf(c)'

\* c is the only closure that has moved.
OnlyMoves(c) ==
    \A d \in Closures \ {c} :
        UNCHANGED <<op[d], pc[d], awaited[d], plan[d], result[d], seen[d], failed[d],
                    met[d]>>

LEMMA OthersKeep ==
    ASSUME SuccessInv, NEW c \in Closures, OnlyMoves(c), UNCHANGED <<vm, hw, want>>,
           NEW d \in Closures \ {c}, awaited[d] = "running" => task' = task
    PROVE  WatchOf(d)' /\ BehindOf(d)' /\ RealOf(d)'
BY DEF SuccessInv, OnlyMoves, WatchOf, BehindOf, RealOf, Running, Succeeds, Applied, Decided,
       Omitted, MetBy

\* A step in which nothing happens in vCenter.
LEMMA LocalKeeps ==
    ASSUME TypeOK, SuccessInv, NEW c \in Closures, Goes(c), Unwaits(c), Earns(c),
           UNCHANGED <<vm, hw, task, request, seen, met>>, pc[c] \notin {"idle", "returned"},
           \A d \in Closures \ {c} : plan'[d] = plan[d] /\ failed'[d] = failed[d]
    PROVE  SuccessInv'
<1>1. OnlyMoves(c) /\ awaited'[c] = "none"
  BY DEF TypeOK, ClosureTypeOK, WaitsOK, Goes, Unwaits, OnlyMoves, request
<1>2. WatchOf(c)'
  BY <1>1 DEF SuccessInv, WatchOf, Running, MetBy, request
<1>3. ASSUME NEW d \in Closures \ {c} PROVE WatchOf(d)' /\ BehindOf(d)' /\ RealOf(d)'
  BY <1>1, OthersKeep DEF request
<1> QED
  BY <1>2, <1>3 DEF SuccessInv, Earns

\* What c knows before its step.
LEMMA Unreturned ==
    ASSUME TypeOK, NEW c \in Closures, pc[c] # "returned"
    PROVE  /\ result[c] = "none"
           /\ pc \in [Closures -> Pcs]
           /\ result \in [Closures -> {"none", "ok", "error", "panic"}]
           /\ failed \in [Closures -> SUBSET {"shutdown", "power_off", "lookup"}]
BY DEF TypeOK, WaitsOK, ClosureTypeOK, HistoryTypeOK

\* A reconfiguration whose change has taken effect has brought about what it
\* decided to.
LEMMA AppliedReal ==
    ASSUME NEW c \in Closures, Applied(c), Decided(c), NEW f \in Fields, want[c][f] # 0
    PROVE  f \in met[c] \/ Omitted(c, f)
BY DEF Applied, Decided

\* An operation that ends without success has nothing to show for.
LEMMA FailureEarns ==
    ASSUME TypeOK, NEW c \in Closures, Return(c, "error") \/ Return(c, "panic")
    PROVE  Earns(c)
<1>1. pc'[c] = "returned" /\ result'[c] # "ok"
  BY DEF Return, TypeOK, ClosureTypeOK
<1> QED
  BY <1>1 DEF Earns, BehindOf, RealOf, Succeeds

LEMMA AfterShutdownEarns ==
    ASSUME TypeOK, StageOK, SuccessInv, NEW c \in Closures, NEW ok \in BOOLEAN,
           pc[c] \in {"shutdown", "halt", "halting"}, ok => "off" \in seen[c],
           AfterShutdown(c, ok), UNCHANGED <<request, plan, seen, met>>
    PROVE  Earns(c)
<1> USE Unreturned DEF Earns, BehindOf, RealOf, Succeeds, request, AfterShutdown, Applied,
        Decided, Omitted
<1>1. op[c] \in {"power_off", "shutdown", "restart", "reconfigure"}
  BY DEF StageOK, Fits
<1>2. CASE op[c] = "shutdown"
  BY <1>2 DEF Ends, Return
<1>3. CASE op[c] = "power_off"
  BY <1>3 DEF Ends, Return, GoTo
<1>4. CASE op[c] = "restart"
  BY <1>4 DEF GoTo, Fails
<1>5. CASE op[c] = "reconfigure"
  BY <1>5 DEF GoTo, SuccessInv
<1> QED
  BY <1>1, <1>2, <1>3, <1>4, <1>5

LEMMA AfterPowerOffEarns ==
    ASSUME TypeOK, StageOK, SuccessInv, NEW c \in Closures, NEW ok \in BOOLEAN,
           pc[c] \in {"power_off", "cut", "powering_off"}, ok => "off" \in seen[c],
           AfterPowerOff(c, ok), UNCHANGED <<request, plan, seen, met>>
    PROVE  Earns(c)
<1> USE Unreturned DEF Earns, BehindOf, RealOf, Succeeds, request, AfterPowerOff, Applied,
        Decided, Omitted
<1>1. op[c] \in {"power_off", "restart", "reconfigure", "destroy"}
  BY DEF StageOK, Fits
<1>2. CASE op[c] = "power_off"
  BY <1>2 DEF Ends, Return
<1>3. CASE op[c] = "restart"
  BY <1>3 DEF GoTo, Fails, SuccessInv
<1>4. CASE op[c] = "reconfigure"
  BY <1>4 DEF Ends, Return, GoTo, SuccessInv
<1>5. CASE op[c] = "destroy"
  BY <1>5 DEF Ends, Return, GoTo
<1> QED
  BY <1>1, <1>2, <1>3, <1>4, <1>5

LEMMA AfterPowerOnEarns ==
    ASSUME TypeOK, StageOK, SuccessInv, NEW c \in Closures, NEW ok \in BOOLEAN,
           pc[c] \in {"power_on", "boot", "powering_on"}, ok => "on" \in seen[c],
           AfterPowerOn(c, ok), UNCHANGED <<request, plan, seen, met>>
    PROVE  Earns(c)
<1>1. op[c] \in {"power_on", "restart", "reconfigure"}
  BY DEF StageOK, Fits
<1>2. pc'[c] = "returned" /\ UNCHANGED <<failed, op[c]>>
  BY Unreturned DEF AfterPowerOn, Ends, Return, request
<1>3. result'[c] = "ok" => ok \/ op[c] = "reconfigure"
  BY Unreturned DEF AfterPowerOn, Ends, Return
<1> QED
  BY <1>1, <1>2, <1>3, AppliedReal DEF Earns, SuccessInv, BehindOf, RealOf, Succeeds, Omitted,
     request

LEMMA AfterConfigureEarns ==
    ASSUME TypeOK, StageOK, NEW c \in Closures, pc[c] = "configuring", Applied(c), Decided(c),
           AfterConfigure(c), UNCHANGED <<request, plan, seen, met>>
    PROVE  Earns(c)
<1>1. op[c] = "reconfigure"
  BY DEF StageOK, Fits
<1>2. CASE GoTo(c, "power_on")
  BY <1>1, <1>2, Unreturned DEF GoTo, Earns, BehindOf, RealOf, Succeeds, request, Applied,
     Decided, Omitted
<1>3. CASE Ends(c, TRUE)
  BY <1>1, <1>3, Unreturned, AppliedReal DEF Ends, Return, Earns, BehindOf, RealOf, Succeeds,
     request, Omitted
<1> QED
  BY <1>2, <1>3 DEF AfterConfigure

LEMMA SubmitKeeps ==
    ASSUME TypeOK, SuccessInv, NEW c \in Closures, NEW job, NEW s, Submit(job, c, s),
           \/ pc[c] = "boot" /\ s = "powering_on" /\ job = "power_on"
           \/ pc[c] = "cut" /\ s = "powering_off" /\ job = "power_off"
           \/ pc[c] = "raze" /\ s = "destroying" /\ job = "destroy"
           \/ pc[c] = "configure" /\ s = "configuring" /\ job = "configure"
    PROVE  SuccessInv'
<1>1. /\ pc' = [pc EXCEPT ![c] = s] /\ awaited' = [awaited EXCEPT ![c] = "running"]
      /\ task = NoTask /\ task' = [job |-> job, by |-> c]
      /\ UNCHANGED <<vm, hw, op, want, plan, result, seen, failed, met>>
  BY DEF Submit, Accepts, GoTo, request
<1>2. OnlyMoves(c)
  BY <1>1 DEF OnlyMoves, TypeOK, ClosureTypeOK
<1>3. WatchOf(c)'
  BY <1>1 DEF SuccessInv, WatchOf, Running, MetBy, TypeOK, ClosureTypeOK
<1>4. BehindOf(c)' /\ RealOf(c)'
  BY <1>1, Unreturned DEF SuccessInv, BehindOf, RealOf, Succeeds, Applied, Decided, Omitted
<1>5. ASSUME NEW d \in Closures \ {c} PROVE WatchOf(d)' /\ BehindOf(d)' /\ RealOf(d)'
  BY <1>1, <1>2, OthersKeep DEF TypeOK, WaitsOK
<1> QED
  BY <1>3, <1>4, <1>5 DEF SuccessInv

\* Everybody who is on the way sees a change of the machine.
LEMMA BecomesSeen ==
    ASSUME TypeOK, NEW state, Becomes(state), NEW d \in Closures
    PROVE  seen[d] \subseteq seen'[d] /\ (Running(d) => state \in seen'[d] /\ vm' = state)
BY DEF Becomes, TypeOK, HistoryTypeOK

LEMMA GuestStopsKeeps == TypeOK /\ SuccessInv /\ GuestStops => SuccessInv'
<1> SUFFICES ASSUME TypeOK, SuccessInv, GuestStops, NEW d \in Closures
             PROVE  WatchOf(d)' /\ BehindOf(d)' /\ RealOf(d)'
  BY DEF SuccessInv
<1>1. seen[d] \subseteq seen'[d] /\ (Running(d) => vm' \in seen'[d])
  BY BecomesSeen DEF GuestStops
<1>2. UNCHANGED <<hw, task, op, want, pc, awaited, plan, result, failed, met>>
  BY DEF GuestStops, request
<1> QED
  BY <1>1, <1>2 DEF SuccessInv, WatchOf, BehindOf, RealOf, Running, Succeeds, Applied,
     Decided, Omitted, MetBy

LEMMA TaskEndsKeeps ==
    ASSUME TypeOK, WantedInv, SuccessInv, NEW c \in Closures, TaskEnds(c)
    PROVE  SuccessInv'
<1> SUFFICES ASSUME NEW d \in Closures PROVE WatchOf(d)' /\ BehindOf(d)' /\ RealOf(d)'
  BY DEF SuccessInv
<1>1. /\ task # NoTask /\ task.by = c /\ task.job \in Jobs
      /\ UNCHANGED <<op, want, pc, plan, result, failed>>
  BY DEF TaskEnds, request, TypeOK, MachineTypeOK
<1>2. awaited[d] = "running" => d = c
  BY <1>1 DEF TypeOK, WaitsOK
<1>3. CASE Effect(task.job, c) /\ awaited' = [awaited EXCEPT ![c] =
                                              IF @ = "running" THEN "done" ELSE @]
  <2>1. /\ seen[d] \subseteq seen'[d] /\ (Running(d) => vm' \in seen'[d])
        /\ Running(d) =>
              /\ task.job = "power_on" => "on" \in seen'[d]
              /\ task.job = "power_off" => "off" \in seen'[d]
              /\ task.job = "destroy" => "absent" \in seen'[d]
    <3>1. CASE task.job = "configure"
      BY <1>3, <3>1 DEF Effect, SuccessInv, WatchOf
    <3>2. CASE task.job = "power_on"
      BY <1>3, <3>2, BecomesSeen DEF Effect
    <3>3. CASE task.job = "power_off"
      BY <1>3, <3>3, BecomesSeen DEF Effect
    <3>4. CASE task.job = "destroy"
      BY <1>3, <3>4, BecomesSeen DEF Effect
    <3> QED
      BY <1>1, <3>1, <3>2, <3>3, <3>4 DEF Jobs
  <2>2. /\ met[d] \subseteq met'[d]
        /\ Running(d) => MetBy(hw', want[d]) \subseteq met'[d]
    <3>1. CASE task.job = "configure"
      BY <1>3, <3>1 DEF Effect, Rebuilt, TypeOK, HistoryTypeOK
    <3>2. CASE task.job # "configure"
      BY <1>3, <3>2 DEF Effect, SuccessInv, WatchOf
    <3> QED
      BY <3>1, <3>2
  <2>7. d = c /\ task.job = "configure" /\ Running(d) => Applied(d)'
    <3> SUFFICES ASSUME d = c, task.job = "configure", Running(d), NEW f \in Fields,
                        plan[d].param[f] # 0
                 PROVE  f \in met'[d]
      BY <1>1 DEF Applied
    <3>1. hw' = Changed(hw, plan[d].param)
      BY <1>3 DEF Effect, Rebuilt
    <3>2. hw'[f] = want[d][f] /\ want[d][f] # 0
      BY <3>1, ChangedField DEF WantedInv, SentOf, Fields, TypeOK, MachineTypeOK
    <3> QED
      BY <2>2, <3>2 DEF MetBy
  <2>3. awaited'[d] = IF d = c /\ awaited[d] = "running" THEN "done" ELSE awaited[d]
    BY <1>3 DEF TypeOK, ClosureTypeOK
  <2>4. BehindOf(d)' /\ RealOf(d)'
    BY <1>1, <2>1, <2>2 DEF SuccessInv, BehindOf, RealOf, Succeeds, Applied, Decided, Omitted
  <2>5. awaited[d] = "running" => pc[d] \in Waiting /\ Running(d)
    BY DEF TypeOK, WaitsOK, Waiting, Running
  <2>6. WatchOf(d)'
    BY <1>1, <1>2, <2>1, <2>2, <2>3, <2>5, <2>7 DEF SuccessInv, WatchOf, Running, Applied
  <2> QED
    BY <2>4, <2>6
<1>4. CASE /\ awaited' = [awaited EXCEPT ![c] = IF @ = "running" THEN "failed" ELSE @]
           /\ UNCHANGED <<vm, stopping, hw, seen, met>>
  <2>1. awaited'[d] = IF d = c /\ awaited[d] = "running" THEN "failed" ELSE awaited[d]
    BY <1>4 DEF TypeOK, ClosureTypeOK
  <2> QED
    BY <1>1, <1>2, <1>4, <2>1 DEF SuccessInv, WatchOf, BehindOf, RealOf, Running, Succeeds,
       Applied, Decided, Omitted, MetBy
<1> QED
  BY <1>3, <1>4 DEF TaskEnds

\* A helper that has looked at the machine goes on to its call.
LEMMA OnwardEarns ==
    ASSUME TypeOK, StageOK, SuccessInv, NEW c \in Closures, NEW s, GoTo(c, s),
           \/ pc[c] = "shutdown" /\ s = "halt"
           \/ pc[c] = "halt" /\ s = "halting"
           \/ pc[c] = "power_off" /\ s = "cut"
           \/ pc[c] = "power_on" /\ s = "boot"
           \/ pc[c] = "destroy" /\ s \in {"raze", "power_off"},
           UNCHANGED <<request, plan, seen, failed, met>>
    PROVE  Goes(c) /\ Earns(c)
<1>1. op[c] = "destroy" \/ pc[c] # "destroy"
  BY DEF StageOK, Fits
<1>2. Fits(s, op[c])
  BY DEF StageOK, Fits
<1>3. pc' = [pc EXCEPT ![c] = s] /\ result'[c] = "none" /\ pc'[c] = s
  BY Unreturned DEF GoTo
<1>4. Goes(c)
  BY <1>2, GoToGoes DEF Pcs, Waiting
<1>5. Earns(c)
  BY <1>1, <1>3 DEF Earns, SuccessInv, BehindOf, RealOf, Succeeds, request, Applied, Decided,
     Omitted
<1> QED
  BY <1>4, <1>5

\* What has failed in the other closures is as before.
LEMMA OthersFailed ==
    ASSUME NEW c \in Closures, NEW w, Fails(c, w) \/ UNCHANGED failed, TypeOK,
           NEW d \in Closures \ {c}
    PROVE  failed'[d] = failed[d]
BY DEF Fails, TypeOK, HistoryTypeOK

LEMMA StepKeeps ==
    ASSUME TypeOK, StageOK, SuccessInv, NEW c \in Closures, Step(c) PROVE SuccessInv'
<1>1. CASE Start(c)
  <2>1. /\ seen' = [seen EXCEPT ![c] = {vm}] /\ met' = [met EXCEPT ![c] = MetBy(hw, want[c])]
        /\ pc[c] = "idle" /\ UNCHANGED result
        /\ UNCHANGED <<vm, hw, task, op, want, awaited, plan, failed>>
    BY <1>1 DEF Start, GoTo, vcenter, request
  <2>2. op[c] \in AllOperations
    BY OperatorAssumption DEF TypeOK, ClosureTypeOK
  <2>3. pc' = [pc EXCEPT ![c] = pc'[c]]
        /\ \/ op[c] = "power_off" /\ pc'[c] \in {"shutdown", "power_off"}
           \/ op[c] \in {"shutdown", "restart"} /\ pc'[c] = "shutdown"
           \/ op[c] = "reconfigure" /\ pc'[c] = "measure"
           \/ op[c] \in {"power_on", "destroy"} /\ pc'[c] = op[c]
    BY <1>1, <2>2, Unreturned DEF Start, GoTo, AllOperations, PowerOffFirst
  <2>4. awaited[c] = "none" /\ result[c] = "none"
    BY <2>1, Unreturned DEF TypeOK, ClosureTypeOK, WaitsOK, Waiting
  <2>5. WatchOf(c)'
    BY <2>1, <2>4 DEF WatchOf, MetBy, TypeOK, HistoryTypeOK
  <2>6. BehindOf(c)' /\ RealOf(c)'
    BY <2>1, <2>3, <2>4 DEF SuccessInv, BehindOf, RealOf, Succeeds
  <2>7. OnlyMoves(c)
    BY <2>1, <2>3, Unreturned DEF OnlyMoves, TypeOK, HistoryTypeOK
  <2> QED
    BY <2>1, <2>5, <2>6, <2>7, OthersKeep DEF SuccessInv
<1>2. CASE Shutdown(c)
  <2>1. vm \in seen[c]
    BY <1>2 DEF Shutdown, SuccessInv, WatchOf, Running
  <2>2. Goes(c) /\ Earns(c)
    BY <1>2, <2>1, AfterShutdownGoes, AfterShutdownEarns, OnwardEarns, PanicGoes,
       FailureEarns DEF Shutdown, Local, Panic
  <2> QED
    BY <1>2, <2>2, LocalFrame, LocalKeeps, OthersFailed
       DEF Shutdown, Local, Panic, AfterShutdown, Waiting, vcenter
<1>3. CASE Halt(c)
  <2>1. CASE AfterShutdown(c, FALSE) /\ Local
    BY <1>3, <2>1, AfterShutdownGoes, AfterShutdownEarns, LocalFrame, LocalKeeps,
       OthersFailed DEF Halt, Local, AfterShutdown, Waiting, vcenter
  <2>2. CASE /\ GoTo(c, "halting")
             /\ UNCHANGED <<vm, hw, hot, task, request, awaited, plan, seen, failed, met>>
    BY <1>3, <2>2, OnwardEarns, LocalKeeps DEF Halt, Unwaits, Waiting
  <2> QED
    BY <1>3, <2>1, <2>2 DEF Halt
<1>4. CASE Halting(c)
  <2>1. vm \in seen[c]
    BY <1>4 DEF Halting, SuccessInv, WatchOf, Running
  <2> QED
    BY <1>4, <2>1, AfterShutdownGoes, AfterShutdownEarns, LocalFrame, LocalKeeps,
       OthersFailed DEF Halting, Local, AfterShutdown, Waiting, vcenter
<1>5. CASE PowerOff(c)
  <2>1. vm \in seen[c]
    BY <1>5 DEF PowerOff, SuccessInv, WatchOf, Running
  <2>2. Goes(c) /\ Earns(c)
    BY <1>5, <2>1, AfterPowerOffGoes, AfterPowerOffEarns, OnwardEarns, PanicGoes,
       FailureEarns DEF PowerOff, Local, Panic
  <2> QED
    BY <1>5, <2>2, LocalFrame, LocalKeeps, OthersFailed
       DEF PowerOff, Local, Panic, AfterPowerOff, Waiting, vcenter
<1>6. CASE Cut(c)
  <2>1. CASE Submit("power_off", c, "powering_off")
    BY <1>6, <2>1, SubmitKeeps DEF Cut
  <2>2. CASE AfterPowerOff(c, FALSE) /\ Local
    BY <1>6, <2>2, AfterPowerOffGoes, AfterPowerOffEarns, LocalFrame, LocalKeeps,
       OthersFailed DEF Cut, Local, AfterPowerOff, Waiting, vcenter
  <2> QED
    BY <1>6, <2>1, <2>2 DEF Cut
<1>7. CASE PoweringOff(c)
  <2>1. Succeeded(c) => "off" \in seen[c]
    BY <1>7 DEF PoweringOff, Succeeded, SuccessInv, WatchOf
  <2> QED
    BY <1>7, <2>1, AfterPowerOffGoes, AfterPowerOffEarns, AwaitedFrame, LocalKeeps,
       OthersFailed DEF PoweringOff, Awaited, AfterPowerOff, vcenter
<1>8. CASE PowerOn(c)
  <2>1. vm \in seen[c]
    BY <1>8 DEF PowerOn, SuccessInv, WatchOf, Running
  <2>2. Goes(c) /\ Earns(c)
    BY <1>8, <2>1, AfterPowerOnGoes, AfterPowerOnEarns, OnwardEarns, PanicGoes,
       FailureEarns DEF PowerOn, Local, Panic
  <2> QED
    BY <1>8, <2>2, LocalFrame, LocalKeeps
       DEF PowerOn, Local, Panic, AfterPowerOn, Waiting, vcenter
<1>9. CASE Boot(c)
  <2>1. CASE Submit("power_on", c, "powering_on")
    BY <1>9, <2>1, SubmitKeeps DEF Boot
  <2>2. CASE AfterPowerOn(c, FALSE) /\ Local
    BY <1>9, <2>2, AfterPowerOnGoes, AfterPowerOnEarns, LocalFrame, LocalKeeps
       DEF Boot, Local, AfterPowerOn, Waiting, vcenter
  <2> QED
    BY <1>9, <2>1, <2>2 DEF Boot
<1>10. CASE PoweringOn(c)
  <2>1. Succeeded(c) => "on" \in seen[c]
    BY <1>10 DEF PoweringOn, Succeeded, SuccessInv, WatchOf
  <2> QED
    BY <1>10, <2>1, AfterPowerOnGoes, AfterPowerOnEarns, AwaitedFrame, LocalKeeps
       DEF PoweringOn, Awaited, AfterPowerOn, vcenter
<1>11. CASE Destroy(c)
  <2>1. op[c] = "destroy" /\ pc[c] = "destroy" /\ Local
    BY <1>11 DEF Destroy, StageOK, Fits
  <2>2. CASE Ends(c, TRUE) /\ Fails(c, "lookup")
    <3>1. pc'[c] = "returned" /\ "lookup" \in failed'[c]
      BY <2>1, <2>2, Unreturned DEF Ends, Return, Fails
    <3>2. Earns(c)
      BY <2>1, <3>1 DEF Earns, BehindOf, RealOf, Succeeds, Local, request
    <3> QED
      BY <2>1, <2>2, <3>2, EndsGoes, LocalFrame, LocalKeeps, OthersFailed
         DEF Local, Waiting, vcenter
  <2>3. CASE (GoTo(c, "raze") \/ GoTo(c, "power_off")) /\ UNCHANGED failed
    <3>1. Goes(c) /\ Earns(c)
      BY <2>1, <2>3, OnwardEarns DEF Local
    <3> QED
      BY <2>1, <2>3, <3>1, LocalFrame, LocalKeeps DEF Local, Waiting, vcenter
  <2>4. CASE Panic(c)
    BY <2>1, <2>4, PanicGoes, FailureEarns, LocalFrame, LocalKeeps
       DEF Local, Panic, Waiting, vcenter
  <2> QED
    BY <1>11, <2>2, <2>3, <2>4 DEF Destroy
<1>12. CASE Raze(c)
  <2>1. CASE Submit("destroy", c, "destroying")
    BY <1>12, <2>1, SubmitKeeps DEF Raze
  <2>2. CASE Ends(c, FALSE) /\ UNCHANGED failed /\ Local
    BY <1>12, <2>2, EndsGoes, FailureEarns, LocalFrame, LocalKeeps
       DEF Raze, Ends, Local, Waiting, vcenter
  <2> QED
    BY <1>12, <2>1, <2>2 DEF Raze
<1>13. CASE Destroying(c)
  <2>1. op[c] = "destroy" /\ pc[c] = "destroying" /\ (Succeeded(c) => "absent" \in seen[c])
    BY <1>13 DEF Destroying, Succeeded, SuccessInv, WatchOf, StageOK, Fits
  <2>2. pc'[c] = "returned" /\ (result'[c] = "ok" => "absent" \in seen[c]) /\ Goes(c)
    BY <1>13, <2>1, Unreturned, EndsGoes DEF Destroying, Ends, Return
  <2>3. Earns(c)
    BY <1>13, <2>1, <2>2 DEF Destroying, Awaited, Earns, BehindOf, RealOf, Succeeds, request
  <2> QED
    BY <1>13, <2>2, <2>3, AwaitedFrame, LocalKeeps DEF Destroying, Awaited, vcenter
<1>14. CASE Measure(c)
  <2>1. /\ op[c] = "reconfigure" /\ pc[c] = "measure" /\ plan[c] = NoPlan
        /\ UNCHANGED <<vm, hw, task, request, awaited, seen, failed, met>>
    BY <1>14 DEF Measure, StageOK, Fits, SuccessInv, BehindOf, vcenter
  <2>5. MetBy(hw, want[c]) \subseteq met[c]
    BY <2>1 DEF SuccessInv, WatchOf, Running
  <2>6. plan \in [Closures -> Plans] /\ AmountsOK(want[c])
    BY AmountsOfTypes DEF TypeOK, ClosureTypeOK
  <2>2. CASE /\ Ends(c, TRUE) /\ ~CpuChanged(want[c]) /\ ~MemoryChanged(want[c])
             /\ plan' = [plan EXCEPT ![c] = [NoPlan EXCEPT !.of = hw]]
    <3>1. Goes(c) /\ pc'[c] = "returned"
      BY <2>1, <2>2, Unreturned, EndsGoes DEF Ends, Return
    <3>2. plan'[c].of = hw /\ \A d \in Closures \ {c} : plan'[d] = plan[d]
      BY <2>2, <2>6 DEF NoPlan
    <3>3. ASSUME NEW f \in Fields, want[c][f] # 0
          PROVE  f \in met[c] \/ (f = "cpu" /\ want[c].cores = hw.cores)
      BY <2>2, <2>5, <2>6, <3>3
         DEF CpuChanged, CpuGiven, MemoryChanged, AmountsOK, MetBy, Fields
    <3>4. Earns(c)
      BY <2>1, <3>1, <3>2, <3>3 DEF Earns, BehindOf, RealOf, Succeeds, Omitted, request
    <3> QED
      BY <2>1, <3>1, <3>2, <3>4, LocalKeeps DEF Unwaits, Waiting
  <2>3. CASE /\ plan' = [plan EXCEPT ![c] =
                        [stopFirst |-> StopFirst(want[c]), wasOn |-> vm = "on",
                         param |-> Change(want[c]), of |-> hw]]
             /\ GoTo(c, IF StopFirst(want[c]) THEN PowerOffFirst ELSE "configure")
    <3> DEFINE s == IF StopFirst(want[c]) THEN PowerOffFirst ELSE "configure"
    <3>1. s \in {"shutdown", "power_off", "configure"}
      BY DEF PowerOffFirst
    <3>2. GoTo(c, s)
      BY <2>3
    <3> HIDE DEF s
    <3>3. Goes(c)
      BY <2>1, <3>1, <3>2, GoToGoes DEF Fits, Pcs, Waiting
    <3>4. pc'[c] = s /\ result'[c] = "none"
      BY <2>1, <3>2, Unreturned DEF GoTo
    <3>6. /\ plan'[c].param = Change(want[c]) /\ plan'[c].of = hw
          /\ \A d \in Closures \ {c} : plan'[d] = plan[d]
      BY <2>3, <2>6
    <3>7. ASSUME NEW f \in Fields, want[c][f] # 0
          PROVE  \/ f \in met[c] \/ Change(want[c])[f] = want[c][f]
                 \/ (f = "cpu" /\ want[c].cores = hw.cores)
      BY <2>5, <2>6, <3>7
         DEF Change, CpuChanged, CpuGiven, MemoryChanged, AmountsOK, MetBy, Fields
    <3> HIDE DEF Change
    <3>5. Earns(c)
      BY <2>1, <3>1, <3>4, <3>6, <3>7
         DEF Earns, BehindOf, RealOf, Succeeds, Decided, Omitted, request
    <3> QED
      BY <2>1, <3>3, <3>5, <3>6, LocalKeeps DEF Unwaits, Waiting
  <2>4. CASE Panic(c) /\ UNCHANGED plan
    BY <2>1, <2>4, PanicGoes, FailureEarns, LocalKeeps DEF Panic, Unwaits, Waiting
  <2> QED
    BY <1>14, <2>2, <2>3, <2>4 DEF Measure
<1>15. CASE Configure(c)
  <2>1. CASE Submit("configure", c, "configuring")
    BY <1>15, <2>1, SubmitKeeps DEF Configure
  <2>2. CASE Ends(c, FALSE) /\ UNCHANGED failed /\ Local
    BY <1>15, <2>2, EndsGoes, FailureEarns, LocalFrame, LocalKeeps
       DEF Configure, Ends, Local, Waiting, vcenter
  <2> QED
    BY <1>15, <2>1, <2>2 DEF Configure
<1>16. CASE Configuring(c)
  <2>1. /\ pc[c] = "configuring" /\ Awaited(c) /\ UNCHANGED failed
        /\ Decided(c) /\ (Succeeded(c) => Applied(c))
    BY <1>16 DEF Configuring, Succeeded, SuccessInv, WatchOf, BehindOf, StageOK, Fits
  <2>2. CASE Succeeded(c) /\ AfterConfigure(c)
    BY <2>1, <2>2, AfterConfigureGoes, AfterConfigureEarns, AwaitedFrame, LocalKeeps
       DEF Awaited, vcenter
  <2>3. CASE Ends(c, FALSE)
    BY <2>1, <2>3, EndsGoes, FailureEarns, AwaitedFrame, LocalKeeps
       DEF Ends, Awaited, vcenter
  <2> QED
    BY <1>16, <2>2, <2>3 DEF Configuring
<1> QED
  BY <1>1, <1>2, <1>3, <1>4, <1>5, <1>6, <1>7, <1>8, <1>9, <1>10, <1>11, <1>12, <1>13,
     <1>14, <1>15, <1>16 DEF Step

\* SuccessInv holds throughout.
LEMMA SuccessAlways == Spec => []SuccessInv
<1>1. Init => SuccessInv
  BY DEF Init, SuccessInv, WatchOf, BehindOf, RealOf, Running, Succeeds
<1>2. TypeOK /\ StageOK /\ WantedInv /\ SuccessInv /\ [Next]_vars => SuccessInv'
  <2> SUFFICES ASSUME TypeOK, StageOK, WantedInv, SuccessInv, [Next]_vars
               PROVE  SuccessInv'
    OBVIOUS
  <2>1. ASSUME NEW c \in Closures, Step(c) PROVE SuccessInv'
    BY <2>1, StepKeeps
  <2>2. ASSUME NEW c \in Closures, TaskEnds(c) PROVE SuccessInv'
    BY <2>2, TaskEndsKeeps
  <2>3. CASE GuestStops
    BY <2>3, GuestStopsKeeps
  <2>4. CASE UNCHANGED vars
    BY <2>4 DEF vars, vcenter, request, SuccessInv, WatchOf, BehindOf, RealOf, Running,
       Succeeds, Applied, Decided, Omitted, MetBy
  <2> QED
    BY <2>1, <2>2, <2>3, <2>4 DEF Next, Idle
<1> QED
  BY <1>1, <1>2, OperatorTypeCorrect, WantedAlways, PTL DEF Spec

\* An operation that reports success has seen the machine in the state it was to
\* bring about, whatever the other closures, late tasks and the guest do, for
\* any closures, operations, requests and hot-plug settings.
THEOREM OperatorSuccess == Spec => []SuccessIsReal
<1>1. SuccessInv => SuccessIsReal
  BY DEF SuccessInv, SuccessIsReal
<1> QED
  BY <1>1, SuccessAlways, PTL

-----------------------------------------------------------------------------
(* The decision.                                                             *)

\* What is not stopped for can be done while the machine runs, save for what is
\* overlooked.
LEMMA StopCovers ==
    ASSUME TypeOK, NEW w, AmountsOK(w), AmountsOK(hw), vm = "on", ~StopFirst(w)
    PROVE  CanTake(hw, Change(w)) \/ Overlooked(hw, Change(w))
<1> DEFINE n == Change(w)
<1>0. /\ hot.addCpu \in Settings /\ hot.removeCpu \in Settings
      /\ hot.addMemory \in Settings
  BY OperatorAssumption DEF TypeOK, MachineTypeOK
<1>1. /\ n.cpu = IF CpuChanged(w) /\ w.cpu # hw.cpu THEN w.cpu ELSE 0
      /\ n.cores = IF CpuChanged(w) THEN w.cores ELSE 0
      /\ n.memory = IF MemoryChanged(w) THEN w.memory ELSE 0
  BY DEF Change
<1> HIDE DEF n
<1>2. n.cpu > hw.cpu => hot.addCpu # "disabled"
  BY <1>1 DEF StopFirst, CpuChanged, AmountsOK
<1>3. n.cpu # 0 /\ n.cpu < hw.cpu => hot.removeCpu # "disabled"
  BY <1>1 DEF StopFirst, CpuChanged, AmountsOK
<1>4. n.memory > hw.memory => hot.addMemory # "disabled"
  BY <1>1 DEF StopFirst, AmountsOK
<1>5. n.memory # 0 => n.memory >= hw.memory
  BY <1>1 DEF StopFirst, AmountsOK, MemoryChanged
<1> QED
  BY <1>0, <1>2, <1>3, <1>4, <1>5 DEF CanTake, Overlooked, Settings, n

\* What is stopped for cannot, save for processors that are left out.
LEMMA StopNeeded ==
    ASSUME NEW w, AmountsOK(w), AmountsOK(hw), StopFirst(w)
    PROVE  \/ ~CanTake(hw, Change(w))
           \/ w.cores = hw.cores /\ w.cpu # hw.cpu
<1> DEFINE n == Change(w)
<1>1. /\ n.cpu = IF CpuChanged(w) /\ w.cpu # hw.cpu THEN w.cpu ELSE 0
      /\ n.cores = IF CpuChanged(w) THEN w.cores ELSE 0
      /\ n.memory = IF MemoryChanged(w) THEN w.memory ELSE 0
  BY DEF Change
<1> HIDE DEF n
<1>2. CASE MemoryChanged(w) /\ w.memory > hw.memory /\ hot.addMemory = "disabled"
  BY <1>1, <1>2 DEF CanTake, n
<1>3. CASE MemoryChanged(w) /\ w.memory < hw.memory
  <2>1. n.memory = w.memory /\ n.memory # 0 /\ ~(n.memory >= hw.memory)
    BY <1>1, <1>3 DEF MemoryChanged, AmountsOK
  <2> QED  BY <2>1 DEF CanTake, n
<1>4. CASE CpuGiven(w) /\ w.cpu > hw.cpu /\ hot.addCpu = "disabled"
  <2>1. w.cpu # hw.cpu /\ (w.cores # hw.cores => n.cpu = w.cpu)
    BY <1>1, <1>4 DEF CpuChanged, AmountsOK
  <2> QED  BY <1>4, <2>1 DEF CanTake, n
<1>5. CASE CpuGiven(w) /\ w.cpu < hw.cpu /\ hot.removeCpu = "disabled"
  <2>1. w.cpu # hw.cpu
    BY <1>5 DEF AmountsOK
  <2>2. ASSUME w.cores # hw.cores, w.cpu # 0 PROVE ~CanTake(hw, n)
    <3>1. n.cpu = w.cpu
      BY <1>1, <1>5, <2>1, <2>2 DEF CpuChanged
    <3> QED  BY <1>5, <2>2, <3>1 DEF CanTake
  <2>3. ASSUME w.cores # hw.cores, w.cpu = 0 PROVE ~CanTake(hw, n)
    <3>1. n.cores = w.cores /\ w.cores # 0
      BY <1>1, <1>5, <2>3 DEF CpuChanged, CpuGiven, AmountsOK
    <3> QED  BY <2>3, <3>1 DEF CanTake
  <2> QED  BY <2>1, <2>2, <2>3 DEF n
<1> QED
  BY <1>2, <1>3, <1>4, <1>5 DEF StopFirst

LEMMA PlanField ==
    ASSUME NEW x, NEW f, NEW w, NEW p, NEW o,
           x = [stopFirst |-> f, wasOn |-> w, param |-> p, of |-> o], x.stopFirst
    PROVE  f
  OBVIOUS

-----------------------------------------------------------------------------
(* Stops are warranted.                                                      *)

\* A reconfiguration stops the machine only for a change that the machine does
\* not take while it runs, save for a number of processors that is
\* left out beside the cores there are (virtual_machine_reconfig.go, the comparison of the request with
\* the hardware).
THEOREM StopsWarranted == Spec => []StopsAreWarranted
<1>1. Init => StopsAreWarranted
  BY DEF Init, StopsAreWarranted, NoPlan
<1>2. TypeOK /\ StopsAreWarranted /\ [Next]_vars => StopsAreWarranted'
  <2> SUFFICES ASSUME TypeOK, StopsAreWarranted, [Next]_vars, NEW c \in Closures,
                      plan'[c].stopFirst
               PROVE  \/ ~CanTake(plan[c].of, plan[c].param)'
                      \/ Omitted(c, "cpu")' /\ want'[c].cpu # plan'[c].of.cpu
    BY DEF StopsAreWarranted
  <2>1. CASE plan'[c] = plan[c]
    <3>1. \/ ~CanTake(plan[c].of, plan[c].param)
          \/ Omitted(c, "cpu") /\ want[c].cpu # plan[c].of.cpu
      BY <2>1 DEF StopsAreWarranted
    <3>2. UNCHANGED <<hot, want>>
      BY PlanMade
    <3> QED  BY <2>1, <3>1, <3>2 DEF CanTake, Omitted
  <2>2. CASE plan'[c] # plan[c]
    <3>0. plan'[c] = [stopFirst |-> StopFirst(want[c]), wasOn |-> vm = "on",
                      param |-> Change(want[c]), of |-> hw]
      <4>1. plan'[c] # [NoPlan EXCEPT !.of = hw]
        BY DEF NoPlan
      <4> QED
        BY <2>2, <4>1, PlanMade
    <3>1. StopFirst(want[c]) /\ plan'[c].param = Change(want[c]) /\ plan'[c].of = hw
      <4>1. plan'[c].param = Change(want[c]) /\ plan'[c].of = hw
        BY <3>0
      <4>2. StopFirst(want[c])
        BY <3>0, PlanField
      <4> QED  BY <4>1, <4>2
    <3>2. \/ ~CanTake(hw, Change(want[c]))
          \/ want[c].cores = hw.cores /\ want[c].cpu # hw.cpu
      BY <3>1, StopNeeded, AmountsOfTypes
    <3>3. UNCHANGED <<hot, want>>
      BY PlanMade
    <3> HIDE DEF Change
    <3> QED  BY <3>1, <3>2, <3>3 DEF CanTake, Omitted
  <2> QED  BY <2>1, <2>2
<1> QED
  BY <1>1, <1>2, OperatorTypeCorrect, PTL DEF Spec

-----------------------------------------------------------------------------
(* Stops suffice.                                                            *)

\* A closure that disturbs goes on disturbing.
LEMMA StaysDisturbed ==
    ASSUME NEW c \in Closures, UNCHANGED op, NEW d \in Closures,
           \A e \in Closures \ {d} : pc'[e] = pc[e], pc'[d] = pc[d] \/ pc'[d] # "idle",
           Undisturbed(c)'
    PROVE  Undisturbed(c)
  BY DEF Undisturbed

\* A step in which nothing happens in vCenter.
LEMMA GoesReady ==
    ASSUME TypeOK, StageOK, StopInv, NEW c \in Closures, Goes(c),
           UNCHANGED <<vcenter, request>>, pc[c] # "returned",
           \A d \in Closures \ {c} : plan'[d] = plan[d] /\ awaited'[d] = awaited[d],
           pc'[c] = "configure" /\ Undisturbed(c) /\ vm = "on" => Ready(c)',
           pc[c] \in {"configuring", "power_on", "boot", "powering_on"} =>
               pc'[c] \in {"power_on", "boot", "returned"},
           pc[c] = "powering_on" => pc'[c] = "returned"
    PROVE  StopInv'
<1>1. PICK s \in Pcs \ (Waiting \cup {"idle"}) : pc' = [pc EXCEPT ![c] = s]
  BY DEF Goes
<1>2. /\ pc'[c] = s /\ s # "idle" /\ s # "powering_off"
      /\ \A d \in Closures \ {c} : pc'[d] = pc[d]
  BY <1>1 DEF TypeOK, ClosureTypeOK, Waiting
<1>3. UNCHANGED <<vm, hw, hot, task, op>>
  BY DEF vcenter, request
<1>4. TaskOK'
  <2>1. CASE task.by = c
    BY <1>2, <1>3, <2>1 DEF StopInv, TaskOK
  <2>2. CASE task.by # c
    <3>1. task # NoTask => task.by \in Closures
      BY DEF TypeOK, MachineTypeOK
    <3>2. task = NoTask => task.job = "none"
      BY DEF NoTask
    <3> QED  BY <1>2, <1>3, <2>2, <3>1, <3>2 DEF StopInv, TaskOK
  <2> QED  BY <2>1, <2>2
<1>5. ASSUME NEW d \in Closures, Undisturbed(d)'
      PROVE  /\ pc'[d] = "configure" /\ vm' = "on" => Ready(d)'
             /\ pc'[d] = "powering_off" /\ awaited'[d] = "done" => vm' # "on"
  <2>1. Undisturbed(d)
    BY <1>2, <1>3, <1>5, StaysDisturbed
  <2>2. CASE d = c
    BY <1>2, <1>3, <2>1, <2>2 DEF Ready, CanTake, Overlooked
  <2>3. CASE d # c
    BY <1>2, <1>3, <2>1, <2>3 DEF StopInv, ReadyOf, Ready, CanTake, Overlooked
  <2> QED  BY <2>2, <2>3
<1> QED
  BY <1>4, <1>5 DEF StopInv, ReadyOf

LEMMA SubmitReady ==
    ASSUME TypeOK, StageOK, StopInv, NEW c \in Closures, NEW job, NEW s, Submit(job, c, s),
           \/ pc[c] = "boot" /\ s = "powering_on" /\ job = "power_on"
           \/ pc[c] = "cut" /\ s = "powering_off" /\ job = "power_off"
           \/ pc[c] = "raze" /\ s = "destroying" /\ job = "destroy"
           \/ pc[c] = "configure" /\ s = "configuring" /\ job = "configure"
    PROVE  StopInv'
<1>1. /\ pc' = [pc EXCEPT ![c] = s] /\ awaited' = [awaited EXCEPT ![c] = "running"]
      /\ task'.job = job /\ task'.by = c
      /\ UNCHANGED <<vm, hw, hot, op, plan>>
  BY DEF Submit, GoTo, request
<1>2. /\ pc'[c] = s /\ awaited'[c] = "running" /\ s # "idle" /\ s # "configure"
      /\ \A d \in Closures \ {c} : pc'[d] = pc[d] /\ awaited'[d] = awaited[d]
  BY <1>1 DEF TypeOK, ClosureTypeOK
<1>3. TaskOK'
  BY <1>1, <1>2 DEF TaskOK, StageOK, Fits
<1>4. ASSUME NEW d \in Closures, Undisturbed(d)'
      PROVE  /\ pc'[d] = "configure" /\ vm' = "on" => Ready(d)'
             /\ pc'[d] = "powering_off" /\ awaited'[d] = "done" => vm' # "on"
  <2>1. Undisturbed(d)
    BY <1>1, <1>2, <1>4, StaysDisturbed
  <2> QED  BY <1>1, <1>2, <2>1 DEF StopInv, ReadyOf, Ready, CanTake, Overlooked
<1> QED
  BY <1>3, <1>4 DEF StopInv, ReadyOf

\* A reconfiguration comes to its change from a stop that worked.
LEMMA AfterStop ==
    ASSUME TypeOK, StageOK, NEW c \in Closures, NEW ok \in BOOLEAN,
           pc'[c] = "configure",
           \/ pc[c] \in {"shutdown", "halt", "halting"} /\ AfterShutdown(c, ok)
           \/ pc[c] \in {"power_off", "cut", "powering_off"} /\ AfterPowerOff(c, ok)
    PROVE  ok
<1> USE DEF TypeOK, ClosureTypeOK, Ends, Return, GoTo
<1>1. ASSUME pc[c] \in {"shutdown", "halt", "halting"}, AfterShutdown(c, ok), ok = FALSE
      PROVE  FALSE
  <2>1. op[c] \in {"power_off", "shutdown", "restart", "reconfigure"}
    BY <1>1 DEF StageOK, Fits
  <2> QED  BY <1>1, <2>1 DEF AfterShutdown
<1>2. ASSUME pc[c] \in {"power_off", "cut", "powering_off"}, AfterPowerOff(c, ok), ok = FALSE
      PROVE  FALSE
  <2>1. op[c] \in {"power_off", "restart", "reconfigure", "destroy"}
    BY <1>2 DEF StageOK, Fits
  <2> QED  BY <1>2, <2>1 DEF AfterPowerOff
<1> QED
  BY <1>1, <1>2

LEMMA EndsReturn ==
    ASSUME TypeOK, NEW c \in Closures, NEW r, Return(c, r)
    PROVE  pc'[c] = "returned"
  BY DEF Return, TypeOK, ClosureTypeOK

\* The steps of the helpers that stop the machine.
LEMMA StoppingReady ==
    ASSUME TypeOK, StageOK, StopInv, NEW c \in Closures,
           Shutdown(c) \/ Halt(c) \/ Halting(c) \/ PowerOff(c) \/ Cut(c) \/ PoweringOff(c)
    PROVE  StopInv'
<1> USE DEF Local, Awaited
<1>0. awaited \in [Closures -> {"none", "running", "done", "failed"}]
  BY DEF TypeOK, ClosureTypeOK
<1>1. ASSUME NEW ok \in BOOLEAN, pc[c] \in {"shutdown", "halt", "halting"},
             AfterShutdown(c, ok), Local, ok => vm = "off"
      PROVE  StopInv'
  <2>1. Goes(c)
    BY <1>1, AfterShutdownGoes
  <2>2. pc'[c] = "configure" => vm # "on"
    BY <1>1, AfterStop
  <2> QED  BY <1>1, <2>1, <2>2, GoesReady
<1>2. ASSUME NEW ok \in BOOLEAN, pc[c] \in {"power_off", "cut", "powering_off"},
             AfterPowerOff(c, ok), Local \/ Awaited(c),
             ok /\ Undisturbed(c) /\ op[c] = "reconfigure" => vm # "on"
      PROVE  StopInv'
  <2>1. Goes(c)
    BY <1>2, AfterPowerOffGoes
  <2>2. pc'[c] = "configure" => op[c] = "reconfigure"
    <3>1. UNCHANGED op
      BY <1>2 DEF request
    <3>2. op[c] = "power_off" => pc'[c] = "returned"
      BY <1>2, EndsReturn DEF AfterPowerOff, Ends
    <3>3. op[c] = "restart" => pc'[c] = "power_on"
      BY <1>2 DEF AfterPowerOff, GoTo, TypeOK, ClosureTypeOK
    <3>4. op[c] = "destroy" => pc'[c] \in {"raze", "returned"}
      BY <1>2, EndsReturn DEF AfterPowerOff, GoTo, Ends, TypeOK, ClosureTypeOK
    <3> QED  BY <1>2, <3>2, <3>3, <3>4 DEF StageOK, Fits
  <2>3. pc'[c] = "configure" /\ Undisturbed(c) => vm # "on"
    BY <1>2, <2>2, AfterStop
  <2> QED  BY <1>0, <1>2, <2>1, <2>3, GoesReady
<1>3. ASSUME NEW s \in {"halt", "halting", "cut"}, GoTo(c, s), Fits(s, op[c]),
             pc[c] \in {"shutdown", "halt", "power_off"},
             Local
      PROVE  StopInv'
  <2>1. Goes(c)
    BY <1>3, GoToGoes DEF Pcs, Waiting
  <2>2. pc'[c] = s
    BY <1>3 DEF GoTo, TypeOK, ClosureTypeOK
  <2> QED  BY <1>3, <2>1, <2>2, GoesReady
<1>4. ASSUME Panic(c), Local, pc[c] \in {"shutdown", "power_off"} PROVE StopInv'
  <2>1. Goes(c) /\ pc'[c] = "returned"
    BY <1>4, PanicGoes, EndsReturn DEF Panic
  <2> QED  BY <1>4, <2>1, GoesReady
<1>5. CASE Shutdown(c)
  BY <1>1, <1>3, <1>4, <1>5 DEF Shutdown, StageOK, Fits
<1>6. CASE Halting(c)
  BY <1>1, <1>6 DEF Halting
<1>7. CASE PowerOff(c)
  BY <1>2, <1>3, <1>4, <1>7 DEF PowerOff, StageOK, Fits
<1>8. CASE Cut(c)
  BY <1>2, <1>8, SubmitReady DEF Cut
<1>9. CASE PoweringOff(c)
  BY <1>2, <1>9 DEF PoweringOff, Succeeded, StopInv, ReadyOf
<1>10. CASE Halt(c)
  <2>1. CASE AfterShutdown(c, FALSE) /\ Local
    BY <1>1, <1>10, <2>1 DEF Halt
  <2>2. CASE /\ GoTo(c, "halting") /\ pc[c] = "halt"
             /\ UNCHANGED <<vm, hw, hot, task, request, awaited, plan>>
    <3>1. /\ pc'[c] = "halting" /\ \A d \in Closures \ {c} : pc'[d] = pc[d]
          /\ UNCHANGED <<vm, hw, hot, task, op, awaited, plan>>
      BY <2>2 DEF GoTo, TypeOK, ClosureTypeOK, request
    <3>2. TaskOK'
      <4>1. task = NoTask => task.job = "none"
        BY DEF NoTask
      <4>2. task # NoTask => task.by \in Closures
        BY DEF TypeOK, MachineTypeOK
      <4> QED  BY <2>2, <3>1, <4>1, <4>2 DEF StopInv, TaskOK
    <3>3. ASSUME NEW d \in Closures, Undisturbed(d)'
          PROVE  /\ pc'[d] = "configure" /\ vm' = "on" => Ready(d)'
                 /\ pc'[d] = "powering_off" /\ awaited'[d] = "done" => vm' # "on"
      <4>1. Undisturbed(d)
        BY <3>1, <3>3, StaysDisturbed
      <4> QED  BY <3>1, <4>1 DEF StopInv, ReadyOf, Ready, CanTake, Overlooked
    <3> QED  BY <3>2, <3>3 DEF StopInv, ReadyOf
  <2> QED  BY <1>10, <2>1, <2>2 DEF Halt
<1> QED
  BY <1>5, <1>6, <1>7, <1>8, <1>9, <1>10

\* The steps of the helpers that start the machine or destroy it.
LEMMA StartingReady ==
    ASSUME TypeOK, StageOK, StopInv, NEW c \in Closures,
           PowerOn(c) \/ Boot(c) \/ PoweringOn(c) \/ Destroy(c) \/ Raze(c) \/ Destroying(c)
    PROVE  StopInv'
<1> USE DEF Local, Awaited
<1>0. awaited \in [Closures -> {"none", "running", "done", "failed"}]
  BY DEF TypeOK, ClosureTypeOK
<1>1. ASSUME Goes(c), pc[c] # "returned", pc'[c] = "returned", Local \/ Awaited(c)
      PROVE  StopInv'
  BY <1>0, <1>1, GoesReady
<1>2. ASSUME NEW ok \in BOOLEAN, Ends(c, ok), pc[c] # "returned", Local \/ Awaited(c)
      PROVE  StopInv'
  BY <1>1, <1>2, EndsGoes, EndsReturn DEF Ends
<1>3. ASSUME NEW s \in {"boot", "raze", "power_off"}, GoTo(c, s), Fits(s, op[c]), Local,
             (s = "boot" /\ pc[c] = "power_on") \/ pc[c] = "destroy"
      PROVE  StopInv'
  <2>1. Goes(c)
    BY <1>3, GoToGoes DEF Pcs, Waiting
  <2>2. pc'[c] = s
    BY <1>3 DEF GoTo, TypeOK, ClosureTypeOK
  <2> QED  BY <1>3, <2>1, <2>2, GoesReady
<1>4. ASSUME Panic(c), Local, pc[c] # "returned" PROVE StopInv'
  BY <1>1, <1>4, PanicGoes, EndsReturn DEF Panic
<1>5. CASE PowerOn(c)
  BY <1>2, <1>3, <1>4, <1>5 DEF PowerOn, AfterPowerOn, StageOK, Fits
<1>6. CASE Boot(c)
  BY <1>2, <1>6, SubmitReady DEF Boot, AfterPowerOn
<1>7. CASE PoweringOn(c)
  BY <1>2, <1>7 DEF PoweringOn, AfterPowerOn
<1>8. CASE Destroy(c)
  BY <1>2, <1>3, <1>4, <1>8 DEF Destroy, StageOK, Fits
<1>9. CASE Raze(c)
  BY <1>2, <1>9, SubmitReady DEF Raze
<1>10. CASE Destroying(c)
  BY <1>2, <1>10 DEF Destroying
<1> QED
  BY <1>5, <1>6, <1>7, <1>8, <1>9, <1>10

\* The steps of Reconfigure, and the first step of each operation.
LEMMA ReconfigureReady ==
    ASSUME TypeOK, StageOK, StopInv, NEW c \in Closures,
           Start(c) \/ Measure(c) \/ Configure(c) \/ Configuring(c)
    PROVE  StopInv'
<1>0. awaited \in [Closures -> {"none", "running", "done", "failed"}]
      /\ plan \in [Closures -> Plans]
  BY DEF TypeOK, ClosureTypeOK
<1>1. ASSUME Goes(c), pc[c] # "returned", pc'[c] = "returned", Local \/ Awaited(c)
      PROVE  StopInv'
  BY <1>0, <1>1, GoesReady DEF Local, Awaited
<1>2. CASE Start(c)
  <2>1. op[c] \in AllOperations
    BY OperatorAssumption DEF TypeOK, ClosureTypeOK
  <2>2. PICK s \in {"shutdown", "power_off", "measure", "power_on", "destroy"} :
             GoTo(c, s) /\ Fits(s, op[c])
    BY <1>2, <2>1 DEF Start, AllOperations, PowerOffFirst, Fits
  <2>3. Goes(c) /\ pc'[c] = s
    <3>1. s \in Pcs \ (Waiting \cup {"idle", "returned"})
      BY DEF Pcs, Waiting
    <3> QED  BY <1>2, <2>2, <3>1, GoToGoes DEF Start, GoTo, TypeOK, ClosureTypeOK
  <2> QED  BY <1>2, <2>3, GoesReady DEF Start
<1>3. CASE Measure(c)
  <2>1. CASE Ends(c, TRUE) /\ plan' = [plan EXCEPT ![c] = [NoPlan EXCEPT !.of = hw]]
    <3>1. \A d \in Closures \ {c} : plan'[d] = plan[d]
      BY <1>0, <2>1
    <3> QED
      BY <1>3, <2>1, <3>1, EndsGoes, EndsReturn, GoesReady DEF Measure, Ends
  <2>2. CASE Panic(c) /\ UNCHANGED plan
    BY <1>3, <2>2, PanicGoes, EndsReturn, GoesReady DEF Measure, Panic
  <2>3. CASE /\ plan' = [plan EXCEPT ![c] =
                           [stopFirst |-> StopFirst(want[c]), wasOn |-> vm = "on",
                            param |-> Change(want[c]), of |-> hw]]
             /\ GoTo(c, IF StopFirst(want[c]) THEN PowerOffFirst ELSE "configure")
    <3>1. PICK s \in {"shutdown", "power_off", "configure"} :
               GoTo(c, s) /\ (s = "configure" => ~StopFirst(want[c]))
      BY <2>3 DEF PowerOffFirst
    <3>2. op[c] = "reconfigure" /\ pc[c] = "measure"
      BY <1>3 DEF Measure, StageOK, Fits
    <3>3. Goes(c) /\ pc'[c] = s
      <4>1. Fits(s, op[c]) /\ s \in Pcs \ (Waiting \cup {"idle", "returned"})
        BY <3>2 DEF Fits, Pcs, Waiting
      <4> QED  BY <3>1, <3>2, <4>1, GoToGoes DEF GoTo, TypeOK, ClosureTypeOK
    <3>4. plan'[c].param = Change(want[c]) /\ plan'[c].of = hw
      BY <1>0, <2>3
    <3>8. UNCHANGED <<hw, hot>>
      BY <1>3 DEF Measure, vcenter
    <3>9. pc'[c] = "configure" /\ vm = "on"
            => CanTake(hw, Change(want[c])) \/ Overlooked(hw, Change(want[c]))
      BY <3>1, <3>3, StopCovers, AmountsOfTypes
    <3> HIDE DEF Change
    <3>5. pc'[c] = "configure" /\ vm = "on" => Ready(c)'
      BY <3>4, <3>8, <3>9 DEF Ready, CanTake, Overlooked
    <3>6. \A d \in Closures \ {c} : plan'[d] = plan[d]
      BY <1>0, <2>3
    <3>7. UNCHANGED <<vcenter, request, awaited>>
      BY <1>3 DEF Measure
    <3> QED  BY <3>2, <3>3, <3>4, <3>5, <3>6, <3>7, GoesReady
  <2> QED  BY <1>3, <2>1, <2>2, <2>3 DEF Measure
<1>4. CASE Configure(c)
  <2>1. CASE Ends(c, FALSE) /\ Local
    BY <1>1, <1>4, <2>1, EndsGoes, EndsReturn DEF Configure, Ends
  <2> QED  BY <1>4, <2>1, SubmitReady DEF Configure
<1>5. CASE Configuring(c)
  <2>1. CASE Ends(c, TRUE) \/ Ends(c, FALSE)
    BY <1>1, <1>5, <2>1, EndsGoes, EndsReturn DEF Configuring, Ends
  <2>2. CASE AfterConfigure(c) /\ GoTo(c, "power_on")
    <3>1. Goes(c) /\ pc'[c] = "power_on"
      BY <1>5, <2>2, AfterConfigureGoes DEF Configuring, GoTo, TypeOK, ClosureTypeOK
    <3> QED  BY <1>0, <1>5, <3>1, GoesReady DEF Configuring, Awaited
  <2> QED  BY <1>5, <2>1, <2>2 DEF Configuring, AfterConfigure
<1> QED
  BY <1>2, <1>3, <1>4, <1>5

\* A late task of c does not start the machine under an undisturbed change.
LEMMA TaskEndsReady ==
    ASSUME TypeOK, StageOK, SuccessInv, StopInv, NEW c \in Closures, TaskEnds(c)
    PROVE  StopInv'
<1>1. /\ task.by = c /\ task.job \in Jobs /\ task' = NoTask
      /\ UNCHANGED <<hot, op, pc, plan>>
  BY DEF TaskEnds, request, TypeOK, MachineTypeOK
<1>2. TaskOK'
  BY <1>1 DEF TaskOK, NoTask
<1>3. ASSUME NEW d \in Closures, Undisturbed(d)
      PROVE  /\ pc[d] = "configure" /\ vm' = "on" => Ready(d)'
             /\ pc[d] = "powering_off" /\ awaited'[d] = "done" => vm' # "on"
  <2>1. ASSUME pc[d] \in {"configure", "powering_off"}
        PROVE  task.job \notin {"power_on", "configure"}
    <3>1. CASE c = d
      BY <1>1, <2>1, <3>1 DEF StopInv, TaskOK
    <3>2. CASE c # d
      BY <1>1, <1>3, <3>2 DEF StopInv, TaskOK, Undisturbed
    <3> QED  BY <3>1, <3>2
  <2>2. ASSUME pc[d] \in {"configure", "powering_off"}
        PROVE  (vm' = vm \/ vm' # "on") /\ hw' = hw
    BY <1>1, <2>1, <2>2 DEF TaskEnds, Effect, Becomes, Jobs
  <2>3. awaited'[d] = "done" => \/ awaited[d] = "done"
                                \/ d = c /\ awaited[d] = "running" /\ Effect(task.job, c)
    BY <1>1 DEF TaskEnds, TypeOK, ClosureTypeOK
  <2>4. pc[d] = "powering_off" /\ awaited[d] = "running" /\ d = c /\ Effect(task.job, c)
          => vm' # "on"
    BY DEF SuccessInv, WatchOf, Effect, Becomes
  <2>5. ASSUME pc[d] = "configure", vm' = "on" PROVE Ready(d)'
    BY <1>1, <1>3, <2>2, <2>5 DEF StopInv, ReadyOf, Ready, CanTake, Overlooked
  <2> QED  BY <1>3, <2>2, <2>3, <2>4, <2>5 DEF StopInv, ReadyOf
<1> QED
  BY <1>1, <1>2, <1>3 DEF StopInv, ReadyOf, Undisturbed, Ready, CanTake, Overlooked

LEMMA StopInductive ==
    TypeOK /\ StageOK /\ SuccessInv /\ StopInv /\ [Next]_vars => StopInv'
<1> SUFFICES ASSUME TypeOK, StageOK, SuccessInv, StopInv, [Next]_vars PROVE StopInv'
  OBVIOUS
<1>1. ASSUME NEW c \in Closures, Step(c) PROVE StopInv'
  BY <1>1, StoppingReady, StartingReady, ReconfigureReady DEF Step
<1>2. ASSUME NEW c \in Closures, TaskEnds(c) PROVE StopInv'
  BY <1>2, TaskEndsReady
<1>3. CASE GuestStops
  <2>1. vm' = "off" /\ UNCHANGED <<hw, hot, task, op, pc, awaited, plan>>
    BY <1>3 DEF GuestStops, Becomes, request
  <2> QED  BY <2>1 DEF StopInv, TaskOK, ReadyOf, Undisturbed
<1>4. CASE UNCHANGED vars
  BY <1>4 DEF vars, vcenter, request, StopInv, TaskOK, ReadyOf, Undisturbed, Ready, CanTake, Overlooked
<1> QED
  BY <1>1, <1>2, <1>3, <1>4 DEF Next, Idle

\* A reconfiguration that has come to its change can make it, however long its
\* own stop took and whatever late tasks and the guest did, unless another
\* closure could start the machine or change its hardware
\* (Reconfigure, virtual_machine_operator.go:119).
THEOREM StopsEnough == Spec => []StopSuffices
<1>1. Init => StopInv
  BY DEF Init, StopInv, TaskOK, ReadyOf, NoTask
<1>2. TypeOK /\ StopInv => StopSuffices
  BY DEF StopInv, ReadyOf, Ready, Undisturbed, StopSuffices
<1> QED
  BY <1>1, <1>2, OperatorTypeCorrect, SuccessAlways, StopInductive, PTL DEF Spec

-----------------------------------------------------------------------------
(* What changes of the hardware.                                             *)

\* The hardware changes by the task of a reconfiguration, and by no other step.
LEMMA HardwareStep ==
    ASSUME TypeOK, [Next]_vars, hw' # hw
    PROVE  \E c \in Closures :
              /\ task # NoTask /\ task.by = c
              /\ hw' = Changed(hw, plan[c].param)
<1> USE DEF vcenter, request, Local, Awaited, Submit
<1>1. ASSUME NEW d \in Closures, Step(d)
      PROVE  UNCHANGED hw
  BY <1>1 DEF Step, Start, Shutdown, Halt, Halting, PowerOff, Cut, PoweringOff, PowerOn,
              Boot, PoweringOn, Destroy, Raze, Destroying, Measure, Configure, Configuring
<1>2. ASSUME GuestStops \/ Idle \/ UNCHANGED vars
      PROVE  UNCHANGED hw
  BY <1>2 DEF GuestStops, Idle, vars
<1>3. PICK c \in Closures : TaskEnds(c)
  BY <1>1, <1>2 DEF Next
<1> QED
  BY <1>3 DEF TaskEnds, Effect, Rebuilt

\* A reconfiguration changes what its request names and nothing else: it does not
\* write back what it read before another closure changed the hardware.
THEOREM NothingElse == Spec => OnlyWantedChanges
<1>1. TypeOK /\ WantedInv /\ [Next]_vars =>
        [\A f \in DOMAIN hw :
            hw'[f] # hw[f] =>
                /\ task # NoTask
                /\ hw'[f] = want[task.by][f]]_vars
  <2> SUFFICES ASSUME TypeOK, WantedInv, [Next]_vars, NEW f \in DOMAIN hw, hw'[f] # hw[f]
               PROVE  task # NoTask /\ hw'[f] = want[task.by][f]
    OBVIOUS
  <2>1. PICK c \in Closures :
          /\ task # NoTask /\ task.by = c
          /\ hw' = Changed(hw, plan[c].param)
    BY HardwareStep
  <2>2. hw \in Amounts
    BY DEF TypeOK, MachineTypeOK
  <2>3. f \in {"cpu", "cores", "memory"}
    BY <2>2 DEF Amounts
  <2>4. SentOf(c)
    BY DEF WantedInv
  <2>5. CASE f = "cpu"
    BY <2>1, <2>2, <2>4, <2>5, ChangedField DEF SentOf
  <2>6. CASE f = "cores"
    BY <2>1, <2>2, <2>4, <2>6, ChangedField DEF SentOf
  <2>7. CASE f = "memory"
    BY <2>1, <2>2, <2>4, <2>7, ChangedField DEF SentOf
  <2> QED
    BY <2>3, <2>5, <2>6, <2>7
<1> QED
  BY <1>1, WantedAlways, OperatorTypeCorrect, PTL DEF Spec, OnlyWantedChanges
=============================================================================
