--------------------------- MODULE DeployerProofs ---------------------------
(***************************************************************************)
(* What a deployment promises, proved of every request: the types, what    *)
(* success and failure mean, and that the first boot finds the machine     *)
(* configured.                                                             *)
(***************************************************************************)
EXTENDS Deployer, TLAPS

\* Deploy's steps and the end of a task keep to the types.
LEMMA TypeInit == Init => TypeOK
  BY DEF Init, TypeOK, Parameters, Steps, Waiting, Jobs, Failures

LEMMA TypeStep == TypeOK /\ [Next]_vars => TypeOK'
<1> SUFFICES ASSUME TypeOK, [Next]_vars PROVE TypeOK'
  OBVIOUS
<1> USE DEF TypeOK, Steps, Waiting, Jobs, Failures, calling, machine
<1>1. CASE Clone
  BY <1>1 DEF Clone, Submit, GoOn, Return, Panic, Local
<1>2. CASE Cloning
  BY <1>2 DEF Cloning, Succeeded, TimedOut, Awaited, GoOn, Return, Panic
<1>3. CASE NewVM
  BY <1>3 DEF NewVM, GoOn, Return
<1>4. CASE Reconfigure
  BY <1>4 DEF Reconfigure, Submit, GoOn, RollBack, Panic, Return, Local
<1>5. CASE Reconfiguring
  BY <1>5 DEF Reconfiguring, Succeeded, Failed, Awaited, GoOn, RollBack
<1>6. CASE WriteBack
  BY <1>6 DEF WriteBack, GoOn, Panic, Return, Local
<1>7. CASE Customize
  BY <1>7 DEF Customize, GoOn, Submit, RollBack, Panic, Return, Local
<1>8. CASE Customizing
  BY <1>8 DEF Customizing, Succeeded, Failed, Awaited, GoOn, RollBack
<1>9. CASE PowerOn
  BY <1>9 DEF PowerOn, GoOn, Submit, Return, Panic, Local
<1>10. CASE PoweringOn
  BY <1>10 DEF PoweringOn, Succeeded, Failed, Awaited, GoOn, Return
<1>11. CASE WaitIP
  BY <1>11 DEF WaitIP, GoOn, Done, RollBack, Local
<1>12. CASE WaitNet
  BY <1>12 DEF WaitNet, Done, RollBack, Local
<1>13. CASE DestroyLookUp
  BY <1>13 DEF DestroyLookUp, GoOn, Return, Panic, Local
<1>14. CASE PowerOff
  BY <1>14 DEF PowerOff, Submit, GoOn, Return, Panic, Local
<1>15. CASE PoweringOff
  BY <1>15 DEF PoweringOff, Succeeded, Failed, Awaited, GoOn, Return
<1>16. CASE Destroy
  BY <1>16 DEF Destroy, Submit, GoOn, Return, Local
<1>17. CASE Destroying
  BY <1>17 DEF Destroying, Succeeded, Failed, Awaited, Return, RolledBack
<1>18. CASE TaskEnds
  BY <1>18 DEF TaskEnds, Effect, Configured
<1>19. CASE UNCHANGED vars
  BY <1>19 DEF vars
<1>. QED
  BY <1>1, <1>2, <1>3, <1>4, <1>5, <1>6, <1>7, <1>8, <1>9, <1>10, <1>11, <1>12, <1>13, <1>14, <1>15, <1>16, <1>17, <1>18, <1>19 DEF Next, DeployStep, Returned

-----------------------------------------------------------------------------
(* The inductive invariant.                                                *)

LEMMA InvInit == Init => DeployerInv
  BY DEF Init, DeployerInv, Creating, Preparing, Undoing, Outcomes, StartsReady

\* No step of Deploy touches the request or the machine.
LEMMA StepsLeaveMachine ==
  ASSUME DeployStep PROVE UNCHANGED <<p, machine>> /\ (HardwareSet' <=> HardwareSet)
<1>. SUFFICES UNCHANGED <<p, machine>>
  BY DEF HardwareSet, Configured, machine
<1>1. CASE Clone
  BY <1>1 DEF Clone, Awaited, Local
<1>2. CASE Cloning
  BY <1>2 DEF Cloning, Awaited, Local
<1>3. CASE NewVM
  BY <1>3 DEF NewVM, Awaited, Local
<1>4. CASE Reconfigure
  BY <1>4 DEF Reconfigure, Awaited, Local
<1>5. CASE Reconfiguring
  BY <1>5 DEF Reconfiguring, Awaited, Local
<1>6. CASE WriteBack
  BY <1>6 DEF WriteBack, Awaited, Local
<1>7. CASE Customize
  BY <1>7 DEF Customize, Awaited, Local
<1>8. CASE Customizing
  BY <1>8 DEF Customizing, Awaited, Local
<1>9. CASE PowerOn
  BY <1>9 DEF PowerOn, Awaited, Local
<1>10. CASE PoweringOn
  BY <1>10 DEF PoweringOn, Awaited, Local
<1>11. CASE WaitIP
  BY <1>11 DEF WaitIP, Awaited, Local
<1>12. CASE WaitNet
  BY <1>12 DEF WaitNet, Awaited, Local
<1>13. CASE DestroyLookUp
  BY <1>13 DEF DestroyLookUp, Awaited, Local
<1>14. CASE PowerOff
  BY <1>14 DEF PowerOff, Awaited, Local
<1>15. CASE PoweringOff
  BY <1>15 DEF PoweringOff, Awaited, Local
<1>16. CASE Destroy
  BY <1>16 DEF Destroy, Awaited, Local
<1>17. CASE Destroying
  BY <1>17 DEF Destroying, Awaited, Local
<1>. QED
  BY <1>1, <1>2, <1>3, <1>4, <1>5, <1>6, <1>7, <1>8, <1>9, <1>10, <1>11, <1>12, <1>13, <1>14, <1>15, <1>16, <1>17 DEF DeployStep

LEMMA InvStep == TypeOK /\ DeployerInv /\ [Next]_vars => DeployerInv'
<1> SUFFICES ASSUME TypeOK, DeployerInv, [Next]_vars PROVE DeployerInv'
  OBVIOUS
<1> USE DEF DeployerInv, Creating, Preparing, Undoing, Outcomes, StartsReady,
            Awaits, Off, On, Ready, Wired
<1> USE DEF TypeOK, Steps, Waiting, Jobs, calling, machine
<1>1. CASE Clone
  <2>. HardwareSet' <=> HardwareSet
    BY <1>1, StepsLeaveMachine DEF DeployStep
  <2>1. CASE Submit("clone", "cloning") /\ UNCHANGED <<p, oNewVM, machine>>
    BY <1>1, <2>1 DEF Clone, Submit, GoOn
  <2>2. CASE (Return("error", "clone") \/ Panic) /\ Local
    BY <1>1, <2>2 DEF Clone, Return, Panic, Local
  <2>. QED
    BY <1>1, <2>1, <2>2 DEF Clone
<1>2. CASE Cloning
  <2>. HardwareSet' <=> HardwareSet
    BY <1>2, StepsLeaveMachine DEF DeployStep
  <2>1. CASE Succeeded /\ GoOn("found")
    BY <1>2, <2>1 DEF Cloning, Succeeded, Awaited, GoOn
  <2>2. CASE awaited = "failed" /\ Return("error", "clone")
    BY <1>2, <2>2 DEF Cloning, Awaited, Return
  <2>3. CASE TimedOut /\ (Return("error", "clone_timeout") \/ Panic)
    BY <1>2, <2>3 DEF Cloning, TimedOut, Awaited, Return, Panic
  <2>. QED
    BY <1>2, <2>1, <2>2, <2>3 DEF Cloning
<1>3. CASE NewVM
  <2>. HardwareSet' <=> HardwareSet
    BY <1>3, StepsLeaveMachine DEF DeployStep
  <2>1. CASE oNewVM' = TRUE /\ GoOn("reconfigure")
    BY <1>3, <2>1 DEF NewVM, GoOn
  <2>2. CASE Return("ok", "lookup") /\ UNCHANGED oNewVM
    BY <1>3, <2>2 DEF NewVM, Return
  <2>. QED
    BY <1>3, <2>1, <2>2 DEF NewVM
<1>4. CASE Reconfigure
  BY <1>4, StepsLeaveMachine DEF DeployStep, Reconfigure, Submit, GoOn, RollBack, Panic, Return, Local
<1>5. CASE Reconfiguring
  BY <1>5, StepsLeaveMachine DEF DeployStep, Reconfiguring, Succeeded, Failed, Awaited, GoOn, RollBack
<1>6. CASE WriteBack
  BY <1>6, StepsLeaveMachine DEF DeployStep, WriteBack, GoOn, Panic, Return, Local
<1>7. CASE Customize
  BY <1>7, StepsLeaveMachine DEF DeployStep, Customize, GoOn, Submit, RollBack, Panic, Return, Local
<1>8. CASE Customizing
  BY <1>8, StepsLeaveMachine DEF DeployStep, Customizing, Succeeded, Failed, Awaited, GoOn, RollBack
<1>9. CASE PowerOn
  BY <1>9, StepsLeaveMachine DEF DeployStep, PowerOn, GoOn, Submit, Return, Panic, Local
<1>10. CASE PoweringOn
  BY <1>10, StepsLeaveMachine DEF DeployStep, PoweringOn, Succeeded, Failed, Awaited, GoOn, Return
<1>11. CASE WaitIP
  BY <1>11, StepsLeaveMachine DEF DeployStep, WaitIP, GoOn, Done, RollBack, Local
<1>12. CASE WaitNet
  BY <1>12, StepsLeaveMachine DEF DeployStep, WaitNet, Done, RollBack, Local
<1>13. CASE DestroyLookUp
  BY <1>13, StepsLeaveMachine DEF DeployStep, DestroyLookUp, GoOn, Return, Panic, Local
<1>14. CASE PowerOff
  BY <1>14, StepsLeaveMachine DEF DeployStep, PowerOff, Submit, GoOn, Return, Panic, Local
<1>15. CASE PoweringOff
  BY <1>15, StepsLeaveMachine DEF DeployStep, PoweringOff, Succeeded, Failed, Awaited, GoOn, Return
<1>16. CASE Destroy
  BY <1>16, StepsLeaveMachine DEF DeployStep, Destroy, Submit, GoOn, Return, Local
<1>17. CASE Destroying
  BY <1>17, StepsLeaveMachine DEF DeployStep, Destroying, Succeeded, Failed, Awaited, Return, RolledBack
<1>18. CASE TaskEnds
  BY <1>18 DEF TaskEnds, Effect, HardwareSet, Configured
<1>19. CASE UNCHANGED vars
  <2>. HardwareSet' <=> HardwareSet
    BY <1>19 DEF vars, HardwareSet, Configured
  <2>. UNCHANGED <<p, step, oNewVM, vm, settings, task, awaited>>
    BY <1>19 DEF vars
  <2>1. Creating' /\ Preparing' /\ Undoing'
    <3>1. Creating'
      OBVIOUS
    <3>2. Preparing'
      OBVIOUS
    <3>3. Undoing'
      OBVIOUS
    <3>. QED
      BY <3>1, <3>2, <3>3
  <2>2. Outcomes' /\ StartsReady'
    BY <1>19 DEF vars
  <2>. QED
    BY <2>1, <2>2
<1>. QED
  BY <1>1, <1>2, <1>3, <1>4, <1>5, <1>6, <1>7, <1>8, <1>9, <1>10, <1>11, <1>12, <1>13, <1>14, <1>15, <1>16, <1>17, <1>18, <1>19 DEF Next, DeployStep, Returned

LEMMA Invariant == Spec => [](TypeOK /\ DeployerInv)
<1>1. Init => TypeOK /\ DeployerInv
  BY TypeInit, InvInit
<1>2. TypeOK /\ DeployerInv /\ [Next]_vars => (TypeOK /\ DeployerInv)'
  BY TypeStep, InvStep
<1>. QED
  BY <1>1, <1>2, PTL DEF Spec

-----------------------------------------------------------------------------
(* The theorems.                                                           *)

\* Every state of a deployment is well formed, and Deploy waits exactly in the
\* steps that wait.
THEOREM DeployerTypeCorrect == Spec => []TypeOK
  BY Invariant, PTL

\* A deployment that reports success has left a running machine with its
\* hardware, its interfaces and its guest set, and no task that could undo it.
THEOREM SuccessIsRunning == Spec => []SuccessMeansRunning
<1>1. TypeOK /\ DeployerInv => SuccessMeansRunning
  BY DEF DeployerInv, Outcomes, SuccessMeansRunning, On, Ready, Wired, HardwareSet, Configured
<1>. QED
  BY <1>1, Invariant, PTL

\* A deployment that reports an error leaves a machine only for one of the
\* three reasons that the property names.
THEOREM FailureIsClean == Spec => []FailureLeavesNothing
<1>1. DeployerInv => FailureLeavesNothing
  BY DEF DeployerInv, Outcomes, FailureLeavesNothing
<1>. QED
  BY <1>1, Invariant, PTL

\* No machine is started, by an awaited task or by one whose waiter gave up,
\* before its hardware and its guest are set.
THEOREM StartsConfigured == Spec => FirstBootIsConfigured
<1>1. TypeOK /\ DeployerInv /\ [Next]_vars
        => (vm # "on" /\ vm' = "on" => "hardware" \in settings /\ (p.os => "guest" \in settings))
  <2> SUFFICES ASSUME TypeOK, DeployerInv, [Next]_vars, vm # "on", vm' = "on"
               PROVE  "hardware" \in settings /\ (p.os => "guest" \in settings)
    OBVIOUS
  <2>1. TaskEnds
    BY StepsLeaveMachine DEF Next, Returned, vars, machine
  <2>2. task = "power_on"
    BY <2>1 DEF TaskEnds, Effect, TypeOK, Jobs, machine
  <2>. QED
    BY <2>2 DEF DeployerInv, StartsReady, Ready, Wired, HardwareSet, Configured
<1>. QED
  BY <1>1, Invariant, PTL DEF Spec, FirstBootIsConfigured

=============================================================================
