--------------------------- MODULE ContractProofs ---------------------------
(* The life of a request implements the promise of CallbackContract, for    *)
(* every set of requests, whatever crashes, panics and failures of badger.  *)
EXTENDS RequestLifecycleProofs

-----------------------------------------------------------------------------
(* What the promise comes to.                                               *)

\* Whoever was told "accepted" has been called back, is going to be, or is
\* excused, in every behaviour that keeps the promise.
THEOREM PromiseKept == Contract!Spec => []Contract!NobodyForgotten
<1> DEFINE Answered == reply \in [Requests -> {"none"} \cup Contract!Answers]
           Telling == Told \in [Requests -> SUBSET Contract!Kinds]
           Inv == Answered /\ Telling /\ Contract!NobodyForgotten
<1>1. Contract!Init => Inv
  BY DEF Contract!Init, Contract!NobodyForgotten
<1>2. Inv /\ [Contract!Next]_Contract!cvars => Inv'
  <2> SUFFICES ASSUME Inv, [Contract!Next]_Contract!cvars PROVE Inv'
    OBVIOUS
  <2> USE DEF Contract!NobodyForgotten, Contract!Settled
  <2>1. ASSUME NEW r \in Requests, Contract!Take(r) \/ Contract!Lose(r)
        PROVE  Inv'
    BY <2>1 DEF Contract!Take, Contract!Lose
  <2>2. ASSUME NEW r \in Requests, NEW a \in Contract!Answers, Contract!Reply(r, a)
        PROVE  Inv'
    BY <2>2 DEF Contract!Reply, Contract!Answers
  <2>3. ASSUME NEW r \in Requests, NEW k \in Contract!Kinds, Contract!Tell(r, k)
        PROVE  Inv'
    BY <2>3 DEF Contract!Tell, Contract!Kinds
  <2>4. CASE Contract!Release
    BY <2>4 DEF Contract!Release
  <2>5. CASE UNCHANGED Contract!cvars
    BY <2>5 DEF Contract!cvars
  <2> QED
    BY <2>1, <2>2, <2>3, <2>4, <2>5 DEF Contract!Next
<1> QED
  BY <1>1, <1>2, PTL DEF Contract!Spec

-----------------------------------------------------------------------------
(* Reports are the work of closures.                                        *)

LEMMA ReportInductive == TypeOK /\ ReportInv /\ [Next]_vars => ReportInv'
<1> SUFFICES ASSUME TypeOK, ReportInv, [Next]_vars PROVE ReportInv'
  OBVIOUS
<1> USE DEF vars, process, store, handler, closure, startup, TypeOK, ClosureTypeOK
<1> DEFINE Kept == \A r \in Requests : tpc[r] # "none" => tpc'[r] # "none"
           NoNews == \A c \in calls' : c \in calls \/ c.kind = "interrupted"
<1>1. Kept
  <2>1. ASSUME NEW q \in Requests, ClientStep(q) PROVE Kept
    BY <2>1 DEF ClientStep, Refuse, ReceiveRequest, LookUp
  <2>2. ASSUME NEW q \in Requests, HandlerStep(q) PROVE Kept
    BY <2>2 DEF HandlerStep, Connect, ReceiveFound, AddTask, StoreErr, Reply
  <2>3. ASSUME NEW q \in Requests, TaskStep(q) PROVE Kept
    BY <2>3 DEF TaskStep, StartTask, CreateTask, DescribeTask, BatchTask, DeviceTask,
                ReconfigureTask, JudgeTask, ExplainTask, CallBack, Finish, GoTo, Panic
  <2>4. ASSUME Die PROVE Kept
    BY <2>4 DEF Die
  <2>5. ASSUME StartupStep \/ Crash \/ Restart \/ Quiet \/ UNCHANGED vars PROVE Kept
    BY <2>4, <2>5 DEF StartupStep, StartupRead, StartupDone, StartupNotify,
                      StartupCancel, Crash, Restart, Quiet
  <2> QED  BY <2>1, <2>2, <2>3, <2>5 DEF Next
<1>2. CASE \E q \in Requests : CallBack(q)
  <2>1. PICK q \in Requests : CallBack(q)
    BY <1>2
  <2>2. tpc'[q] # "none"
    BY <2>1, <1>1 DEF CallBack
  <2>3. \A c \in calls' : c \in calls \/ c.req = q
    BY <2>1 DEF CallBack, Send
  <2> QED  BY <1>1, <2>2, <2>3 DEF ReportInv, Call
<1>3. CASE ~ \E q \in Requests : CallBack(q)
  <2>1. ASSUME NEW q \in Requests, ClientStep(q) \/ HandlerStep(q) PROVE NoNews
    BY <2>1 DEF ClientStep, Refuse, ReceiveRequest, LookUp, HandlerStep, Connect,
                ReceiveFound, AddTask, StoreErr, Reply
  <2>2. ASSUME NEW q \in Requests, TaskStep(q) PROVE NoNews
    BY <1>3, <2>2 DEF TaskStep, StartTask, CreateTask, DescribeTask, BatchTask,
                      DeviceTask, ReconfigureTask, JudgeTask, ExplainTask, Finish
  <2>3. ASSUME StartupStep \/ Crash \/ Restart \/ Quiet \/ UNCHANGED vars PROVE NoNews
    BY <2>3 DEF StartupStep, StartupRead, StartupDone, StartupNotify,
                StartupCancel, Crash, Restart, Quiet, Die, Send
  <2>4. NoNews
    BY <2>1, <2>2, <2>3 DEF Next
  <2> QED  BY <1>1, <2>4 DEF ReportInv, Call
<1> QED  BY <1>2, <1>3

-----------------------------------------------------------------------------
(* Every step keeps the promise.                                            *)

IInv == TypeOK /\ RecordInv /\ ProgressInv /\ ReportInv

Stutter == UNCHANGED <<Duty, reply, Told, unsaved \cup panicked>>
Kept == Contract!Next \/ Stutter

\* Nothing a client can see, and no duty, has changed.
LEMMA Unseen ==
    ASSUME UNCHANGED <<store, todo, reply, calls, panicked>>,
           \A r \in Requests : TaskBusy(r)' <=> TaskBusy(r)
    PROVE  Stutter
  BY DEF Stutter, Duty, Told, store

\* A closure at work moves on.
LEMMA GoToKept ==
    ASSUME TypeOK, NEW q \in Requests, TaskBusy(q),
           NEW pc \in {"running", "describing", "judging", "explaining", "calling",
                       "finishing"},
           GoTo(q, pc)
    PROVE  \A r \in Requests : TaskBusy(r)' <=> TaskBusy(r)
  BY DEF GoTo, TaskBusy, TypeOK, ClosureTypeOK

\* A panic of a closure excuses its request.
LEMMA PanicKept ==
    ASSUME TypeOK, NEW q \in Requests, TaskBusy(q), Panic(q),
           UNCHANGED <<store, todo, reply, calls>>
    PROVE  Kept
<1>1. \A r \in Requests : TaskBusy(r)' <=> TaskBusy(r)
  BY GoToKept DEF Panic, GoTo
<1>2. UNCHANGED <<Duty, reply, Told>> /\ q \in Duty
  BY <1>1 DEF Duty, Told, store
<1>3. (unsaved \cup panicked)' = (unsaved \cup panicked) \cup {q}
  BY DEF Panic, store
<1>4. Contract!Lose(q)
  BY <1>2, <1>3 DEF Contract!Lose
<1> QED  BY <1>4 DEF Kept, Contract!Next

\* A record is written, or is never going to be, before the answer.
LEMMA ReceiveKept ==
    ASSUME TypeOK, NEW q \in Requests, Receive(q), reply[q] = "none",
           UNCHANGED <<todo, tpc, reply, calls, panicked>>
    PROVE  Kept
<1>1. UNCHANGED <<reply, Told>> /\ \A r \in Requests : TaskBusy(r)' <=> TaskBusy(r)
  BY DEF Told, TaskBusy
<1>2. CASE db' = db \cup {q} /\ unsaved' = unsaved
  <2>1. Duty' = Duty \cup {q} /\ UNCHANGED (unsaved \cup panicked)
    BY <1>1, <1>2 DEF Duty
  <2>2. Contract!Take(q)
    BY <1>1, <2>1 DEF Contract!Take
  <2> QED  BY <2>2 DEF Kept, Contract!Next
<1>3. CASE db' = db /\ unsaved' = unsaved \cup {q}
  <2>1. UNCHANGED Duty
    BY <1>1, <1>3 DEF Duty
  <2>2. (unsaved \cup panicked)' = (unsaved \cup panicked) \cup {q}
    BY <1>3
  <2>3. Contract!Lose(q)
    BY <1>1, <2>1, <2>2 DEF Contract!Lose
  <2> QED  BY <2>3 DEF Kept, Contract!Next
<1> QED  BY <1>2, <1>3 DEF Receive

\* A client is told something about a duty.
LEMMA TellKept ==
    ASSUME TypeOK, NEW q \in Requests, NEW kind \in {"report", "interrupted"},
           NEW own, NEW body, Send(q, kind, own, body), q \in Duty,
           Duty' \in {Duty, Duty \ {q}}, UNCHANGED <<reply, unsaved, panicked>>,
           kind = "report" /\ OwnErr(q) => reply[q] \notin {"refused", "error"}
    PROVE  Kept
<1> DEFINE c == [req |-> q, kind |-> kind, to |-> IF own THEN "own" ELSE "default",
                 body |-> body]
<1>1. calls' = calls \cup {c} /\ c.req = q /\ c.kind = kind
  BY DEF Send
<1>2. Told' = [Told EXCEPT ![q] = @ \cup {kind}]
  <2>1. ASSUME NEW r \in Requests
        PROVE  {d \in calls' : d.req = r} =
                  IF r = q THEN {d \in calls : d.req = r} \cup {c}
                           ELSE {d \in calls : d.req = r}
    BY <1>1
  <2>2. ASSUME NEW r \in Requests
        PROVE  Told'[r] = IF r = q THEN Told[r] \cup {kind} ELSE Told[r]
    <3>1. /\ Told[r] = {d.kind : d \in {e \in calls : e.req = r}}
          /\ Told'[r] = {d.kind : d \in {e \in calls' : e.req = r}}
      BY DEF Told
    <3> HIDE DEF c
    <3>2. CASE r = q
      <4>1. Told'[r] = {d.kind : d \in {e \in calls : e.req = r} \cup {c}}
        BY <2>1, <3>1, <3>2
      <4> QED  BY <1>1, <3>1, <3>2, <4>1
    <3>3. CASE r # q
      BY <2>1, <3>1, <3>3
    <3> QED  BY <3>2, <3>3
  <2> QED  BY <2>2 DEF Told
<1>3. Contract!Tell(q, kind)
  BY <1>2 DEF Contract!Tell, Contract!Negative
<1> QED  BY <1>3 DEF Kept, Contract!Next, Contract!Kinds

\* Duties end that are done, excused or were never accepted.
LEMMA ReleaseKept ==
    ASSUME TypeOK, UNCHANGED <<reply, calls, unsaved, panicked>>, Duty' \subseteq Duty,
           \A r \in Duty \ Duty' :
              reply[r] = "accepted" => r \in unsaved \cup panicked \/ Called(r)
    PROVE  Kept
<1>1. \A r \in Requests : Called(r) => Told[r] # {}
  BY DEF Called, Told
<1>2. Duty \subseteq Requests
  BY DEF TypeOK, StoreTypeOK, StartupTypeOK, Duty
<1>3. Contract!Release
  BY <1>1, <1>2 DEF Contract!Release, Contract!Settled, Told
<1> QED  BY <1>3 DEF Kept, Contract!Next

\* The end of the process takes its closures and its snapshot along; the record
\* of an accepted request, or what excuses it, stays.
LEMMA DieKept ==
    ASSUME IInv, Die
    PROVE  Kept
<1>1. \A r \in Requests : ~TaskBusy(r)'
  BY DEF Die, TaskBusy
<1>2. Duty' \subseteq Duty /\ db \subseteq Duty'
  BY <1>1 DEF Duty, Die, store
<1>3. \A r \in Requests : reply[r] = "accepted" => Covered(r)
  BY DEF IInv, RecordInv
<1>4. Duty \subseteq Requests
  BY DEF IInv, TypeOK, StoreTypeOK, StartupTypeOK, Duty
<1> QED  BY <1>2, <1>3, <1>4, ReleaseKept DEF IInv, Die, store, Covered

\* A record is removed: its request is done, excused or was never accepted,
\* and all other duties stay.
LEMMA DeleteKept ==
    ASSUME TypeOK, NEW q \in Requests, Delete(q), q \in unsaved \cup panicked \/ Called(q),
           \A r \in Requests \ {q} : TaskBusy(r)' <=> TaskBusy(r),
           TaskBusy(q)' => TaskBusy(q), UNCHANGED <<todo, reply, calls, panicked>>
    PROVE  Kept
<1>1. Duty' \in {Duty, Duty \ {q}} /\ unsaved' = unsaved
  BY DEF Delete, Duty
<1> QED  BY <1>1, ReleaseKept

\* An answer is given once, from a state in which it may be given.
LEMMA AnswerKept ==
    ASSUME IInv, NEW q \in Requests, NEW a \in {"accepted", "refused", "error"},
           Answer(q, a), reply[q] = "none", UNCHANGED <<unsaved, todo, tpc, calls, panicked>>,
           db' = db \/ (a = "error" /\ Delete(q)),
           a = "accepted" => Covered(q),
           a # "accepted" /\ OwnErr(q) => tpc[q] = "none"
    PROVE  Kept
<1>1. Called(q) => Told[q] # {}
  BY DEF Called, Told
<1>2. a = "accepted" => q \in Duty \/ Contract!Settled(q)
  BY <1>1 DEF Covered, Duty, Contract!Settled
<1>3. a # "accepted" /\ OwnErr(q) => "report" \notin Told[q]
  <2> SUFFICES ASSUME a # "accepted", OwnErr(q), NEW d \in calls, d.req = q,
                      d.kind = "report"
               PROVE  FALSE
    BY DEF Told
  <2> QED  BY DEF IInv, ReportInv
<1>4. Told' = Told
  BY DEF Told
<1>5. \A r \in Requests : TaskBusy(r)' <=> TaskBusy(r)
  BY DEF TaskBusy
<1>6. \/ Duty' = Duty
      \/ a = "error" /\ Duty' = Duty \ {q}
  <2>1. CASE db' = db
    BY <1>5, <2>1 DEF Duty
  <2>2. CASE a = "error" /\ Delete(q)
    BY <1>5, <2>2 DEF Duty, Delete
  <2> QED  BY <2>1, <2>2
<1>7. Contract!Reply(q, a)
  BY <1>2, <1>3, <1>4, <1>6 DEF Contract!Reply, Contract!Negative, Answer
<1> QED  BY <1>7 DEF Kept, Contract!Next, Contract!Answers

\* What a client sends, and what a handler does with it.
LEMMA HandlerKept ==
    ASSUME IInv, NEW q \in Requests, ClientStep(q) \/ HandlerStep(q)
    PROVE  Kept
<1> USE DEF handler, closure, process, startup
<1>0. ProgressOf(q)
  BY DEF IInv, ProgressInv
<1>1. TypeOK
  BY DEF IInv
<1>2. ASSUME UNCHANGED tpc PROVE \A r \in Requests : TaskBusy(r)' <=> TaskBusy(r)
  BY <1>2 DEF TaskBusy
<1>3. CASE Refuse(q)
  <2>1. UNCHANGED <<unsaved, todo, tpc, calls, panicked>> /\ db' = db
    BY <1>3 DEF Refuse, store
  <2>2. Answer(q, "refused") /\ reply[q] = "none" /\ tpc[q] = "none"
    BY <1>0, <1>3 DEF Refuse, ProgressOf
  <2> QED  BY <2>1, <2>2, AnswerKept
<1>4. CASE ReceiveRequest(q)
  BY <1>0, <1>1, <1>4, ReceiveKept DEF ReceiveRequest, Proceed, ProgressOf, OwnErr
<1>5. CASE LookUp(q)
  <2>1. CASE Proceed(q, "idle", "found")
    BY <1>2, <1>5, <2>1, Unseen DEF LookUp, Proceed, Kept
  <2>2. ASSUME NEW a \in {"refused", "error"}, Answer(q, a), hpc[q] = "idle" PROVE Kept
    BY <1>0, <1>5, <2>2, AnswerKept DEF LookUp, ProgressOf, store
  <2> QED  BY <1>5, <2>1, <2>2 DEF LookUp
<1>6. CASE Connect(q)
  <2>1. CASE Proceed(q, "recorded", "ready")
    BY <1>2, <1>6, <2>1, Unseen DEF Connect, Proceed, Kept
  <2>2. CASE hpc[q] = "recorded" /\ Answer(q, "error")
    BY <1>0, <1>6, <2>2, AnswerKept DEF Connect, ProgressOf, store
  <2> QED  BY <1>6, <2>1, <2>2 DEF Connect
<1>7. CASE ReceiveFound(q)
  BY <1>0, <1>1, <1>7, ReceiveKept DEF ReceiveFound, Proceed, ProgressOf
<1>8. CASE AddTask(q)
  <2>1. reply[q] = "none" /\ UNCHANGED <<reply, Told, unsaved \cup panicked>>
    BY <1>0, <1>8 DEF AddTask, Proceed, ProgressOf, Told, store
  <2>2. \A r \in Requests : TaskBusy(r)' <=> r = q \/ TaskBusy(r)
    BY <1>1, <1>8 DEF AddTask, TaskBusy, TypeOK, ClosureTypeOK
  <2>3. Duty' = Duty \cup {q}
    BY <1>8, <2>2 DEF AddTask, Duty, store
  <2> QED  BY <2>1, <2>3 DEF Kept, Contract!Next, Contract!Take
<1>9. CASE StoreErr(q)
  BY <1>2, <1>9, Unseen DEF StoreErr, Proceed, Kept
<1>10. CASE Reply(q)
  <2>1. reply[q] = "none" /\ Covered(q)
    BY <1>0, <1>10 DEF Reply, ProgressOf, IInv, RecordInv
  <2>2. CASE Answer(q, "accepted") /\ UNCHANGED store
    BY <1>10, <2>1, <2>2, AnswerKept DEF Reply, store
  <2>3. CASE Answer(q, "error") /\ Delete(q) /\ "error" \in RacyErr(q, "nil")
    <3>1. ~OwnErr(q) /\ UNCHANGED unsaved
      BY <1>0, <2>3 DEF ProgressOf, RacyErr, Delete
    <3> QED  BY <1>10, <2>1, <2>3, <3>1, AnswerKept DEF Reply
  <2> QED  BY <1>10, <2>2, <2>3 DEF Reply
<1> QED
  BY <1>3, <1>4, <1>5, <1>6, <1>7, <1>8, <1>9, <1>10 DEF ClientStep, HandlerStep

\* What a closure does.
LEMMA TaskKept ==
    ASSUME IInv, NEW q \in Requests, TaskStep(q)
    PROVE  Kept
<1> USE DEF handler, closure, process, startup
<1>0. TypeOK /\ ProgressOf(q)
  BY DEF IInv, ProgressInv
<1>1. ASSUME TaskBusy(q), UNCHANGED <<store, todo, reply, calls, panicked>>,
             NEW pc \in {"running", "describing", "judging", "explaining", "calling",
                         "finishing"},
             GoTo(q, pc)
      PROVE  Kept
  BY <1>0, <1>1, GoToKept, Unseen DEF Kept
<1>2. ASSUME TaskBusy(q), Panic(q), UNCHANGED <<store, todo, reply, calls>> PROVE Kept
  BY <1>0, <1>2, PanicKept
<1>3. CASE StartTask(q)
  BY <1>1, <1>3 DEF StartTask, TaskBusy
<1>4. CASE CreateTask(q)
  BY <1>1, <1>2, <1>4 DEF CreateTask, TaskBusy
<1>5. CASE DescribeTask(q)
  BY <1>1, <1>2, <1>5 DEF DescribeTask, TaskBusy
<1>6. CASE BatchTask(q)
  BY <1>1, <1>2, <1>6 DEF BatchTask, TaskBusy
<1>7. CASE DeviceTask(q)
  BY <1>1, <1>2, <1>7 DEF DeviceTask, TaskBusy
<1>8. CASE ReconfigureTask(q)
  BY <1>1, <1>2, <1>8 DEF ReconfigureTask, TaskBusy
<1>9. CASE JudgeTask(q)
  BY <1>1, <1>9 DEF JudgeTask, TaskBusy
<1>10. CASE ExplainTask(q)
  BY <1>1, <1>2, <1>10 DEF ExplainTask, TaskBusy
<1>11. CASE CallBack(q)
  <2>1. TaskBusy(q) /\ q \in Duty
    BY <1>11 DEF CallBack, TaskBusy, Duty
  <2>2. CASE SendPanics(HasCallback[q])
    BY <1>2, <1>11, <2>1, <2>2 DEF CallBack
  <2>3. CASE ~SendPanics(HasCallback[q])
    <3>1. \A r \in Requests : TaskBusy(r)' <=> TaskBusy(r)
      BY <1>0, <1>11, <2>1, <2>3, GoToKept DEF CallBack
    <3>2. UNCHANGED Duty
      BY <1>11, <3>1 DEF CallBack, Duty, store
    <3>3. OwnErr(q) => reply[q] \notin {"refused", "error"}
      BY <1>0, <1>11 DEF CallBack, ProgressOf
    <3> QED
      BY <1>0, <1>11, <2>1, <2>3, <3>2, <3>3, TellKept DEF CallBack, store
  <2> QED  BY <2>2, <2>3
<1>12. CASE Finish(q)
  <2>1. q \in panicked \/ Called(q)
    BY <1>12 DEF Finish, IInv, RecordInv
  <2>2. /\ \A r \in Requests \ {q} : TaskBusy(r)' <=> TaskBusy(r)
        /\ TaskBusy(q)
    BY <1>0, <1>12 DEF Finish, GoTo, TaskBusy, TypeOK, ClosureTypeOK
  <2> QED  BY <1>0, <1>12, <2>1, <2>2, DeleteKept DEF Finish
<1> QED
  BY <1>3, <1>4, <1>5, <1>6, <1>7, <1>8, <1>9, <1>10, <1>11, <1>12 DEF TaskStep

\* What the startup goroutine does.
LEMMA StartupKept ==
    ASSUME IInv, StartupStep
    PROVE  Kept
<1> USE DEF handler, closure, process
<1>0. TypeOK
  BY DEF IInv
<1>1. ASSUME UNCHANGED tpc PROVE \A r \in Requests : TaskBusy(r)' <=> TaskBusy(r)
  BY <1>1 DEF TaskBusy
<1>2. CASE StartupRead
  <2>1. todo' \subseteq db /\ db' = db
    BY <1>2 DEF StartupRead
  <2>2. UNCHANGED <<reply, calls, unsaved, panicked, tpc>>
    BY <1>2 DEF StartupRead
  <2>3. Duty' \subseteq Duty /\ \A r \in Duty \ Duty' : r \notin db
    BY <1>1, <2>1, <2>2 DEF Duty
  <2>4. \A r \in Requests : reply[r] = "accepted" => Covered(r)
    BY DEF IInv, RecordInv
  <2>5. Duty \subseteq Requests
    BY <1>0 DEF TypeOK, StoreTypeOK, StartupTypeOK, Duty
  <2> QED  BY <1>0, <2>2, <2>3, <2>4, <2>5, ReleaseKept DEF Covered
<1>3. CASE StartupDone
  BY <1>1, <1>3, Unseen DEF StartupDone, Kept
<1>4. ASSUME NEW q \in Requests, StartupNotify(q) PROVE Kept
  <2>1. CASE SendPanics(RecordedCallback(q))
    BY <1>4, <2>1, DieKept DEF StartupNotify
  <2>2. CASE ~SendPanics(RecordedCallback(q))
    <3>1. Duty' \in {Duty, Duty \ {q}} /\ q \in Duty
      BY <1>1, <1>4, <2>2 DEF StartupNotify, Duty, store
    <3> QED  BY <1>0, <1>4, <2>2, <3>1, TellKept DEF StartupNotify, store
  <2> QED  BY <2>1, <2>2
<1>5. ASSUME NEW q \in Requests, StartupCancel(q) PROVE Kept
  <2>1. Called(q)
    BY <1>5 DEF StartupCancel, IInv, RecordInv
  <2> QED  BY <1>0, <1>1, <1>5, <2>1, DeleteKept DEF StartupCancel
<1> QED
  BY <1>2, <1>3, <1>4, <1>5 DEF StartupStep

LEMMA StepKept == IInv /\ [Next]_vars => [Contract!Next]_Contract!cvars
<1> SUFFICES ASSUME IInv, [Next]_vars PROVE Kept
  BY DEF Kept, Stutter, Contract!cvars
<1>1. ASSUME UNCHANGED <<store, todo, reply, calls, panicked, tpc>> PROVE Kept
  BY <1>1, Unseen DEF Kept, TaskBusy
<1>2. CASE Crash
  BY <1>2, DieKept DEF Crash
<1>3. CASE Restart
  BY <1>1, <1>3 DEF Restart, handler, closure
<1>4. CASE UNCHANGED vars
  BY <1>1, <1>4 DEF vars, handler, closure, startup
<1> QED
  BY <1>2, <1>3, <1>4, HandlerKept, TaskKept, StartupKept DEF Next, Quiet

\* The life of a request, through crashes, panics and failures of badger, keeps
\* the promise of CallbackContract, for every set of requests and machines.
THEOREM KeepsContract == Spec => ContractKept
<1>1. Init => Contract!Init /\ ReportInv /\ RecordInv
  BY DEF Init, Contract!Init, ReportInv, RecordInv, Duty, Told, TaskBusy
<1>2. Spec => [](RecordInv /\ ReportInv)
  BY <1>1, TypeCorrect, RecordInductive, ReportInductive, PTL DEF Spec
<1>3. Spec => []IInv
  BY <1>2, TypeCorrect, ProgressCorrect, PTL DEF IInv
<1> QED
  BY <1>1, <1>3, StepKept, PTL DEF Spec, ContractKept, Contract!Spec

=============================================================================
