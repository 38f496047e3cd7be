----------------------- MODULE RequestLifecycleProofs -----------------------
(* Theorems about RequestLifecycle, for every set of requests, every        *)
(* assignment of operations and every number of crashes.                    *)
EXTENDS RequestLifecycle, SequenceTheorems, TLAPS

-----------------------------------------------------------------------------
(* Types of the building blocks of the actions.                             *)

\* What badger does to the record of r leaves the store well-typed.
LEMMA ReceiveType ==
    ASSUME StoreTypeOK, NEW r \in Requests, Receive(r)
    PROVE  StoreTypeOK'
  BY DEF StoreTypeOK, Receive

LEMMA DeleteType ==
    ASSUME StoreTypeOK, NEW r \in Requests, Delete(r)
    PROVE  StoreTypeOK'
  BY DEF StoreTypeOK, Delete

\* The ways a handler moves.
LEMMA AnswerType ==
    ASSUME HandlerTypeOK, NEW r \in Requests,
           NEW a \in {"accepted", "refused", "error"}, Answer(r, a), UNCHANGED err
    PROVE  HandlerTypeOK'
  BY DEF HandlerTypeOK, Answer, HandlerPcs

LEMMA ProceedType ==
    ASSUME HandlerTypeOK, NEW r \in Requests, NEW from,
           NEW to \in HandlerPcs, Proceed(r, from, to), UNCHANGED err
    PROVE  HandlerTypeOK'
  BY DEF HandlerTypeOK, Proceed

\* The ways a closure moves.
LEMMA PanicType ==
    ASSUME ClosureTypeOK, NEW r \in Requests, Panic(r)
    PROVE  ClosureTypeOK'
  BY DEF ClosureTypeOK, Panic, TaskPcs

\* An entry, and the machine it is of.
LEMMA AppendEntry ==
    ASSUME NEW s \in Seq(Entry), NEW m \in Machines, NEW v \in Outcomes
    PROVE  /\ Append(s, [id |-> m, how |-> v]) \in Seq(Entry)
           /\ Len(Append(s, [id |-> m, how |-> v])) = Len(s) + 1
           /\ \A i \in 1..Len(s) : Append(s, [id |-> m, how |-> v])[i] = s[i]
           /\ Append(s, [id |-> m, how |-> v])[Len(s) + 1] = [id |-> m, how |-> v]
<1>1. [id |-> m, how |-> v] \in Entry
  BY DEF Entry
<1> QED
  BY <1>1, AppendProperties

LEMMA TargetsType ==
    ASSUME NEW r \in Requests
    PROVE  /\ Targets[r] \in Seq(Machines) /\ Len(Targets[r]) \in Nat /\ Len(Targets[r]) >= 1
           /\ \A i \in 1..Len(Targets[r]) : Targets[r][i] \in Machines
<1>1. Targets[r] \in Seq(Machines) /\ Targets[r] # << >>
  BY ConstantsAssumption
<1>2. Len(Targets[r]) \in Nat /\ (Len(Targets[r]) = 0 => Targets[r] = << >>)
  BY <1>1, EmptySeq, LenProperties
<1> QED
  BY <1>1, <1>2, ElementOfSeq

LEMMA CurrentType ==
    ASSUME NEW r \in Requests, ClosureTypeOK, turn[r] < Len(Targets[r])
    PROVE  Current(r) \in Machines
  BY TargetsType DEF Current, ClosureTypeOK

LEMMA TurnType ==
    ASSUME ClosureTypeOK, NEW r \in Requests, NEW v \in Outcomes, NEW pc \in TaskPcs,
           turn[r] < Len(Targets[r]), Turn(r, v), GoTo(r, pc), UNCHANGED panicked,
           report' = report \/ Note(r, Current(r), v)
    PROVE  ClosureTypeOK'
<1>1. Current(r) \in Machines
  BY CurrentType
<1>2. effect' \in [Requests -> Seq(Entry)]
  BY <1>1, AppendEntry DEF ClosureTypeOK, Turn
<1>3. report' \in [Requests -> Seq(Entry)]
  <2>1. CASE report' = report
    BY <2>1 DEF ClosureTypeOK
  <2>2. CASE Note(r, Current(r), v)
    BY <1>1, <2>2, AppendEntry DEF ClosureTypeOK, Note
  <2> QED  BY <2>1, <2>2
<1>4. turn' \in [Requests -> Nat] /\ \A q \in Requests : turn'[q] <= Len(Targets[q])
  BY TargetsType DEF ClosureTypeOK, Turn
<1>5. tpc' \in [Requests -> TaskPcs]
  BY DEF ClosureTypeOK, GoTo
<1> QED
  BY <1>2, <1>3, <1>4, <1>5 DEF ClosureTypeOK

LEMMA VisitedType ==
    ASSUME ClosureTypeOK, NEW r \in Requests, NEW v \in Outcomes, NEW pc \in TaskPcs,
           Visited(r, v), GoTo(r, pc), UNCHANGED panicked
    PROVE  ClosureTypeOK'
  BY TurnType DEF Visited

LEMMA GoToType ==
    ASSUME ClosureTypeOK, NEW r \in Requests, NEW pc \in TaskPcs, GoTo(r, pc),
           UNCHANGED <<turn, report, effect, panicked>>
    PROVE  ClosureTypeOK'
  BY DEF ClosureTypeOK, GoTo

LEMMA NoteType ==
    ASSUME ClosureTypeOK, NEW r \in Requests, NEW m \in Machines,
           NEW v \in Outcomes, NEW pc \in TaskPcs, Note(r, m, v), GoTo(r, pc),
           UNCHANGED <<turn, effect, panicked>>
    PROVE  ClosureTypeOK'
<1>1. report' \in [Requests -> Seq(Entry)]
  BY AppendEntry DEF ClosureTypeOK, Note
<1> QED
  BY <1>1 DEF ClosureTypeOK, GoTo

\* A callback is well-formed.
LEMMA SendType ==
    ASSUME calls \in SUBSET Call, NEW r \in Requests,
           NEW kind \in {"report", "interrupted"}, NEW own \in BOOLEAN,
           NEW body \in Seq(Entry), Send(r, kind, own, body)
    PROVE  (calls \in SUBSET Call)'
  BY DEF Send, Call

\* The end of the process.
LEMMA DieType ==
    ASSUME TypeOK, Die, crashes' \in 0..MaxCrashes
    PROVE  TypeOK'
<1>1. StoreTypeOK' /\ (calls \in SUBSET Call)'
  BY DEF TypeOK, StoreTypeOK, Die, store
<1>2. HandlerTypeOK'
  BY DEF TypeOK, HandlerTypeOK, Die, HandlerPcs
<1>3. ClosureTypeOK'
  BY DEF TypeOK, ClosureTypeOK, Die, TaskPcs
<1>4. StartupTypeOK'
  BY DEF Die, StartupTypeOK
<1> QED
  BY <1>1, <1>2, <1>3, <1>4 DEF TypeOK

\* The parts of the state an action leaves alone keep their types.
LEMMA FrameType ==
    ASSUME TypeOK
    PROVE  /\ UNCHANGED store => StoreTypeOK'
           /\ UNCHANGED <<handler, err>> => HandlerTypeOK'
           /\ UNCHANGED closure => ClosureTypeOK'
           /\ UNCHANGED <<process, startup>> => StartupTypeOK'
           /\ UNCHANGED calls => (calls \in SUBSET Call)'
<1>1. UNCHANGED store => StoreTypeOK'
  BY DEF TypeOK, StoreTypeOK, store
<1>2. UNCHANGED <<handler, err>> => HandlerTypeOK'
  BY DEF TypeOK, HandlerTypeOK, handler
<1>3. UNCHANGED closure => ClosureTypeOK'
  BY DEF TypeOK, ClosureTypeOK, closure
<1>4. UNCHANGED <<process, startup>> => StartupTypeOK'
  BY DEF TypeOK, StartupTypeOK, process, startup
<1>5. UNCHANGED calls => (calls \in SUBSET Call)'
  BY DEF TypeOK
<1> QED
  BY <1>1, <1>2, <1>3, <1>4, <1>5

-----------------------------------------------------------------------------
(* Type correctness.                                                        *)

LEMMA TypeInductive == TypeOK /\ [Next]_vars => TypeOK'
<1> SUFFICES ASSUME TypeOK, [Next]_vars PROVE TypeOK'
  OBVIOUS
<1> USE DEF TypeOK
<1>1. ASSUME NEW r \in Requests, ClientStep(r) PROVE TypeOK'
  <2>1. CASE Refuse(r)
    BY <2>1, FrameType, AnswerType DEF Refuse
  <2>2. CASE ReceiveRequest(r)
    BY <2>2, FrameType, ReceiveType, ProceedType DEF ReceiveRequest, HandlerPcs
  <2>3. CASE LookUp(r)
    <3>1. CASE Proceed(r, "idle", "found")
      BY <2>3, <3>1, FrameType, ProceedType DEF LookUp, HandlerPcs
    <3>2. CASE Answer(r, "refused") \/ Answer(r, "error")
      BY <2>3, <3>2, FrameType, AnswerType DEF LookUp
    <3> QED  BY <2>3, <3>1, <3>2 DEF LookUp
  <2> QED  BY <1>1, <2>1, <2>2, <2>3 DEF ClientStep
<1>2. ASSUME NEW r \in Requests, HandlerStep(r) PROVE TypeOK'
  <2>1. CASE Connect(r)
    <3>1. CASE Proceed(r, "recorded", "ready")
      BY <2>1, <3>1, FrameType, ProceedType DEF Connect, HandlerPcs
    <3>2. CASE Answer(r, "error")
      BY <2>1, <3>2, FrameType, AnswerType DEF Connect
    <3> QED  BY <2>1, <3>1, <3>2 DEF Connect
  <2>2. CASE ReceiveFound(r)
    BY <2>2, FrameType, ReceiveType, ProceedType DEF ReceiveFound, HandlerPcs
  <2>3. CASE AddTask(r)
    <3>1. ClosureTypeOK'
      BY <2>3 DEF AddTask, ClosureTypeOK, TaskPcs
    <3> QED  BY <2>3, <3>1, FrameType, ProceedType DEF AddTask, HandlerPcs
  <2>4. CASE StoreErr(r)
    <3>1. HandlerTypeOK'
      BY <2>4 DEF StoreErr, Proceed, HandlerTypeOK, HandlerPcs
    <3> QED  BY <2>4, <3>1, FrameType DEF StoreErr
  <2>5. CASE Reply(r)
    <3>1. StoreTypeOK'
      BY <2>5, FrameType, DeleteType DEF Reply
    <3>2. HandlerTypeOK'
      BY <2>5, AnswerType DEF Reply
    <3> QED  BY <2>5, <3>1, <3>2, FrameType DEF Reply
  <2> QED  BY <1>2, <2>1, <2>2, <2>3, <2>4, <2>5 DEF HandlerStep
<1>3. ASSUME NEW r \in Requests, TaskStep(r) PROVE TypeOK'
  <2>1. ASSUME ClosureTypeOK', StartTask(r) \/ CreateTask(r) \/ DescribeTask(r)
                 \/ BatchTask(r) \/ DeviceTask(r) \/ JudgeTask(r) \/ ExplainTask(r)
        PROVE  TypeOK'
    BY <2>1, FrameType DEF StartTask, CreateTask, DescribeTask, BatchTask,
                           DeviceTask, JudgeTask, ExplainTask
  <2>2. Targets[r][1] \in Machines
    BY TargetsType
  <2>3. CASE StartTask(r)
    BY <2>1, <2>3 DEF StartTask, GoTo, ClosureTypeOK, TaskPcs
  <2>4. CASE CreateTask(r)
    <3>1. CASE Panic(r)
      BY <2>1, <2>4, <3>1, PanicType
    <3>2. ASSUME NEW v \in {"success", "failed"},
                 NEW pc \in {"describing", "calling"},
                 Visited(r, v), GoTo(r, pc), UNCHANGED panicked
          PROVE  ClosureTypeOK'
      BY <3>2, VisitedType DEF Outcomes, TaskPcs
    <3> QED  BY <2>1, <2>4, <3>1, <3>2 DEF CreateTask
  <2>5. CASE DescribeTask(r)
    BY <2>1, <2>5, PanicType, GoToType DEF DescribeTask, TaskPcs
  <2>6. CASE BatchTask(r)
    <3>1. CASE Panic(r)
      BY <2>1, <2>6, <3>1, PanicType
    <3>2. ASSUME NEW v \in Outcomes, NEW pc \in {"running", "calling"},
                 Visited(r, v), GoTo(r, pc), UNCHANGED panicked
          PROVE  ClosureTypeOK'
      BY <3>2, VisitedType DEF TaskPcs
    <3> QED  BY <2>1, <2>6, <3>1, <3>2 DEF BatchTask
  <2>7. CASE DeviceTask(r)
    <3>1. CASE Panic(r)
      BY <2>1, <2>7, <3>1, PanicType
    <3>2. ASSUME NEW v \in {"success", "failed"},
                 Visited(r, v), GoTo(r, "calling"), UNCHANGED panicked
          PROVE  ClosureTypeOK'
      BY <3>2, VisitedType DEF Outcomes, TaskPcs
    <3> QED  BY <2>1, <2>7, <3>1, <3>2 DEF DeviceTask
  <2>8. CASE ReconfigureTask(r)
    <3>1. ClosureTypeOK'
      <4>1. CASE Panic(r)
        BY <4>1, PanicType
      <4>2. ASSUME NEW v \in {"success", "failed"}, turn[r] < Len(Targets[r]), Turn(r, v),
                   UNCHANGED report, GoTo(r, "judging"), UNCHANGED panicked
            PROVE  ClosureTypeOK'
        BY <4>2, TurnType DEF Outcomes, TaskPcs
      <4> QED  BY <2>8, <4>1, <4>2 DEF ReconfigureTask
    <3>2. HandlerTypeOK'
      BY <2>8 DEF ReconfigureTask, HandlerTypeOK, handler
    <3> QED  BY <2>8, <3>1, <3>2, FrameType DEF ReconfigureTask
  <2>9. CASE JudgeTask(r)
    <3>1. ASSUME Note(r, Targets[r][1], "success"), GoTo(r, "calling"),
                 UNCHANGED <<turn, effect, panicked>>
          PROVE  ClosureTypeOK'
      BY <2>2, <3>1, NoteType DEF Outcomes, TaskPcs
    <3>2. ASSUME GoTo(r, "explaining"), UNCHANGED <<turn, report, effect, panicked>>
          PROVE  ClosureTypeOK'
      BY <3>2, GoToType DEF TaskPcs
    <3> QED  BY <2>1, <2>9, <3>1, <3>2 DEF JudgeTask
  <2>10. CASE ExplainTask(r)
    <3>1. ASSUME Note(r, Targets[r][1], "failed"), GoTo(r, "calling"),
                 UNCHANGED <<turn, effect, panicked>>
          PROVE  ClosureTypeOK'
      BY <2>2, <3>1, NoteType DEF Outcomes, TaskPcs
    <3> QED  BY <2>1, <2>10, <3>1, PanicType DEF ExplainTask
  <2>11. CASE CallBack(r)
    <3>1. report[r] \in Seq(Entry) /\ HasCallback[r] \in BOOLEAN
      BY ConstantsAssumption DEF ClosureTypeOK
    <3>2. (calls \in SUBSET Call)'
      BY <2>11, <3>1, SendType DEF CallBack
    <3>3. ClosureTypeOK'
      BY <2>11, PanicType, GoToType DEF CallBack, TaskPcs
    <3> QED  BY <2>11, <3>2, <3>3, FrameType DEF CallBack
  <2>12. CASE Finish(r)
    <3>1. ClosureTypeOK'
      BY <2>12, GoToType DEF Finish, TaskPcs
    <3> QED  BY <2>12, <3>1, FrameType, DeleteType DEF Finish
  <2> QED
    BY <1>3, <2>3, <2>4, <2>5, <2>6, <2>7, <2>8, <2>9, <2>10, <2>11, <2>12
    DEF TaskStep
<1>4. CASE StartupStep
  <2>1. CASE StartupRead
    <3>1. StoreTypeOK' /\ StartupTypeOK'
      BY <2>1 DEF StartupRead, StoreTypeOK, StartupTypeOK, process
    <3> QED  BY <2>1, <3>1, FrameType DEF StartupRead
  <2>2. CASE StartupDone
    <3>1. StartupTypeOK'
      BY <2>2 DEF StartupDone, StartupTypeOK, process
    <3> QED  BY <2>2, <3>1, FrameType DEF StartupDone
  <2>3. ASSUME NEW r \in Requests, StartupNotify(r) PROVE TypeOK'
    <3>1. CASE SendPanics(RecordedCallback(r))
      BY <2>3, <3>1, DieType DEF StartupNotify, StartupTypeOK
    <3>2. CASE ~SendPanics(RecordedCallback(r))
      <4>1. RecordedCallback(r) \in BOOLEAN /\ << >> \in Seq(Entry)
        BY EmptySeq DEF RecordedCallback
      <4>2. (calls \in SUBSET Call)'
        BY <2>3, <3>2, <4>1, SendType DEF StartupNotify
      <4>3. StartupTypeOK'
        BY <2>3, <3>2 DEF StartupNotify, StartupTypeOK, process
      <4> QED  BY <2>3, <3>2, <4>2, <4>3, FrameType DEF StartupNotify
    <3> QED  BY <3>1, <3>2
  <2>4. ASSUME NEW r \in Requests, StartupCancel(r) PROVE TypeOK'
    <3>1. StartupTypeOK'
      BY <2>4 DEF StartupCancel, StartupTypeOK, process
    <3> QED  BY <2>4, <3>1, FrameType, DeleteType DEF StartupCancel
  <2> QED  BY <1>4, <2>1, <2>2, <2>3, <2>4 DEF StartupStep
<1>5. CASE Crash
  <2>1. crashes' \in 0..MaxCrashes
    BY <1>5, ConstantsAssumption DEF Crash, StartupTypeOK
  <2> QED  BY <1>5, <2>1, DieType DEF Crash
<1>6. CASE Restart
  <2>1. StartupTypeOK'
    BY <1>6 DEF Restart, StartupTypeOK
  <2> QED  BY <1>6, <2>1, FrameType DEF Restart
<1>7. CASE UNCHANGED vars
  BY <1>7, FrameType DEF vars
<1> QED
  BY <1>1, <1>2, <1>3, <1>4, <1>5, <1>6, <1>7 DEF Next, Quiet

\* Every variable keeps its type, whatever fails; the startup goroutine lives
\* and dies with the process and marks one request only while it cancels it.
THEOREM TypeCorrect == Spec => []TypeOK
<1>1. Init => TypeOK
  <2>1. Init => ClosureTypeOK
    BY TargetsType, EmptySeq DEF Init, ClosureTypeOK, TaskPcs
  <2> QED
    BY <2>1, ConstantsAssumption
    DEF Init, TypeOK, StoreTypeOK, HandlerTypeOK, StartupTypeOK, HandlerPcs
<1>2. QED
  BY <1>1, TypeInductive, PTL DEF Spec

-----------------------------------------------------------------------------
(* No accepted request is lost silently.                                    *)

\* Callbacks, panics and failed writes are not taken back.
LEMMA HistoryGrows ==
    ASSUME [Next]_vars
    PROVE  /\ calls \subseteq calls'
           /\ panicked \subseteq panicked'
           /\ unsaved \subseteq unsaved'
<1> USE DEF vars, process, store, handler, closure, startup
<1>1. ASSUME NEW r \in Requests, ClientStep(r) \/ HandlerStep(r)
      PROVE  /\ calls \subseteq calls'
             /\ panicked \subseteq panicked'
             /\ unsaved \subseteq unsaved'
  BY <1>1 DEF ClientStep, HandlerStep, Refuse, ReceiveRequest, LookUp, Connect,
              ReceiveFound, AddTask, StoreErr, Reply, Receive, Delete
<1>2. ASSUME NEW r \in Requests, TaskStep(r)
      PROVE  /\ calls \subseteq calls'
             /\ panicked \subseteq panicked'
             /\ unsaved \subseteq unsaved'
  BY <1>2 DEF TaskStep, StartTask, CreateTask, DescribeTask, BatchTask, DeviceTask,
              ReconfigureTask, JudgeTask, ExplainTask, CallBack, Finish, Panic,
              Send, Delete
<1>3. ASSUME StartupStep
      PROVE  /\ calls \subseteq calls'
             /\ panicked \subseteq panicked'
             /\ unsaved \subseteq unsaved'
  BY <1>3 DEF StartupStep, StartupRead, StartupDone, StartupNotify,
              StartupCancel, Send, Delete, Die
<1>4. ASSUME Crash \/ Restart \/ Quiet \/ UNCHANGED vars
      PROVE  /\ calls \subseteq calls'
             /\ panicked \subseteq panicked'
             /\ unsaved \subseteq unsaved'
  BY <1>4 DEF Crash, Die, Restart, Quiet
<1> QED
  BY <1>1, <1>2, <1>3, <1>4 DEF Next

\* A record disappears in three places only.
LEMMA RecordRemoval ==
    ASSUME [Next]_vars, NEW r \in Requests, r \in db, r \notin db'
    PROVE  \/ hpc[r] = "stored" /\ Answer(r, "error")
           \/ tpc[r] = "finishing"
           \/ r \in notified
<1> USE DEF vars, process, store, handler, closure, startup
<1>1. ASSUME NEW q \in Requests, ClientStep(q)
      PROVE  db \subseteq db'
  BY <1>1 DEF ClientStep, Refuse, ReceiveRequest, LookUp, Receive
<1>2. ASSUME NEW q \in Requests, HandlerStep(q)
      PROVE  \/ db \subseteq db'
             \/ db \ {q} \subseteq db' /\ hpc[q] = "stored" /\ Answer(q, "error")
  BY <1>2 DEF HandlerStep, Connect, ReceiveFound, AddTask, StoreErr, Reply,
              Receive, Delete
<1>3. ASSUME NEW q \in Requests, TaskStep(q)
      PROVE  \/ db \subseteq db'
             \/ db \ {q} \subseteq db' /\ tpc[q] = "finishing"
  BY <1>3 DEF TaskStep, StartTask, CreateTask, DescribeTask, BatchTask, DeviceTask,
              ReconfigureTask, JudgeTask, ExplainTask, CallBack, Finish, Delete
<1>4. ASSUME StartupStep
      PROVE  \/ db \subseteq db'
             \/ \E q \in notified : db \ {q} \subseteq db'
  BY <1>4 DEF StartupStep, StartupRead, StartupDone, StartupNotify,
              StartupCancel, Delete, Die
<1>5. ASSUME Crash \/ Restart \/ Quiet \/ UNCHANGED vars
      PROVE  db \subseteq db'
  BY <1>5 DEF Crash, Die, Restart, Quiet
<1> QED
  BY <1>1, <1>2, <1>3, <1>4, <1>5 DEF Next

\* A handler passes Receive before it waits for anything else, and answers
\* "accepted" from "stored".
LEMMA HandlerMoves ==
    ASSUME TypeOK, [Next]_vars, NEW r \in Requests
    PROVE  /\ hpc'[r] \in {"recorded", "ready", "submitted", "stored"} =>
                \/ hpc[r] \in {"recorded", "ready", "submitted", "stored"}
                \/ r \in db' \/ r \in unsaved'
           /\ reply'[r] = "accepted" => reply[r] = "accepted" \/ hpc[r] = "stored"
<1> USE DEF vars, process, store, handler, closure, startup, TypeOK, HandlerTypeOK
<1> DEFINE Busy == {"recorded", "ready", "submitted", "stored"}
           P == /\ hpc'[r] \in Busy => hpc[r] \in Busy \/ r \in db' \/ r \in unsaved'
                /\ reply'[r] = "accepted" =>
                      reply[r] = "accepted" \/ hpc[r] = "stored"
<1>1. ASSUME NEW q \in Requests, ClientStep(q) PROVE P
  BY <1>1 DEF ClientStep, Refuse, ReceiveRequest, LookUp, Receive, Answer, Proceed
<1>2. ASSUME NEW q \in Requests, HandlerStep(q) PROVE P
  <2>1. CASE Connect(q)
    BY <2>1 DEF Connect, Answer, Proceed
  <2>2. CASE ReceiveFound(q)
    BY <2>2 DEF ReceiveFound, Receive, Proceed
  <2>3. CASE AddTask(q) \/ StoreErr(q)
    BY <2>3 DEF AddTask, StoreErr, Proceed
  <2>4. CASE Reply(q)
    BY <2>4 DEF Reply, Answer
  <2> QED  BY <1>2, <2>1, <2>2, <2>3, <2>4 DEF HandlerStep
<1>3. ASSUME NEW q \in Requests, TaskStep(q) PROVE P
  BY <1>3 DEF TaskStep, StartTask, CreateTask, DescribeTask, BatchTask, DeviceTask,
              ReconfigureTask, JudgeTask, ExplainTask, CallBack, Finish
<1>4. ASSUME Die PROVE P
  BY <1>4 DEF Die
<1>5. ASSUME StartupStep PROVE P
  BY <1>4, <1>5 DEF StartupStep, StartupRead, StartupDone, StartupNotify, StartupCancel
<1>6. ASSUME Crash \/ Restart \/ Quiet \/ UNCHANGED vars PROVE P
  BY <1>4, <1>6 DEF Crash, Restart, Quiet
<1> QED
  BY <1>1, <1>2, <1>3, <1>5, <1>6 DEF Next

\* Who is sent a callback has been called.
LEMMA SendCalls ==
    ASSUME NEW r, NEW kind, NEW own, NEW body, Send(r, kind, own, body)
    PROVE  Called(r)'
<1> DEFINE c == [req |-> r, kind |-> kind, to |-> IF own THEN "own" ELSE "default",
                 body |-> body]
<1>1. c \in calls' /\ c.req = r
  BY DEF Send
<1> QED
  BY <1>1 DEF Called

\* A closure reaches its deferred Done, and startup its Cancel, after a
\* callback or a panic.
LEMMA DoneAfterCallback ==
    ASSUME TypeOK, [Next]_vars, NEW r \in Requests
    PROVE  /\ tpc'[r] = "finishing" => \/ tpc[r] = "finishing"
                                       \/ r \in panicked' \/ Called(r)'
           /\ r \in notified' => r \in notified \/ Called(r)'
<1> USE DEF vars, process, store, handler, closure, startup, TypeOK, ClosureTypeOK
<1> DEFINE P == tpc'[r] = "finishing" => \/ tpc[r] = "finishing"
                                         \/ r \in panicked' \/ Called(r)'
           Q == r \in notified' => r \in notified \/ Called(r)'
<1>1. ASSUME NEW q \in Requests, ClientStep(q) PROVE P /\ Q
  BY <1>1 DEF ClientStep, Refuse, ReceiveRequest, LookUp
<1>2. ASSUME NEW q \in Requests, HandlerStep(q) PROVE P /\ Q
  BY <1>2 DEF HandlerStep, Connect, ReceiveFound, AddTask, StoreErr, Reply
<1>3. ASSUME NEW q \in Requests, TaskStep(q) PROVE P /\ Q
  <2>1. CASE CallBack(q)
    <3>1. CASE SendPanics(HasCallback[q])
      BY <2>1, <3>1 DEF CallBack, Panic
    <3>2. CASE ~SendPanics(HasCallback[q])
      BY <2>1, <3>2, SendCalls DEF CallBack, GoTo
    <3> QED  BY <3>1, <3>2
  <2>2. CASE StartTask(q) \/ DescribeTask(q) \/ Finish(q)
    BY <2>2 DEF StartTask, DescribeTask, Finish, GoTo, Panic
  <2>3. CASE CreateTask(q) \/ BatchTask(q) \/ DeviceTask(q) \/ ReconfigureTask(q)
    BY <2>3 DEF CreateTask, BatchTask, DeviceTask, ReconfigureTask, GoTo, Panic
  <2>4. CASE JudgeTask(q) \/ ExplainTask(q)
    BY <2>4 DEF JudgeTask, ExplainTask, GoTo, Panic
  <2> QED  BY <1>3, <2>1, <2>2, <2>3, <2>4 DEF TaskStep
<1>4. ASSUME Die PROVE P /\ Q
  BY <1>4 DEF Die
<1>5. ASSUME StartupStep PROVE P /\ Q
  <2>1. ASSUME NEW q \in Requests, StartupNotify(q) PROVE P /\ Q
    <3>1. CASE SendPanics(RecordedCallback(q))
      BY <1>4, <2>1, <3>1 DEF StartupNotify
    <3>2. CASE ~SendPanics(RecordedCallback(q))
      BY <2>1, <3>2, SendCalls DEF StartupNotify
    <3> QED  BY <3>1, <3>2
  <2> QED  BY <1>5, <2>1 DEF StartupStep, StartupRead, StartupDone, StartupCancel
<1>6. ASSUME Crash \/ Restart \/ Quiet \/ UNCHANGED vars PROVE P /\ Q
  BY <1>4, <1>6 DEF Crash, Restart, Quiet
<1> QED
  BY <1>1, <1>2, <1>3, <1>5, <1>6 DEF Next

LEMMA RecordInductive == TypeOK /\ RecordInv /\ [Next]_vars => RecordInv'
<1> SUFFICES ASSUME TypeOK, RecordInv, [Next]_vars, NEW r \in Requests
             PROVE  /\ hpc'[r] \in {"recorded", "ready", "submitted", "stored"} =>
                          Covered(r)'
                    /\ reply'[r] = "accepted" => Covered(r)'
                    /\ tpc'[r] = "finishing" => r \in panicked' \/ Called(r)'
                    /\ r \in notified' => Called(r)'
  BY DEF RecordInv
<1>1. Called(r) => Called(r)'
  BY HistoryGrows DEF Called
<1>2. (tpc'[r] = "finishing" => r \in panicked' \/ Called(r)')
      /\ (r \in notified' => Called(r)')
  BY <1>1, HistoryGrows, DoneAfterCallback DEF RecordInv
<1>3. Covered(r) => Covered(r)' \/ (hpc[r] = "stored" /\ Answer(r, "error"))
  BY <1>1, HistoryGrows, RecordRemoval DEF RecordInv, Covered
<1>4. ASSUME Answer(r, "error")
      PROVE  hpc'[r] = "replied" /\ reply'[r] = "error"
  BY <1>4 DEF Answer, TypeOK, HandlerTypeOK
<1>5. hpc'[r] \in {"recorded", "ready", "submitted", "stored"} => Covered(r)'
  BY <1>3, <1>4, HandlerMoves DEF RecordInv, Covered
<1>6. reply'[r] = "accepted" => Covered(r)'
  BY <1>3, <1>4, HandlerMoves DEF RecordInv
<1> QED
  BY <1>2, <1>5, <1>6

\* No accepted request is lost silently, for any number of requests, crashes
\* and failures of badger: until its client is called back, its record is in
\* badger, unless its closure panicked or Set did not write it.
THEOREM Recoverable == Spec => []AcceptedIsRecoverable
<1>1. Init => RecordInv
  BY DEF Init, RecordInv
<1>2. RecordInv => AcceptedIsRecoverable
  BY DEF RecordInv, AcceptedIsRecoverable, Covered
<1> QED
  BY <1>1, <1>2, TypeCorrect, RecordInductive, PTL DEF Spec

-----------------------------------------------------------------------------
(* What a request may do to the machines.                                   *)

\* What one step may do to the machines of a request: nothing, or the next turn.
OneTurn(r) ==
    effect'[r] # effect[r] =>
        /\ Len(effect[r]) < Len(Targets[r])
        /\ \E v \in Outcomes :
              effect'[r] = Append(effect[r],
                                  [id |-> Targets[r][Len(effect[r]) + 1], how |-> v])

\* A step of a handler or of a client leaves the closure of every request where
\* it is, except that AddTask queues its own.
LEMMA HandlerProgress ==
    ASSUME TypeOK, ProgressInv, NEW q \in Requests,
           ClientStep(q) \/ HandlerStep(q), NEW r \in Requests
    PROVE  ProgressOf(r)' /\ OneTurn(r)
<1>0. ProgressOf(r) /\ ProgressOf(q)
  BY DEF ProgressInv
<1> USE DEF handler, closure, TypeOK, HandlerTypeOK, ClosureTypeOK, ProgressOf,
            OneTurn, OwnErr
<1>1. CASE Refuse(q)
  BY <1>0, <1>1 DEF Refuse, Answer
<1>2. CASE ReceiveRequest(q)
  BY <1>0, <1>2 DEF ReceiveRequest, Proceed
<1>3. CASE LookUp(q)
  BY <1>0, <1>3 DEF LookUp, Proceed, Answer
<1>4. CASE Connect(q)
  BY <1>0, <1>4 DEF Connect, Proceed, Answer
<1>5. CASE ReceiveFound(q)
  BY <1>0, <1>5 DEF ReceiveFound, Proceed
<1>6. CASE AddTask(q)
  BY <1>0, <1>6 DEF AddTask, Proceed
<1>7. CASE StoreErr(q)
  BY <1>0, <1>7 DEF StoreErr, Proceed
<1>8. CASE Reply(q)
  BY <1>0, <1>8 DEF Reply, Answer, RacyErr
<1> QED
  BY <1>1, <1>2, <1>3, <1>4, <1>5, <1>6, <1>7, <1>8 DEF ClientStep, HandlerStep

\* A turn of the loop.
LEMMA TurnProgress ==
    ASSUME TypeOK, ProgressInv, NEW q \in Requests, NEW v \in Outcomes,
           NEW pc \in TaskPcs \ {"none", "queued"}, GoTo(q, pc),
           turn[q] < Len(Targets[q]), Turn(q, v),
           tpc[q] = "running", UNCHANGED handler, NEW r \in Requests,
           OwnErr(r) => err'[r] = err[r]
    PROVE  ProgressOf(r)' /\ OneTurn(r)
<1>0. ProgressOf(r) /\ ProgressOf(q)
  BY DEF ProgressInv
<1>1. CASE r = q
  <2>1. /\ effect[q] \in Seq(Entry) /\ turn[q] \in Nat /\ Current(q) \in Machines
        /\ Len(effect[q]) = turn[q]
    BY <1>0, CurrentType DEF TypeOK, ClosureTypeOK, ProgressOf
  <2>2. /\ effect'[q] = Append(effect[q], [id |-> Current(q), how |-> v])
        /\ turn'[q] = turn[q] + 1
    BY DEF Turn, TypeOK, ClosureTypeOK
  <2>3. OneTurn(q)
    BY <2>1, <2>2 DEF OneTurn, Current
  <2>4. Len(effect'[q]) = turn'[q]
    BY <2>1, <2>2, AppendEntry
  <2>5. ASSUME NEW i \in 1..turn'[q] PROVE effect'[q][i].id = Targets[q][i]
    <3>1. CASE i \in 1..turn[q]
      <4>1. effect'[q][i] = effect[q][i]
        BY <2>1, <2>2, <3>1, AppendEntry
      <4> QED  BY <1>0, <3>1, <4>1 DEF ProgressOf
    <3>2. CASE i = turn[q] + 1
      <4>1. effect'[q][i] = [id |-> Current(q), how |-> v]
        BY <2>1, <2>2, <3>2, AppendEntry
      <4> QED  BY <3>2, <4>1 DEF Current
    <3> QED  BY <2>1, <2>2, <3>1, <3>2
  <2>6. tpc'[q] = pc
    BY DEF GoTo, TypeOK, ClosureTypeOK
  <2>7. UNCHANGED <<hpc, reply>>
    BY DEF handler
  <2> QED
    BY <1>0, <1>1, <2>3, <2>4, <2>5, <2>6, <2>7 DEF ProgressOf, OwnErr
<1>2. CASE r # q
  <2>1. effect'[r] = effect[r] /\ turn'[r] = turn[r] /\ tpc'[r] = tpc[r]
    BY <1>2 DEF Turn, GoTo, TypeOK, ClosureTypeOK
  <2> QED
    BY <1>0, <2>1 DEF handler, ProgressOf, OneTurn, OwnErr
<1> QED
  BY <1>1, <1>2

\* A step of a closure that visits no machine.
LEMMA StayProgress ==
    ASSUME TypeOK, ProgressInv, NEW q \in Requests,
           NEW pc \in TaskPcs \ {"none", "queued"}, GoTo(q, pc),
           tpc[q] \notin {"none", "queued"},
           UNCHANGED <<handler, err, turn, effect>>, NEW r \in Requests
    PROVE  ProgressOf(r)' /\ OneTurn(r)
<1>0. ProgressOf(r)
  BY DEF ProgressInv
<1> QED
  BY <1>0 DEF GoTo, handler, TypeOK, HandlerTypeOK, ClosureTypeOK, ProgressOf,
              OneTurn, OwnErr, TaskPcs

LEMMA TaskProgress ==
    ASSUME TypeOK, ProgressInv, NEW q \in Requests, TaskStep(q), NEW r \in Requests
    PROVE  ProgressOf(r)' /\ OneTurn(r)
<1> DEFINE Goal == ProgressOf(r)' /\ OneTurn(r)
<1>1. ASSUME Panic(q), UNCHANGED <<handler, err>>, tpc[q] \notin {"none", "queued"}
      PROVE  Goal
  BY <1>1, StayProgress DEF Panic, GoTo, TaskPcs
<1>2. CASE StartTask(q)
  <2>1. ProgressOf(r) /\ ProgressOf(q)
    BY DEF ProgressInv
  <2> QED
    BY <1>2, <2>1 DEF StartTask, GoTo, handler, TypeOK, HandlerTypeOK,
       ClosureTypeOK, ProgressOf, OneTurn, OwnErr
<1>3. CASE CreateTask(q)
  <2>1. ASSUME NEW v \in {"success", "failed"}, NEW pc \in {"describing", "calling"},
               Visited(q, v), GoTo(q, pc)
        PROVE  Goal
    BY <1>3, <2>1, TurnProgress DEF CreateTask, TaskPcs, Visited, Outcomes
  <2> QED  BY <1>1, <1>3, <2>1 DEF CreateTask
<1>4. CASE DescribeTask(q)
  BY <1>1, <1>4, StayProgress DEF DescribeTask, TaskPcs
<1>5. CASE BatchTask(q)
  <2>1. ASSUME NEW v \in Outcomes, NEW pc \in {"running", "calling"},
               Visited(q, v), GoTo(q, pc)
        PROVE  Goal
    BY <1>5, <2>1, TurnProgress DEF BatchTask, TaskPcs, Visited
  <2> QED  BY <1>1, <1>5, <2>1 DEF BatchTask
<1>6. CASE DeviceTask(q)
  <2>1. ASSUME NEW v \in {"success", "failed"}, Visited(q, v), GoTo(q, "calling")
        PROVE  Goal
    BY <1>6, <2>1, TurnProgress DEF DeviceTask, TaskPcs, Visited, Outcomes
  <2> QED  BY <1>1, <1>6, <2>1 DEF DeviceTask
<1>7. CASE ReconfigureTask(q)
  <2>1. CASE Panic(q) /\ UNCHANGED err
    BY <1>1, <1>7, <2>1 DEF ReconfigureTask
  <2>2. ASSUME NEW v \in {"success", "failed"}, turn[q] < Len(Targets[q]),
               Turn(q, v), GoTo(q, "judging"),
               err' = [err EXCEPT ![q] = IF v = "failed" THEN "error" ELSE "nil"]
        PROVE  Goal
    <3>1. OwnErr(r) => err'[r] = err[r]
      BY <1>7, <2>2 DEF ReconfigureTask, OwnErr, TypeOK, HandlerTypeOK
    <3> QED
      BY <1>7, <2>2, <3>1, TurnProgress DEF ReconfigureTask, TaskPcs, Outcomes
  <2> QED  BY <1>7, <2>1, <2>2 DEF ReconfigureTask
<1>8. CASE JudgeTask(q)
  BY <1>8, StayProgress DEF JudgeTask, TaskPcs
<1>9. CASE ExplainTask(q)
  BY <1>1, <1>9, StayProgress DEF ExplainTask, TaskPcs
<1>10. CASE CallBack(q)
  BY <1>1, <1>10, StayProgress DEF CallBack, TaskPcs
<1>11. CASE Finish(q)
  BY <1>11, StayProgress DEF Finish, TaskPcs
<1> QED
  BY <1>2, <1>3, <1>4, <1>5, <1>6, <1>7, <1>8, <1>9, <1>10, <1>11 DEF TaskStep

\* Startup, crash and restart touch no machine.
LEMMA ProcessProgress ==
    ASSUME TypeOK, ProgressInv, NEW r \in Requests,
           StartupStep \/ Crash \/ Restart \/ UNCHANGED vars
    PROVE  ProgressOf(r)' /\ OneTurn(r)
<1>0. ProgressOf(r)
  BY DEF ProgressInv
<1>1. ASSUME Die PROVE ProgressOf(r)' /\ OneTurn(r)
  BY <1>0, <1>1 DEF Die, TypeOK, HandlerTypeOK, ClosureTypeOK, ProgressOf,
                    OneTurn, OwnErr
<1>2. ASSUME UNCHANGED <<handler, err, closure>>
      PROVE  ProgressOf(r)' /\ OneTurn(r)
  BY <1>0, <1>2 DEF handler, closure, ProgressOf, OneTurn, OwnErr
<1> QED
  BY <1>1, <1>2 DEF StartupStep, StartupRead, StartupDone, StartupNotify,
                    StartupCancel, Crash, Restart, vars

LEMMA ProgressInductive ==
    ASSUME TypeOK, ProgressInv, [Next]_vars
    PROVE  ProgressInv' /\ \A r \in Requests : OneTurn(r)
<1>1. ASSUME NEW r \in Requests PROVE ProgressOf(r)' /\ OneTurn(r)
  BY HandlerProgress, TaskProgress, ProcessProgress DEF Next, Quiet
<1> QED
  BY <1>1 DEF ProgressInv

LEMMA ProgressCorrect == Spec => []ProgressInv
<1>1. Init => ProgressInv
  BY DEF Init, ProgressInv, ProgressOf
<1>2. TypeOK /\ ProgressInv /\ [Next]_vars => ProgressInv'
  BY ProgressInductive
<1> QED
  BY <1>1, <1>2, TypeCorrect, PTL DEF Spec

\* A request answered with 400 or 500 starts nothing in vCenter, for every
\* handler but reconfigure, whose closure assigns the handler's err.
THEOREM RefusedSafe == Spec => []RefusedRunsNothing
<1>1. ProgressInv => RefusedRunsNothing
  BY DEF ProgressInv, ProgressOf, RefusedRunsNothing
<1> QED
  BY <1>1, ProgressCorrect, PTL

\* A closure gives each entry of the list of its request one turn, in order, and
\* never another, through any number of crashes and restarts
\* (virtual_machine_v1.go:218, 499, 568, 637; startup.go:17-42).
THEOREM NeverTwice == Spec => OneTurnEach
<1>1. TypeOK /\ ProgressInv /\ [Next]_vars =>
        [\A r \in Requests :
            effect'[r] # effect[r] =>
                /\ Len(effect[r]) < Len(Targets[r])
                /\ \E v \in Outcomes :
                      effect'[r] = Append(effect[r],
                                          [id |-> Targets[r][Len(effect[r]) + 1],
                                           how |-> v])]_vars
  BY ProgressInductive DEF OneTurn
<1> QED
  BY <1>1, TypeCorrect, ProgressCorrect, PTL DEF Spec, OneTurnEach

-----------------------------------------------------------------------------
(* What a report says.                                                       *)

\* What a closure leaves to the other closures.
LEMMA ClosureFrame ==
    ASSUME TypeOK, NEW q \in Requests, TaskStep(q), NEW r \in Requests, r # q
    PROVE  /\ tpc'[r] = tpc[r] /\ turn'[r] = turn[r]
           /\ report'[r] = report[r] /\ effect'[r] = effect[r]
<1> USE DEF TypeOK, ClosureTypeOK
<1>1. CASE StartTask(q) \/ DescribeTask(q) \/ Finish(q)
  BY <1>1 DEF StartTask, DescribeTask, Finish, GoTo, Panic
<1>2. CASE CreateTask(q) \/ BatchTask(q) \/ DeviceTask(q) \/ ReconfigureTask(q)
  BY <1>2 DEF CreateTask, BatchTask, DeviceTask, ReconfigureTask, Visited, Turn, Note, GoTo, Panic
<1>3. CASE JudgeTask(q) \/ ExplainTask(q) \/ CallBack(q)
  BY <1>3 DEF JudgeTask, ExplainTask, CallBack, Note, GoTo, Panic
<1> QED
  BY <1>1, <1>2, <1>3 DEF TaskStep

\* A turn that notes what it did.
LEMMA VisitTruth ==
    ASSUME TypeOK, NEW q \in Requests, TruthOf(q), tpc[q] = "running",
           NEW v \in Outcomes, Visited(q, v),
           NEW pc \in {"running", "describing", "calling"}, GoTo(q, pc),
           pc = "running" \/ LastTurn(q)
    PROVE  TruthOf(q)'
<1>1. /\ effect'[q] = Append(effect[q], [id |-> Current(q), how |-> v])
      /\ report'[q] = Append(report[q], [id |-> Current(q), how |-> v])
      /\ turn'[q] = turn[q] + 1 /\ tpc'[q] = pc
  BY DEF Visited, Turn, Note, GoTo, TypeOK, ClosureTypeOK
<1> QED
  BY <1>1 DEF TruthOf, LastTurn

\* A closure that handles one machine takes one turn.
LEMMA SingleTurn ==
    ASSUME TypeOK, NEW q \in Requests, Operation[q] \notin Batch,
           turn[q] < Len(Targets[q])
    PROVE  LastTurn(q)
<1>1. Len(Targets[q]) = 1
  BY ConstantsAssumption
<1> QED
  BY <1>1 DEF LastTurn, TypeOK, ClosureTypeOK

\* A closure that moves on without a note.
LEMMA StayTruth ==
    ASSUME NEW q \in Requests, TruthOf(q), UNCHANGED <<turn, report, effect>>,
           \/ tpc'[q] \in {"none", "queued", "finishing", "finished", "dead"}
           \/ tpc'[q] = "calling" /\ tpc[q] = "describing"
           \/ tpc'[q] = tpc[q]
    PROVE  TruthOf(q)'
  BY DEF TruthOf

LEMMA TaskTruth ==
    ASSUME TypeOK, NEW q \in Requests, TaskStep(q), OwnErr(q), TruthOf(q)
    PROVE  TruthOf(q)'
<1> USE DEF TypeOK, ClosureTypeOK
<1>1. ASSUME Panic(q) PROVE TruthOf(q)'
  BY <1>1, StayTruth DEF Panic
<1>2. CASE StartTask(q)
  BY <1>2 DEF StartTask, GoTo, TruthOf
<1>3. CASE CreateTask(q)
  <2>1. ASSUME NEW v \in {"success", "failed"}, NEW pc \in {"describing", "calling"},
               Visited(q, v), GoTo(q, pc)
        PROVE  TruthOf(q)'
    <3>1. LastTurn(q) /\ tpc[q] = "running"
      BY <1>3, <2>1, SingleTurn DEF CreateTask, Batch, Visited
    <3> QED  BY <2>1, <3>1, VisitTruth DEF Outcomes
  <2> QED  BY <1>1, <1>3, <2>1 DEF CreateTask
<1>4. CASE DescribeTask(q)
  BY <1>1, <1>4, StayTruth DEF DescribeTask, GoTo
<1>5. CASE BatchTask(q)
  <2>1. ASSUME NEW v \in Outcomes, Visited(q, v),
               GoTo(q, IF LastTurn(q) THEN "calling" ELSE "running")
        PROVE  TruthOf(q)'
    <3>1. tpc[q] = "running"
      BY <1>5 DEF BatchTask
    <3>2. CASE LastTurn(q)
      BY <2>1, <3>1, <3>2, VisitTruth
    <3>3. CASE ~LastTurn(q)
      BY <2>1, <3>1, <3>3, VisitTruth
    <3> QED  BY <3>2, <3>3
  <2> QED  BY <1>1, <1>5, <2>1 DEF BatchTask
<1>6. CASE DeviceTask(q)
  <2>1. ASSUME NEW v \in {"success", "failed"}, Visited(q, v), GoTo(q, "calling")
        PROVE  TruthOf(q)'
    <3>1. LastTurn(q) /\ tpc[q] = "running"
      BY <1>6, <2>1, SingleTurn DEF DeviceTask, Device, Batch, Visited
    <3> QED  BY <2>1, <3>1, VisitTruth DEF Outcomes
  <2> QED  BY <1>1, <1>6, <2>1 DEF DeviceTask
<1>7. ~ReconfigureTask(q) /\ ~JudgeTask(q) /\ ~ExplainTask(q)
  BY DEF ReconfigureTask, JudgeTask, ExplainTask, TruthOf, OwnErr
<1>8. CASE CallBack(q)
  BY <1>1, <1>8, StayTruth DEF CallBack, GoTo
<1>9. CASE Finish(q)
  BY <1>9, StayTruth DEF Finish, GoTo
<1> QED
  BY <1>2, <1>3, <1>4, <1>5, <1>6, <1>7, <1>8, <1>9 DEF TaskStep

\* Steps that are not of the closure of r, from which it may start or die.
LEMMA OtherTruth ==
    ASSUME TypeOK, [Next]_vars, NEW r \in Requests, ~TaskStep(r)
    PROVE  /\ turn'[r] = turn[r] /\ report'[r] = report[r] /\ effect'[r] = effect[r]
           /\ \/ tpc'[r] = tpc[r]
              \/ tpc'[r] = "queued" /\ hpc[r] = "ready"
              \/ tpc'[r] = "dead"
<1> USE DEF closure, TypeOK, ClosureTypeOK
<1> DEFINE P == /\ turn'[r] = turn[r] /\ report'[r] = report[r] /\ effect'[r] = effect[r]
                /\ \/ tpc'[r] = tpc[r]
                   \/ tpc'[r] = "queued" /\ hpc[r] = "ready"
                   \/ tpc'[r] = "dead"
<1>1. ASSUME NEW q \in Requests, ClientStep(q) \/ HandlerStep(q) PROVE P
  <2>1. CASE AddTask(q)
    BY <2>1 DEF AddTask, Proceed
  <2> QED
    BY <1>1, <2>1 DEF ClientStep, HandlerStep, Refuse, ReceiveRequest, LookUp, Connect,
       ReceiveFound, StoreErr, Reply
<1>2. ASSUME NEW q \in Requests, TaskStep(q) PROVE P
  BY <1>2, ClosureFrame
<1>3. ASSUME Die PROVE P
  BY <1>3 DEF Die
<1>4. ASSUME StartupStep \/ Crash \/ Restart \/ Quiet \/ UNCHANGED vars PROVE P
  BY <1>3, <1>4 DEF StartupStep, StartupRead, StartupDone, StartupNotify,
                    StartupCancel, Crash, Restart, Quiet, vars
<1> QED
  BY <1>1, <1>2, <1>3, <1>4 DEF Next

\* A closure past its callback visits nothing and does not come back.
LEMMA PastIsPast ==
    ASSUME TypeOK, ProgressInv, [Next]_vars, NEW r \in Requests,
           tpc[r] \in {"finishing", "finished", "dead"}
    PROVE  /\ tpc'[r] \in {"finishing", "finished", "dead"}
           /\ effect'[r] = effect[r] /\ turn'[r] = turn[r]
<1>1. CASE TaskStep(r)
  <2>1. Finish(r)
    BY <1>1 DEF TaskStep, StartTask, CreateTask, DescribeTask, BatchTask, DeviceTask,
                ReconfigureTask, JudgeTask, ExplainTask, CallBack
  <2> QED  BY <2>1 DEF Finish, GoTo, TypeOK, ClosureTypeOK
<1>2. CASE ~TaskStep(r)
  BY <1>2, OtherTruth DEF ProgressInv, ProgressOf
<1> QED
  BY <1>1, <1>2

\* A report is sent by a closure that is about to call back, with what it noted.
LEMMA NewReports ==
    ASSUME TypeOK, [Next]_vars, NEW c \in calls', c \notin calls, c.kind = "report"
    PROVE  /\ c.req \in Requests /\ tpc[c.req] = "calling" /\ tpc'[c.req] = "finishing"
           /\ c.body = report[c.req] /\ UNCHANGED <<effect[c.req], turn[c.req]>>
<1>1. ASSUME NEW q \in Requests, CallBack(q)
      PROVE  /\ c.req \in Requests /\ tpc[c.req] = "calling" /\ tpc'[c.req] = "finishing"
             /\ c.body = report[c.req] /\ UNCHANGED <<effect[c.req], turn[c.req]>>
  <2>1. CASE SendPanics(HasCallback[q])
    BY <1>1, <2>1 DEF CallBack
  <2>2. CASE ~SendPanics(HasCallback[q])
    <3>1. c.req = q /\ c.body = report[q]
      BY <1>1, <2>2 DEF CallBack, Send
    <3> QED  BY <1>1, <2>2, <3>1 DEF CallBack, GoTo, TypeOK, ClosureTypeOK
  <2> QED  BY <2>1, <2>2
<1>2. ASSUME NEW q \in Requests, StartupNotify(q) PROVE FALSE
  BY <1>2 DEF StartupNotify, Send, Die
<1>3. ASSUME UNCHANGED calls PROVE FALSE
  BY <1>3
<1>4. ASSUME NEW q \in Requests, ClientStep(q) \/ HandlerStep(q) PROVE FALSE
  BY <1>3, <1>4 DEF ClientStep, HandlerStep, Refuse, ReceiveRequest, LookUp, Connect,
     ReceiveFound, AddTask, StoreErr, Reply
<1>5. ASSUME NEW q \in Requests, TaskStep(q), ~CallBack(q) PROVE FALSE
  BY <1>3, <1>5 DEF TaskStep, StartTask, CreateTask, DescribeTask, BatchTask, DeviceTask,
     ReconfigureTask, JudgeTask, ExplainTask, Finish
<1>6. ASSUME NEW q \in Requests, StartupCancel(q) PROVE FALSE
  BY <1>3, <1>6 DEF StartupCancel
<1>7. ASSUME StartupRead \/ StartupDone \/ Crash \/ Restart \/ UNCHANGED vars PROVE FALSE
  BY <1>3, <1>7 DEF StartupRead, StartupDone, Crash, Die, Restart, vars
<1> QED
  BY <1>1, <1>2, <1>4, <1>5, <1>6, <1>7 DEF Next, StartupStep, Quiet

LEMMA TruthInductive == TypeOK /\ ProgressInv /\ TruthInv /\ [Next]_vars => TruthInv'
<1> SUFFICES ASSUME TypeOK, ProgressInv, TruthInv, [Next]_vars PROVE TruthInv'
  OBVIOUS
<1>1. ASSUME NEW r \in Requests, OwnErr(r)
      PROVE  TruthOf(r)'
  <2>1. TruthOf(r)
    BY <1>1 DEF TruthInv
  <2>2. CASE TaskStep(r)
    BY <1>1, <2>1, <2>2, TaskTruth
  <2>3. CASE ~TaskStep(r)
    BY <2>1, <2>3, OtherTruth DEF TruthOf
  <2> QED  BY <2>2, <2>3
<1>2. ASSUME NEW c \in calls', c.kind = "report", OwnErr(c.req)
      PROVE  /\ tpc'[c.req] \in {"finishing", "finished", "dead"}
             /\ c.body = effect'[c.req]
             /\ turn'[c.req] = Len(Targets[c.req])
  <2>1. c.req \in Requests
    BY TypeInductive DEF TypeOK, Call
  <2>2. report'[c.req] = effect'[c.req]
    BY <1>1, <1>2, <2>1 DEF TruthOf
  <2>3. report[c.req] = effect[c.req]
    BY <1>2, <2>1 DEF TruthInv, TruthOf
  <2>4. CASE c \in calls
    <3>1. /\ tpc[c.req] \in {"finishing", "finished", "dead"}
          /\ c.body = effect[c.req] /\ turn[c.req] = Len(Targets[c.req])
      BY <1>2, <2>4 DEF TruthInv
    <3>2. /\ tpc'[c.req] \in {"finishing", "finished", "dead"}
          /\ effect'[c.req] = effect[c.req] /\ turn'[c.req] = turn[c.req]
      BY <2>1, <3>1, PastIsPast
    <3> QED  BY <2>2, <2>3, <3>1, <3>2
  <2>5. CASE c \notin calls
    <3>1. /\ tpc[c.req] = "calling" /\ tpc'[c.req] = "finishing"
          /\ c.body = report[c.req] /\ UNCHANGED <<effect[c.req], turn[c.req]>>
      BY <1>2, <2>5, NewReports
    <3>2. turn[c.req] = Len(Targets[c.req])
      BY <1>2, <2>1, <3>1 DEF TruthInv, TruthOf
    <3> QED  BY <2>2, <2>3, <3>1, <3>2
  <2> QED  BY <2>4, <2>5
<1> QED
  BY <1>1, <1>2 DEF TruthInv, OwnErr

\* A report lists every machine of its request, in order and as often as the
\* request does, under what was done to it, for every closure whose err is its
\* own (virtual_machine_v1.go:209-236, 350-376).
THEOREM ReportsAreTrue == Spec => []ReportIsTruthful
<1>1. Init => TruthInv
  BY DEF Init, TruthInv, TruthOf
<1>2. TypeOK /\ ProgressInv /\ TruthInv => ReportIsTruthful
  <2> SUFFICES ASSUME TypeOK, ProgressInv, TruthInv,
                      NEW c \in calls, c.kind = "report", OwnErr(c.req)
               PROVE  c.body = effect[c.req] /\ Ids(c.body) = Targets[c.req]
    BY DEF ReportIsTruthful
  <2>1. c.req \in Requests
    BY DEF TypeOK, Call
  <2>2. c.body = effect[c.req] /\ turn[c.req] = Len(Targets[c.req])
    BY DEF TruthInv
  <2>3. /\ effect[c.req] \in Seq(Entry) /\ Len(effect[c.req]) = Len(Targets[c.req])
        /\ \A i \in 1..Len(Targets[c.req]) : effect[c.req][i].id = Targets[c.req][i]
    BY <2>1, <2>2 DEF ProgressInv, ProgressOf, TypeOK, ClosureTypeOK
  <2>4. /\ DOMAIN effect[c.req] = 1..Len(Targets[c.req])
        /\ Targets[c.req] = [i \in 1..Len(Targets[c.req]) |-> Targets[c.req][i]]
    BY <2>1, <2>3, TargetsType, LenProperties
  <2>5. Ids(effect[c.req]) = [i \in 1..Len(Targets[c.req]) |-> Targets[c.req][i]]
    BY <2>3, <2>4 DEF Ids
  <2> QED  BY <2>2, <2>4, <2>5
<1> QED
  BY <1>1, <1>2, TypeCorrect, ProgressCorrect, TruthInductive, PTL DEF Spec

-----------------------------------------------------------------------------
(* Who owns a record.                                                        *)

\* A delete that fails leaves the record stuck, and nobody is unstuck.
LEMMA DeleteOwned ==
    ASSUME NEW r, Delete(r)
    PROVE  /\ stuck \subseteq stuck' /\ db' \subseteq db /\ db \ {r} \subseteq db'
           /\ r \in db' => r \in stuck'
  BY DEF Delete

\* A request that is left alone keeps its owner, and one that is not read any
\* more is known to the startup goroutine.
LEMMA AloneOwned ==
    ASSUME NEW r \in Requests, OwnedOf(r), UNCHANGED <<hpc, reply, tpc, alive>>,
           r \in db' => r \in db, stuck \subseteq stuck',
           alive /\ r \in db' /\ (spc = "reading" \/ r \in todo \cup notified)
              => spc' = "reading" \/ r \in todo' \cup notified' \/ r \in stuck'
    PROVE  OwnedOf(r)'
  BY DEF OwnedOf, Owned, HandlerBusy, TaskBusy

LEMMA HandlerOwned ==
    ASSUME TypeOK, ProgressInv, NEW q \in Requests, ClientStep(q) \/ HandlerStep(q),
           NEW r \in Requests, OwnedOf(r)
    PROVE  OwnedOf(r)'
<1> USE DEF process, store, closure, startup
<1>1. UNCHANGED <<alive, spc, todo, notified>>
  BY DEF ClientStep, HandlerStep, Refuse, ReceiveRequest, LookUp, Connect,
         ReceiveFound, AddTask, StoreErr, Reply
<1>2. CASE r # q
  <2>1. UNCHANGED stuck \/ stuck \subseteq stuck'
    BY DeleteOwned DEF ClientStep, HandlerStep, Refuse, ReceiveRequest, LookUp, Connect,
           ReceiveFound, AddTask, StoreErr, Reply, Receive
  <2>2. r \in db' => r \in db
    BY <1>2, DeleteOwned DEF ClientStep, HandlerStep, Refuse, ReceiveRequest, LookUp,
           Connect, ReceiveFound, AddTask, StoreErr, Reply, Receive
  <2>3. hpc'[r] = hpc[r] /\ reply'[r] = reply[r] /\ tpc'[r] = tpc[r]
    BY <1>2 DEF ClientStep, HandlerStep, Refuse, ReceiveRequest, LookUp, Connect,
           ReceiveFound, AddTask, StoreErr, Reply, Proceed, Answer, handler, TypeOK,
           HandlerTypeOK, ClosureTypeOK
  <2> QED  BY <1>1, <2>1, <2>2, <2>3 DEF OwnedOf, Owned, HandlerBusy, TaskBusy
<1>3. CASE r = q
  <2> USE DEF TypeOK, HandlerTypeOK, ClosureTypeOK, OwnedOf, Owned, HandlerBusy, TaskBusy
  <2>0. hpc[r] \in {"idle", "recorded", "found", "ready"} => tpc[r] = "none"
    BY DEF ProgressInv, ProgressOf
  <2>1. CASE Refuse(r)
    BY <2>0, <2>1 DEF Refuse, Answer
  <2>2. CASE ReceiveRequest(r)
    BY <1>1, <2>0, <2>2 DEF ReceiveRequest, Proceed, Receive
  <2>3. CASE LookUp(r)
    BY <2>0, <2>3 DEF LookUp, Proceed, Answer
  <2>4. CASE Connect(r)
    BY <2>0, <2>4 DEF Connect, Proceed, Answer
  <2>5. CASE ReceiveFound(r)
    BY <1>1, <2>0, <2>5 DEF ReceiveFound, Proceed, Receive
  <2>6. CASE AddTask(r)
    BY <2>6 DEF AddTask, Proceed
  <2>7. CASE StoreErr(r)
    BY <2>7 DEF StoreErr, Proceed
  <2>8. CASE Reply(r)
    <3>1. /\ hpc[r] = "stored" /\ hpc'[r] = "replied" /\ tpc'[r] = tpc[r]
          /\ stuck \subseteq stuck' /\ db' \subseteq db
      BY <2>8, DeleteOwned DEF Reply, Answer
    <3> QED  BY <1>1, <3>1
  <2> QED
    BY <1>3, <2>1, <2>2, <2>3, <2>4, <2>5, <2>6, <2>7, <2>8 DEF ClientStep, HandlerStep
<1> QED
  BY <1>2, <1>3

LEMMA TaskOwned ==
    ASSUME TypeOK, NEW q \in Requests, TaskStep(q), NEW r \in Requests, OwnedOf(r)
    PROVE  OwnedOf(r)'
<1> USE DEF process, store, handler, startup
<1>1. UNCHANGED <<alive, spc, todo, notified, hpc, reply>>
  BY DEF TaskStep, StartTask, CreateTask, DescribeTask, BatchTask, DeviceTask,
         ReconfigureTask, JudgeTask, ExplainTask, CallBack, Finish
<1>2. CASE Finish(q)
  <2>1. /\ stuck \subseteq stuck' /\ db' \subseteq db
        /\ q \in db' => q \in stuck'
        /\ tpc[q] = "finishing" /\ tpc' = [tpc EXCEPT ![q] = "finished"]
    BY <1>2, DeleteOwned DEF Finish, GoTo
  <2>2. CASE r = q
    BY <1>1, <2>1, <2>2 DEF OwnedOf, Owned, HandlerBusy, TaskBusy, TypeOK, ClosureTypeOK
  <2>3. CASE r # q
    BY <1>1, <2>1, <2>3 DEF OwnedOf, Owned, HandlerBusy, TaskBusy
  <2> QED  BY <2>2, <2>3
<1>3. CASE ~Finish(q)
  <2>1. UNCHANGED <<db, stuck>> /\ TaskBusy(q)
    BY <1>3 DEF TaskStep, StartTask, CreateTask, DescribeTask, BatchTask, DeviceTask,
                ReconfigureTask, JudgeTask, ExplainTask, CallBack, TaskBusy
  <2>2. TaskBusy(q)' /\ tpc'[q] # "finished"
    <3> USE DEF TypeOK, ClosureTypeOK, TaskBusy
    <3>1. CASE StartTask(q) \/ DescribeTask(q) \/ CreateTask(q) \/ BatchTask(q)
      BY <3>1 DEF StartTask, DescribeTask, CreateTask, BatchTask, GoTo, Panic
    <3>2. CASE DeviceTask(q) \/ ReconfigureTask(q)
      BY <3>2 DEF DeviceTask, ReconfigureTask, GoTo, Panic
    <3>3. CASE JudgeTask(q) \/ ExplainTask(q) \/ CallBack(q)
      BY <3>3 DEF JudgeTask, ExplainTask, CallBack, GoTo, Panic
    <3> QED  BY <1>3, <3>1, <3>2, <3>3 DEF TaskStep
  <2>3. CASE r = q
    BY <1>1, <2>1, <2>2, <2>3 DEF OwnedOf, Owned, HandlerBusy
  <2>4. CASE r # q
    <3>1. tpc'[r] = tpc[r]
      BY <2>4, ClosureFrame
    <3> QED  BY <1>1, <2>1, <3>1 DEF OwnedOf, Owned, HandlerBusy, TaskBusy
  <2> QED  BY <2>3, <2>4
<1> QED
  BY <1>2, <1>3

\* A process that has ended owns nothing, and needs not.
LEMMA DieOwned ==
    ASSUME TypeOK, Die, NEW r \in Requests, OwnedOf(r)
    PROVE  OwnedOf(r)'
<1>1. /\ ~alive' /\ UNCHANGED <<db, stuck>>
      /\ hpc'[r] = IF hpc[r] \in {"idle", "replied"} THEN hpc[r] ELSE "dead"
      /\ tpc'[r] = IF tpc[r] \in {"none", "finished"} THEN tpc[r] ELSE "dead"
  BY DEF Die, store
<1> QED
  BY <1>1 DEF OwnedOf

LEMMA StartupOwned ==
    ASSUME TypeOK, OneByOne, StartupStep \/ Restart, NEW r \in Requests, OwnedOf(r)
    PROVE  OwnedOf(r)'
<1> USE DEF process, store, handler, closure
<1>1. CASE StartupRead
  <2>1. /\ UNCHANGED <<alive, db, hpc, reply, tpc>> /\ stuck \subseteq stuck'
        /\ r \in db => r \in todo' \/ r \in stuck'
    BY <1>1 DEF StartupRead
  <2> QED  BY <2>1, AloneOwned
<1>2. CASE StartupDone
  <2>1. UNCHANGED <<alive, db, stuck, hpc, reply, tpc, todo, notified>> /\ spc = "notifying"
    BY <1>2 DEF StartupDone
  <2> QED  BY <2>1, AloneOwned
<1>3. ASSUME NEW q \in Requests, StartupNotify(q) PROVE OwnedOf(r)'
  <2>1. CASE SendPanics(RecordedCallback(q))
    BY <1>3, <2>1, DieOwned DEF StartupNotify
  <2>2. CASE ~SendPanics(RecordedCallback(q))
    <3>1. /\ UNCHANGED <<alive, db, stuck, hpc, reply, tpc>> /\ spc = "notifying"
          /\ todo' = todo \ {q} /\ notified' = {q}
      BY <1>3, <2>2 DEF StartupNotify
    <3>2. notified = {}
      BY <3>1 DEF TypeOK, StartupTypeOK
    <3> QED  BY <3>1, <3>2, AloneOwned
  <2> QED  BY <2>1, <2>2
<1>4. ASSUME NEW q \in Requests, StartupCancel(q) PROVE OwnedOf(r)'
  <2>1. /\ UNCHANGED <<alive, hpc, reply, tpc, todo>> /\ spc = "cancelling"
        /\ stuck \subseteq stuck' /\ db' \subseteq db
        /\ q \in db' => q \in stuck'
    BY <1>4, DeleteOwned DEF StartupCancel
  <2>2. r \in notified => r = q
    BY <1>4 DEF StartupCancel, OneByOne
  <2> QED  BY <2>1, <2>2, AloneOwned
<1>5. CASE Restart
  <2>1. UNCHANGED <<db, stuck, hpc, reply, tpc>> /\ spc' = "reading"
    BY <1>5 DEF Restart
  <2> QED  BY <2>1 DEF OwnedOf, Owned, HandlerBusy, TaskBusy
<1> QED
  BY <1>1, <1>2, <1>3, <1>4, <1>5 DEF StartupStep

LEMMA OneByOneInductive == OneByOne /\ [Next]_vars => OneByOne'
<1> SUFFICES ASSUME OneByOne, [Next]_vars PROVE OneByOne'
  OBVIOUS
<1> USE DEF OneByOne
<1>1. CASE UNCHANGED startup
  BY <1>1 DEF startup
<1>2. ASSUME NEW q \in Requests, ClientStep(q) \/ HandlerStep(q) \/ TaskStep(q)
      PROVE  UNCHANGED startup
  BY <1>2 DEF ClientStep, HandlerStep, TaskStep, Refuse, ReceiveRequest, LookUp, Connect,
     ReceiveFound, AddTask, StoreErr, Reply, StartTask, CreateTask, DescribeTask,
     BatchTask, DeviceTask, ReconfigureTask, JudgeTask, ExplainTask, CallBack, Finish
<1>3. CASE StartupStep
  BY <1>3 DEF StartupStep, StartupRead, StartupDone, StartupNotify, StartupCancel, Die
<1>4. CASE Crash \/ Restart \/ Quiet \/ UNCHANGED vars
  BY <1>4 DEF Crash, Die, Restart, Quiet, vars, startup
<1> QED
  BY <1>1, <1>2, <1>3, <1>4 DEF Next

LEMMA OwnedInductive == TypeOK /\ ProgressInv /\ OwnedInv /\ [Next]_vars => OwnedInv'
<1> SUFFICES ASSUME TypeOK, ProgressInv, OwnedInv, [Next]_vars PROVE OwnedInv'
  OBVIOUS
<1>1. ASSUME NEW r \in Requests PROVE OwnedOf(r)'
  <2>1. OneByOne /\ OwnedOf(r)
    BY DEF OwnedInv
  <2>2. CASE UNCHANGED vars
    BY <2>1, <2>2 DEF vars, process, store, handler, closure, startup, OwnedOf, Owned,
                      HandlerBusy, TaskBusy
  <2>3. CASE \E q \in Requests : ClientStep(q) \/ HandlerStep(q)
    BY <2>1, <2>3, HandlerOwned
  <2>4. CASE \E q \in Requests : TaskStep(q)
    BY <2>1, <2>4, TaskOwned
  <2>5. CASE StartupStep \/ Restart
    BY <2>1, <2>5, StartupOwned
  <2>6. CASE Crash
    BY <2>1, <2>6, DieOwned DEF Crash
  <2> QED  BY <2>2, <2>3, <2>4, <2>5, <2>6 DEF Next, Quiet
<1>2. OneByOne'
  BY OneByOneInductive DEF OwnedInv
<1> QED
  BY <1>1, <1>2 DEF OwnedInv

\* Once startup.Run is through, no record is left without a handler or a closure
\* at work, save where a handler was ended by a panic or badger failed
\* (startup.go:17-42).
THEOREM RecordsHaveOwners == Spec => []RecordsAreOwned
<1>1. Init => OwnedInv
  BY DEF Init, OwnedInv, OneByOne, OwnedOf
<1>2. TypeOK /\ OwnedInv => RecordsAreOwned
  BY DEF TypeOK, StoreTypeOK, StartupTypeOK, OwnedInv, OneByOne, OwnedOf, Owned,
         RecordsAreOwned
<1> QED
  BY <1>1, <1>2, TypeCorrect, ProgressCorrect, OwnedInductive, PTL DEF Spec
=============================================================================
