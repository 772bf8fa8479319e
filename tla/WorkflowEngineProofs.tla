------------------------- MODULE WorkflowEngineProofs -------------------------
(***************************************************************************)
(* Invariants of WorkflowEngine for every graph, every configuration and   *)
(* every handler behaviour: where its tasks can be, what an attempt may    *)
(* have produced, what a failed run leaves behind, and that the engine     *)
(* implements Supersteps.                                                  *)
(***************************************************************************)
EXTENDS WorkflowEngine, FiniteSetTheorems, TLAPS

\* A task that has not finished still has a message of its batch to handle.
BatchPending ==
  \A n \in Node : task[n] \in {"queued", "running"} => left[n] > 0 /\ batch[n] > 0

\* The spawn loop visits only targets whose queue it has not taken yet.
MailWaits == pc = "spawn" => \A t \in active : queued[t] > 0

TypeInv == TypeOK /\ BatchPending /\ MailWaits

LEMMA QueueTypes ==
  /\ None \in [Target -> Nat]
  /\ \A T : \A q \in [Target -> Nat] : Add(q, T) \in [Target -> Nat]
  BY DEF None, Add

LEMMA BarrierTypes == EmptyBarrier \in [from : SUBSET Node, count : Nat]
  BY DEF EmptyBarrier

LEMMA TypeInvInit == Init => TypeInv
<1> SUFFICES ASSUME Init PROVE TypeInv
  OBVIOUS
<1>1. LoopType
  BY GraphAssumption, QueueTypes DEF Init, LoopType
<1>2. TaskType
  BY DEF Init, TaskType
<1>3. SharedType
  <2>1. barrier \in BarrierType
    BY BarrierTypes DEF Init, BarrierType
  <2>2. saved \in SavedType
    BY QueueTypes, <2>1 DEF Init, SavedType, Serialized
  <2>3. halt \in BOOLEAN /\ announced \in BOOLEAN
    BY DEF Init
  <2>4. timers \in [Node -> Nat] /\ loopCount \in [Node -> Nat]
    BY DEF Init
  <2>5. log \in Seq(Node) /\ undo \in Seq(Node)
    BY DEF Init
  <2> QED
    BY <2>1, <2>2, <2>3, <2>4, <2>5 DEF SharedType
<1>4. ClientType
  BY ConfigAssumption DEF Init, ClientType
<1>5. HistoryType
  BY QueueTypes DEF Init, HistoryType
<1>6. BatchPending /\ MailWaits
  BY DEF Init, BatchPending, MailWaits
<1> QED
  BY <1>1, <1>2, <1>3, <1>4, <1>5, <1>6 DEF TypeInv, TypeOK

-----------------------------------------------------------------------------
(* Type correctness, action by action.                                     *)

\* A group of variables that a step leaves alone keeps its type.
LEMMA Frame ==
  ASSUME TypeInv
  PROVE  /\ UNCHANGED loopVars => LoopType'
         /\ UNCHANGED taskVars => TaskType' /\ BatchPending'
         /\ UNCHANGED sharedVars => SharedType'
         /\ UNCHANGED clientVars => ClientType'
         /\ UNCHANGED historyVars => HistoryType'
         /\ UNCHANGED <<pc, active, queued>> => MailWaits'
<1>1. UNCHANGED loopVars => LoopType'
  BY DEF TypeInv, TypeOK, LoopType, loopVars
<1>2. UNCHANGED taskVars => TaskType' /\ BatchPending'
  BY DEF TypeInv, TypeOK, TaskType, BatchPending, taskVars
<1>3. UNCHANGED sharedVars => SharedType'
  BY DEF TypeInv, TypeOK, SharedType, sharedVars
<1>4. UNCHANGED clientVars => ClientType'
  BY DEF TypeInv, TypeOK, ClientType, clientVars
<1>5. UNCHANGED historyVars => HistoryType'
  BY DEF TypeInv, TypeOK, HistoryType, historyVars
<1>6. UNCHANGED <<pc, active, queued>> => MailWaits'
  BY DEF TypeInv, MailWaits
<1> QED
  BY <1>1, <1>2, <1>3, <1>4, <1>5, <1>6

LEMMA SaveCheckpointType ==
  ASSUME TypeInv, NEW q \in [Target -> Nat], SaveCheckpoint(q)
  PROVE  saved' \in SavedType
  BY QueueTypes DEF TypeInv, TypeOK, LoopType, SharedType, SaveCheckpoint, SavedType, Serialized

LEMMA AnnounceHaltType == ASSUME TypeInv, AnnounceHalt PROVE TypeInv'
<1>1. saved' \in SavedType
  BY SaveCheckpointType DEF AnnounceHalt, TypeInv, TypeOK, LoopType
<1>2. SharedType'
  BY <1>1 DEF AnnounceHalt, TypeInv, TypeOK, SharedType
<1>3. ClientType'
  BY DEF AnnounceHalt, TypeInv, TypeOK, ClientType
<1>4. LoopType' /\ TaskType' /\ HistoryType' /\ BatchPending' /\ MailWaits'
  BY Frame DEF AnnounceHalt, loopVars
<1> QED
  BY <1>2, <1>3, <1>4 DEF TypeInv, TypeOK

LEMMA StopHaltedType == ASSUME TypeInv, StopHalted PROVE TypeInv'
<1>1. LoopType' /\ MailWaits'
  BY DEF StopHalted, Terminate, TypeInv, TypeOK, LoopType, MailWaits
<1> QED
  BY <1>1, Frame DEF StopHalted, TypeInv, TypeOK

LEMMA ResumeType == ASSUME TypeInv, Resume PROVE TypeInv'
<1>1. commands \in Seq(Command) /\ commands # <<>>
  BY DEF Resume, TypeInv, TypeOK, ClientType
<1>2. Head(commands) \in Command /\ Tail(commands) \in Seq(Command)
  BY <1>1
<1>3. queued' \in [Target -> Nat]
  <2>1. queued' \in {queued, Add(queued, {Head(commands).target})}
    BY DEF Resume
  <2>2. queued \in [Target -> Nat]
    BY DEF TypeInv, TypeOK, LoopType
  <2> QED
    BY <2>1, <2>2, QueueTypes
<1>4. pc' \in {"top", "end"} /\ status' \in {status, "aborted"}
  BY DEF Resume, Terminate
<1>5. LoopType'
  BY <1>3, <1>4 DEF Resume, TypeInv, TypeOK, LoopType
<1>6. SharedType'
  BY DEF Resume, TypeInv, TypeOK, SharedType
<1>7. ClientType'
  BY <1>2 DEF Resume, TypeInv, TypeOK, ClientType
<1>8. MailWaits'
  BY <1>4 DEF MailWaits
<1> QED
  BY <1>5, <1>6, <1>7, <1>8, Frame DEF Resume, TypeInv, TypeOK

LEMMA BeginStepType == ASSUME TypeInv, BeginStep PROVE TypeInv'
<1>1. PICK due \in [Node -> 0..MaxArmed] :
        /\ \A n \in Node : due[n] <= timers[n]
        /\ timers' = [n \in Node |-> timers[n] - due[n]]
        /\ queued' = [t \in Target |-> IF t \in Node THEN queued[t] + due[t]
                                                    ELSE queued[t]]
  BY DEF BeginStep
<1>2. \A n \in Node : due[n] \in Nat /\ timers[n] \in Nat
  BY ConfigAssumption DEF TypeInv, TypeOK, SharedType
<1>3. timers' \in [Node -> Nat]
  BY <1>1, <1>2
<1>4. queued' \in [Target -> Nat]
  BY <1>1, <1>2 DEF TypeInv, TypeOK, LoopType
<1>5. /\ pc' \in {"spawn", "end"} /\ status' \in {status, "completed"}
      /\ active' \in {active, {t \in Target : queued'[t] > 0}}
      /\ frontier' \in {frontier, queued'}
      /\ pc' = "spawn" => active' = {t \in Target : queued'[t] > 0}
  BY DEF BeginStep, Terminate
<1>6. LoopType'
  BY <1>4, <1>5 DEF BeginStep, TypeInv, TypeOK, LoopType
<1>7. SharedType'
  BY <1>3 DEF BeginStep, TypeInv, TypeOK, SharedType
<1>8. HistoryType'
  BY <1>4, <1>5 DEF BeginStep, TypeInv, TypeOK, HistoryType
<1>9. MailWaits'
  BY <1>5 DEF MailWaits
<1> QED
  BY <1>6, <1>7, <1>8, <1>9, Frame DEF BeginStep, TypeInv, TypeOK

LEMMA SkipUnknownType == ASSUME TypeInv, SkipUnknown PROVE TypeInv'
<1>1. LoopType'
  BY GraphAssumption DEF SkipUnknown, TypeInv, TypeOK, LoopType
<1>2. MailWaits'
  BY DEF SkipUnknown, TypeInv, TypeOK, LoopType, MailWaits
<1> QED
  BY <1>1, <1>2, Frame DEF SkipUnknown, TypeInv, TypeOK

LEMMA SkipLoopType == ASSUME TypeInv, NEW n \in Node, SkipLoop(n) PROVE TypeInv'
<1>1. LoopType'
  BY DEF SkipLoop, TypeInv, TypeOK, LoopType
<1>2. log \in Seq(Node)
  BY DEF TypeInv, TypeOK, SharedType
<1>3. log' \in Seq(Node)
  BY <1>2 DEF SkipLoop
<1>4. SharedType'
  BY <1>3 DEF SkipLoop, TypeInv, TypeOK, SharedType
<1>5. MailWaits'
  BY DEF SkipLoop, TypeInv, TypeOK, LoopType, MailWaits
<1> QED
  BY <1>1, <1>4, <1>5, Frame DEF SkipLoop, TypeInv, TypeOK

LEMMA SpawnType == ASSUME TypeInv, NEW n \in Node, Spawn(n) PROVE TypeInv'
<1>1. queued[n] \in Nat /\ queued[n] > 0
  BY DEF Spawn, TypeInv, TypeOK, LoopType, MailWaits, Target
<1>2. handles \in Seq(Node) /\ log \in Seq(Node)
  BY DEF TypeInv, TypeOK, LoopType, SharedType
<1>3. handles' \in Seq(Node) /\ log' \in Seq(Node)
  BY <1>2 DEF Spawn
<1>4. LoopType'
  BY <1>3 DEF Spawn, TypeInv, TypeOK, LoopType
<1>5. TaskType'
  BY <1>1 DEF Spawn, TypeInv, TypeOK, TaskType
<1>6. loopCount' \in [Node -> Nat]
  BY DEF Spawn, TypeInv, TypeOK, SharedType
<1>7. SharedType'
  BY <1>3, <1>6 DEF Spawn, TypeInv, TypeOK, SharedType
<1>8. BatchPending'
  BY <1>1 DEF Spawn, TypeInv, TypeOK, TaskType, BatchPending
<1>9. MailWaits'
  BY DEF Spawn, TypeInv, TypeOK, LoopType, MailWaits
<1> QED
  BY <1>4, <1>5, <1>7, <1>8, <1>9, Frame DEF Spawn, TypeInv, TypeOK

LEMMA SpawnDoneType == ASSUME TypeInv, SpawnDone PROVE TypeInv'
<1>1. LoopType' /\ MailWaits'
  BY DEF SpawnDone, TypeInv, TypeOK, LoopType, MailWaits
<1> QED
  BY <1>1, Frame DEF SpawnDone, TypeInv, TypeOK

\* The steps of a task disturb only its own entries and the shared flags.
LEMMA TaskStartType == ASSUME TypeInv, NEW n \in Node, TaskStart(n) PROVE TypeInv'
<1>1. TaskType' /\ BatchPending'
  BY DEF TaskStart, TypeInv, TypeOK, TaskType, BatchPending
<1>2. SharedType'
  BY DEF TaskStart, TaskFrame, TypeInv, TypeOK, SharedType
<1>3. runs' \in [Node -> Nat]
  BY DEF TaskStart, TypeInv, TypeOK, HistoryType
<1>4. HistoryType'
  BY <1>3 DEF TaskStart, TaskFrame, Touch, TypeInv, TypeOK, HistoryType
<1>5. LoopType' /\ ClientType' /\ MailWaits'
  BY Frame DEF TaskStart, TaskFrame, loopVars
<1> QED
  BY <1>1, <1>2, <1>4, <1>5 DEF TypeInv, TypeOK

LEMMA RequestHaltType == ASSUME TypeInv, NEW n \in Node, RequestHalt(n) PROVE TypeInv'
<1>1. SharedType'
  BY DEF RequestHalt, TaskFrame, TypeInv, TypeOK, SharedType
<1>2. HistoryType'
  BY DEF RequestHalt, TaskFrame, Touch, TypeInv, TypeOK, HistoryType
<1>3. LoopType' /\ TaskType' /\ ClientType' /\ BatchPending' /\ MailWaits'
  BY Frame DEF RequestHalt, TaskFrame, loopVars
<1> QED
  BY <1>1, <1>2, <1>3 DEF TypeInv, TypeOK

LEMMA ScheduleTimerType ==
  ASSUME TypeInv, NEW n \in Node, ScheduleTimer(n) PROVE TypeInv'
<1>1. timers' \in [Node -> Nat]
  BY DEF ScheduleTimer, TypeInv, TypeOK, SharedType
<1>2. SharedType'
  BY <1>1 DEF ScheduleTimer, TypeInv, TypeOK, SharedType
<1>3. ClientType'
  BY DEF ScheduleTimer, TypeInv, TypeOK, ClientType
<1>4. HistoryType'
  BY DEF ScheduleTimer, Touch, TypeInv, TypeOK, HistoryType
<1>5. LoopType' /\ TaskType' /\ BatchPending' /\ MailWaits'
  BY Frame DEF ScheduleTimer, loopVars
<1> QED
  BY <1>2, <1>3, <1>4, <1>5 DEF TypeInv, TypeOK

LEMMA HandlerOkType == ASSUME TypeInv, NEW n \in Node, HandlerOk(n) PROVE TypeInv'
<1>1. PICK k \in 0..Emits[n] : produced' = [produced EXCEPT ![n] = @ + k]
  BY DEF HandlerOk
<1>2. k \in Nat
  BY ConfigAssumption
<1>3. left[n] \in Nat /\ left[n] > 0
  BY DEF HandlerOk, TypeInv, TypeOK, TaskType, BatchPending
<1>4. produced' \in [Node -> Nat]
  BY <1>1, <1>2 DEF TypeInv, TypeOK, TaskType
<1>5. left' \in [Node -> Nat]
  BY <1>3 DEF HandlerOk, TypeInv, TypeOK, TaskType
<1>6. TaskType'
  BY <1>4, <1>5 DEF HandlerOk, TypeInv, TypeOK, TaskType
<1>7. BatchPending'
  <2> SUFFICES ASSUME NEW m \in Node, task'[m] \in {"queued", "running"}
               PROVE  left'[m] > 0 /\ batch'[m] > 0
    BY DEF BatchPending
  <2>1. CASE m # n
    BY <2>1 DEF HandlerOk, TypeInv, TypeOK, TaskType, BatchPending
  <2>2. CASE m = n
    <3>1. left[n] # 1
      BY <2>2 DEF HandlerOk, TypeInv, TypeOK, TaskType
    <3> QED
      BY <2>2, <3>1, <1>3 DEF HandlerOk, TypeInv, TypeOK, TaskType, BatchPending
  <2> QED
    BY <2>1, <2>2
<1>8. SharedType'
  BY DEF HandlerOk, TaskFrame, TypeInv, TypeOK, SharedType
<1>9. HistoryType'
  BY DEF HandlerOk, TaskFrame, Touch, TypeInv, TypeOK, HistoryType
<1>10. LoopType' /\ ClientType' /\ MailWaits'
  BY Frame DEF HandlerOk, TaskFrame, loopVars
<1> QED
  BY <1>6, <1>7, <1>8, <1>9, <1>10 DEF TypeInv, TypeOK

LEMMA HandlerRetryType == ASSUME TypeInv, NEW n \in Node, HandlerRetry(n) PROVE TypeInv'
<1>1. attempt' \in [Node -> Nat]
  BY DEF HandlerRetry, TypeInv, TypeOK, TaskType
<1>2. TaskType'
  BY <1>1 DEF HandlerRetry, TypeInv, TypeOK, TaskType
<1>3. BatchPending'
  BY DEF HandlerRetry, TypeInv, TypeOK, TaskType, BatchPending
<1>4. SharedType'
  BY DEF HandlerRetry, TaskFrame, TypeInv, TypeOK, SharedType
<1>5. HistoryType'
  BY DEF HandlerRetry, TaskFrame, Touch, TypeInv, TypeOK, HistoryType
<1>6. LoopType' /\ ClientType' /\ MailWaits'
  BY Frame DEF HandlerRetry, TaskFrame, loopVars
<1> QED
  BY <1>2, <1>3, <1>4, <1>5, <1>6 DEF TypeInv, TypeOK

LEMMA HandlerExhaustedType ==
  ASSUME TypeInv, NEW n \in Node, HandlerExhausted(n) PROVE TypeInv'
<1>1. /\ \E v \in {"ok", "err"} : task' = [task EXCEPT ![n] = v]
      /\ \E v \in {0, 1} : produced' = [produced EXCEPT ![n] = v]
      /\ \E v \in Node : label' \in {label, [label EXCEPT ![n] = v]}
      /\ \E v \in Node : fellBack' \in {fellBack, fellBack \cup {v}}
      /\ left' = [left EXCEPT ![n] = 0]
      /\ UNCHANGED <<batch, attempt>>
  BY DEF HandlerExhausted
<1>2. TaskType'
  BY <1>1 DEF TypeInv, TypeOK, TaskType
<1>3. BatchPending'
  BY <1>1 DEF TypeInv, TypeOK, TaskType, BatchPending
<1>4. SharedType'
  BY DEF HandlerExhausted, TaskFrame, TypeInv, TypeOK, SharedType
<1>5. HistoryType'
  BY <1>1 DEF HandlerExhausted, TaskFrame, Touch, TypeInv, TypeOK, HistoryType
<1>6. LoopType' /\ ClientType' /\ MailWaits'
  BY Frame DEF HandlerExhausted, TaskFrame, loopVars
<1> QED
  BY <1>2, <1>3, <1>4, <1>5, <1>6 DEF TypeInv, TypeOK

LEMMA TaskPanicType == ASSUME TypeInv, NEW n \in Node, TaskPanic(n) PROVE TypeInv'
<1>1. TaskType' /\ BatchPending'
  BY DEF TaskPanic, TypeInv, TypeOK, TaskType, BatchPending
<1>2. SharedType'
  BY DEF TaskPanic, TaskFrame, TypeInv, TypeOK, SharedType
<1>3. HistoryType'
  BY DEF TaskPanic, TaskFrame, Touch, TypeInv, TypeOK, HistoryType
<1>4. LoopType' /\ ClientType' /\ MailWaits'
  BY Frame DEF TaskPanic, TaskFrame, loopVars
<1> QED
  BY <1>1, <1>2, <1>3, <1>4 DEF TypeInv, TypeOK

\* While a handle is awaited its task, and the source it reports, are nodes.
LEMMA JoinTypes ==
  ASSUME TypeInv, JoinReady
  PROVE  Joined \in Node /\ Source \in Node /\ Tail(handles) \in Seq(Node)
<1>1. handles \in Seq(Node) /\ handles # <<>>
  BY DEF JoinReady, TypeInv, TypeOK, LoopType
<1>2. Joined \in Node /\ Tail(handles) \in Seq(Node)
  BY <1>1 DEF Joined
<1>3. Source \in Node
  BY <1>2 DEF Source, TypeInv, TypeOK, TaskType
<1> QED
  BY <1>2, <1>3

LEMMA RouteMessageType == ASSUME TypeInv, RouteMessage PROVE TypeInv'
<1>1. Joined \in Node /\ Source \in Node
  BY JoinTypes DEF RouteMessage
<1>2. produced' \in [Node -> Nat]
  BY <1>1 DEF RouteMessage, TypeInv, TypeOK, TaskType
<1>3. TaskType' /\ BatchPending'
  BY <1>2 DEF RouteMessage, TypeInv, TypeOK, TaskType, BatchPending
<1>4. LoopType' /\ MailWaits'
  BY DEF RouteMessage, EdgesOf, TypeInv, TypeOK, LoopType, MailWaits
<1>5. emitted' \in [FanIns -> SUBSET Node]
  BY <1>1 DEF RouteMessage, TypeInv, TypeOK, HistoryType
<1>6. HistoryType'
  BY <1>5 DEF RouteMessage, TypeInv, TypeOK, HistoryType
<1>7. SharedType' /\ ClientType'
  BY Frame DEF RouteMessage
<1> QED
  BY <1>3, <1>4, <1>6, <1>7 DEF TypeInv, TypeOK

LEMMA ChaseEdgeType == ASSUME TypeInv, NEW e \in Edges, ChaseEdge(e) PROVE TypeInv'
<1>1. next \in [Target -> Nat] /\ \E T : next' = Add(next, T)
  BY DEF ChaseEdge, TypeInv, TypeOK, LoopType
<1>2. next' \in [Target -> Nat]
  BY <1>1, QueueTypes
<1>3. LoopType' /\ MailWaits'
  BY <1>2 DEF ChaseEdge, TypeInv, TypeOK, LoopType, MailWaits
<1> QED
  BY <1>3, Frame DEF ChaseEdge, TypeInv, TypeOK

LEMMA ChaseFanInType == ASSUME TypeInv, NEW e \in Edges, ChaseFanIn(e) PROVE TypeInv'
<1> DEFINE Stored == [from |-> barrier[Source][e].from \cup {Source},
                      count |-> barrier[Source][e].count + 1]
<1>1. Source \in Node /\ e \in FanIns
  BY JoinTypes DEF ChaseFanIn, FanIns
<1>2. barrier \in BarrierType
  BY DEF TypeInv, TypeOK, SharedType
<1>3. barrier[Source][e] \in [from : SUBSET Node, count : Nat]
  BY <1>1, <1>2 DEF BarrierType
<1>4. Stored \in [from : SUBSET Node, count : Nat]
  BY <1>1, <1>3
<1>5. Stored.count \in Nat
  BY <1>4
<1>6. \/ /\ next' = [t \in Target |-> IF t \in e.to THEN next[t] + Stored.count
                                                    ELSE next[t]]
         /\ barrier' = [barrier EXCEPT ![Source][e] = EmptyBarrier]
      \/ /\ UNCHANGED next
         /\ barrier' = [barrier EXCEPT ![Source][e] = Stored]
  BY DEF ChaseFanIn
<1>7. next' \in [Target -> Nat]
  <2>1. next \in [Target -> Nat]
    BY DEF TypeInv, TypeOK, LoopType
  <2> HIDE DEF Stored
  <2> QED
    BY <1>5, <1>6, <2>1
<1>8. barrier' \in BarrierType
  <2>1. \E v \in [from : SUBSET Node, count : Nat] :
          barrier' = [barrier EXCEPT ![Source][e] = v]
    <3> HIDE DEF Stored
    <3> QED
      BY <1>4, <1>6, BarrierTypes
  <2> QED
    BY <1>1, <1>2, <2>1 DEF BarrierType
<1>9. LoopType' /\ MailWaits'
  BY <1>7 DEF ChaseFanIn, TypeInv, TypeOK, LoopType, MailWaits
<1>10. SharedType'
  BY <1>8 DEF ChaseFanIn, TypeInv, TypeOK, SharedType
<1> QED
  BY <1>9, <1>10, Frame DEF ChaseFanIn, TypeInv, TypeOK

LEMMA JoinOkType == ASSUME TypeInv, JoinOk PROVE TypeInv'
<1>1. Tail(handles) \in Seq(Node)
  BY JoinTypes DEF JoinOk
<1>2. LoopType' /\ MailWaits'
  BY <1>1 DEF JoinOk, TypeInv, TypeOK, LoopType, MailWaits
<1>3. TaskType' /\ BatchPending'
  BY DEF JoinOk, TypeInv, TypeOK, TaskType, BatchPending
<1> QED
  BY <1>2, <1>3, Frame DEF JoinOk, TypeInv, TypeOK

LEMMA JoinErrType == ASSUME TypeInv, JoinErr PROVE TypeInv'
<1>1. handles' \in Seq(Node)
  BY DEF JoinErr
<1>2. LoopType' /\ MailWaits'
  BY <1>1 DEF JoinErr, TypeInv, TypeOK, LoopType, MailWaits
<1>3. SharedType'
  BY DEF JoinErr, TypeInv, TypeOK, SharedType
<1> QED
  BY <1>2, <1>3, Frame DEF JoinErr, TypeInv, TypeOK

LEMMA CompensateType == ASSUME TypeInv, Compensate PROVE TypeInv'
<1>1. undo \in Seq(Node) /\ undo # <<>>
  BY DEF Compensate, TypeInv, TypeOK, SharedType
<1>2. undo' \in Seq(Node)
  BY <1>1 DEF Compensate
<1>3. SharedType'
  BY <1>2 DEF Compensate, TypeInv, TypeOK, SharedType
<1>4. HistoryType'
  BY DEF Compensate, TypeInv, TypeOK, HistoryType
<1>5. LoopType' /\ TaskType' /\ ClientType' /\ BatchPending' /\ MailWaits'
  BY Frame DEF Compensate, loopVars
<1> QED
  BY <1>3, <1>4, <1>5 DEF TypeInv, TypeOK

LEMMA FailType == ASSUME TypeInv, Fail PROVE TypeInv'
<1>1. LoopType' /\ MailWaits'
  BY DEF Fail, Terminate, TypeInv, TypeOK, LoopType, MailWaits
<1> QED
  BY <1>1, Frame DEF Fail, TypeInv, TypeOK

LEMMA StepDoneType == ASSUME TypeInv, StepDone PROVE TypeInv'
<1>1. saved' \in SavedType
  BY SaveCheckpointType DEF StepDone, TypeInv, TypeOK, LoopType
<1>2. SharedType'
  BY <1>1 DEF StepDone, TypeInv, TypeOK, SharedType
<1>3. LoopType' /\ MailWaits'
  BY QueueTypes DEF StepDone, TypeInv, TypeOK, LoopType, MailWaits
<1> QED
  BY <1>2, <1>3, Frame DEF StepDone, TypeInv, TypeOK

LEMMA TimeoutRunType == ASSUME TypeInv, TimeoutRun PROVE TypeInv'
<1>1. LoopType' /\ MailWaits'
  BY DEF TimeoutRun, Terminate, TypeInv, TypeOK, LoopType, MailWaits
<1> QED
  BY <1>1, Frame DEF TimeoutRun, TypeInv, TypeOK

LEMMA ClientStepType == ASSUME TypeInv, ClientResume \/ ClientDrop PROVE TypeInv'
<1>1. commands \in Seq(Command)
  BY DEF TypeInv, TypeOK, ClientType
<1>2. commands' \in Seq(Command)
  BY <1>1 DEF ClientResume, ClientDrop
<1>3. ClientType'
  <2>1. attached' \in BOOLEAN
    BY DEF ClientResume, ClientDrop, TypeInv, TypeOK, ClientType
  <2>2. unanswered' \in Nat /\ sent' \in Nat /\ armed' \in Nat
    BY DEF ClientResume, ClientDrop, TypeInv, TypeOK, ClientType
  <2> QED
    BY <1>2, <2>1, <2>2 DEF ClientType
<1>4. LoopType' /\ TaskType' /\ SharedType' /\ HistoryType' /\ BatchPending' /\ MailWaits'
  BY Frame DEF ClientResume, ClientDrop, loopVars
<1> QED
  BY <1>3, <1>4 DEF TypeInv, TypeOK

LEMMA TypeInvStep == TypeInv /\ [Next]_vars => TypeInv'
<1> SUFFICES ASSUME TypeInv, [Next]_vars PROVE TypeInv'
  OBVIOUS
<1>1. CASE LoopStep
  BY <1>1, AnnounceHaltType, StopHaltedType, ResumeType, BeginStepType, SkipUnknownType,
     SkipLoopType, SpawnType, SpawnDoneType, RouteMessageType, ChaseEdgeType,
     ChaseFanInType, JoinOkType, JoinErrType, CompensateType, FailType, StepDoneType
  DEF LoopStep
<1>2. CASE \E n \in Node : TaskStep(n)
  BY <1>2, TaskStartType, RequestHaltType, ScheduleTimerType, HandlerOkType,
     HandlerRetryType, HandlerExhaustedType, TaskPanicType
  DEF TaskStep
<1>3. CASE ClientResume \/ ClientDrop \/ TimeoutRun
  BY <1>3, ClientStepType, TimeoutRunType
<1>4. CASE UNCHANGED vars
  BY <1>4, Frame DEF vars, loopVars, TypeInv, TypeOK
<1> QED
  BY <1>1, <1>2, <1>3, <1>4 DEF Next, Done

\* Every variable keeps its type in every run of every graph; no handler is
\* called without a message of its batch and no queue is taken twice.
THEOREM TypeCorrect == Spec => []TypeOK
<1>1. Spec => []TypeInv
  BY TypeInvInit, TypeInvStep, PTL DEF Spec
<1>2. TypeInv => TypeOK
  BY DEF TypeInv
<1> QED
  BY <1>1, <1>2, PTL

-----------------------------------------------------------------------------
(* Supersteps never overlap.  TasksAwaited alone is inductive only together *)
(* with the fact that the top of the loop has awaited every handle.         *)

HandlesAwaited == pc = "top" => handles = <<>>

OverIsSettled == status = "completed" => pc = "end" /\ Settled

LockInv == TasksAwaited /\ HandlesAwaited /\ OverIsSettled

LEMMA LockInvTop == LockInv /\ pc = "top" => \A n \in Node : task[n] = "none"
  BY DEF LockInv, TasksAwaited, HandlesAwaited

\* A step that leaves the handles alone and starts or ends no task.
LEMMA LockFrame ==
  ASSUME TypeInv, LockInv,
         UNCHANGED <<handles, task>>,
         pc' = "top" => handles = <<>>,
         pc' \in {"top", "spawn", "join"} => pc \in {"top", "spawn", "join"},
         status' = "completed" =>
           pc' = "end" /\ (status = "completed" \/ pc = "top")
  PROVE  LockInv'
<1>1. TasksAwaited'
  BY DEF LockInv, TasksAwaited
<1>2. HandlesAwaited'
  BY DEF HandlesAwaited
<1>3. OverIsSettled'
  BY LockInvTop DEF LockInv, OverIsSettled, Settled
<1> QED
  BY <1>1, <1>2, <1>3 DEF LockInv

\* A step of a task that has begun or ended keeps it among the live ones.
LEMMA LockTask ==
  ASSUME TypeInv, LockInv, NEW n \in Node, TaskStep(n)
  PROVE  LockInv'
<1>1. UNCHANGED <<pc, status, handles>>
  BY DEF TaskStep, TaskStart, RequestHalt, ScheduleTimer, HandlerOk, HandlerRetry,
         HandlerExhausted, TaskPanic, TaskFrame, loopVars
<1>2. task[n] \in {"queued", "running"}
  BY DEF TaskStep, TaskStart, RequestHalt, ScheduleTimer, HandlerOk, HandlerRetry,
         HandlerExhausted, TaskPanic
<1>3. \A m \in Node \ {n} : task'[m] = task[m]
  BY DEF TaskStep, TaskStart, RequestHalt, ScheduleTimer, HandlerOk, HandlerRetry,
         HandlerExhausted, TaskPanic, taskVars, TypeInv, TypeOK, TaskType
<1>4. TasksAwaited'
  BY <1>1, <1>2, <1>3 DEF LockInv, TasksAwaited
<1>5. HandlesAwaited'
  BY <1>1 DEF LockInv, HandlesAwaited
<1>6. OverIsSettled'
  BY <1>1, <1>2 DEF LockInv, OverIsSettled, Settled
<1> QED
  BY <1>4, <1>5, <1>6 DEF LockInv

LEMMA LockSpawn ==
  ASSUME TypeInv, LockInv, NEW n \in Node, Spawn(n)
  PROVE  LockInv'
<1>1. handles \in Seq(Node)
  BY DEF TypeInv, TypeOK, LoopType
<1>2. /\ Len(handles') = Len(handles) + 1 /\ Len(handles) \in Nat
      /\ handles'[Len(handles) + 1] = n
      /\ \A i \in 1..Len(handles) : handles'[i] = handles[i]
  BY <1>1 DEF Spawn
<1>3. \A m \in Node \ {n} : task'[m] = task[m]
  BY DEF Spawn, TypeInv, TypeOK, TaskType
<1>4. TasksAwaited'
  <2> SUFFICES ASSUME NEW m \in Node, task'[m] # "none"
               PROVE  \E i \in 1..Len(handles') : handles'[i] = m
    BY DEF TasksAwaited
  <2>1. CASE m = n
    BY <1>2, <2>1
  <2>2. CASE m # n
    <3>1. PICK i \in 1..Len(handles) : handles[i] = m
      BY <1>3, <2>2 DEF LockInv, TasksAwaited, Spawn
    <3> QED
      BY <1>2, <3>1
  <2> QED
    BY <2>1, <2>2
<1>5. HandlesAwaited' /\ OverIsSettled'
  BY DEF Spawn, HandlesAwaited, LockInv, OverIsSettled
<1> QED
  BY <1>4, <1>5 DEF LockInv

LEMMA LockJoinOk ==
  ASSUME TypeInv, LockInv, JoinOk
  PROVE  LockInv'
<1>1. handles \in Seq(Node) /\ handles # <<>> /\ pc = "join" /\ pc' = "join"
  BY DEF JoinOk, JoinReady, TypeInv, TypeOK, LoopType
<1>2. /\ Len(handles') = Len(handles) - 1 /\ Len(handles) \in Nat
      /\ \A i \in 1..Len(handles') : handles'[i] = handles[i + 1]
      /\ Joined = handles[1]
  BY <1>1 DEF JoinOk, Joined
<1>3. TasksAwaited'
  <2> SUFFICES ASSUME NEW m \in Node, task'[m] # "none"
               PROVE  \E i \in 1..Len(handles') : handles'[i] = m
    BY DEF TasksAwaited
  <2>1. m # Joined /\ task[m] # "none"
    BY DEF JoinOk, TypeInv, TypeOK, TaskType
  <2>2. PICK i \in 1..Len(handles) : handles[i] = m
    BY <1>1, <2>1 DEF LockInv, TasksAwaited
  <2>3. i - 1 \in 1..Len(handles')
    BY <1>2, <2>1, <2>2
  <2>4. handles'[i - 1] = handles[(i - 1) + 1]
    BY <1>2, <2>3
  <2>5. (i - 1) + 1 = i
    BY <1>2, <2>2
  <2> QED
    BY <2>2, <2>3, <2>4, <2>5
<1>4. HandlesAwaited' /\ OverIsSettled'
  BY <1>1 DEF JoinOk, HandlesAwaited, LockInv, OverIsSettled
<1> QED
  BY <1>3, <1>4 DEF LockInv

LEMMA LockInvStep == TypeInv /\ LockInv /\ [Next]_vars => LockInv'
<1> SUFFICES ASSUME TypeInv, LockInv, [Next]_vars PROVE LockInv'
  OBVIOUS
<1>1. CASE AnnounceHalt \/ StopHalted \/ Resume
  BY <1>1, LockFrame
  DEF AnnounceHalt, StopHalted, Resume, Terminate, LockInv, HandlesAwaited,
      OverIsSettled, loopVars, taskVars
<1>2. CASE BeginStep
  BY <1>2, LockFrame
  DEF BeginStep, Terminate, LockInv, HandlesAwaited, OverIsSettled, taskVars
<1>3. CASE SkipUnknown \/ SpawnDone \/ (\E n \in Node : SkipLoop(n))
  BY <1>3, LockFrame
  DEF SkipUnknown, SpawnDone, SkipLoop, LockInv, HandlesAwaited, OverIsSettled, taskVars
<1>4. CASE \E n \in Node : Spawn(n)
  BY <1>4, LockSpawn
<1>5. CASE RouteMessage \/ (\E e \in Edges : ChaseEdge(e) \/ ChaseFanIn(e))
  BY <1>5, LockFrame
  DEF RouteMessage, ChaseEdge, ChaseFanIn, JoinReady, LockInv, OverIsSettled, taskVars
<1>6. CASE JoinOk
  BY <1>6, LockJoinOk
<1>7. CASE JoinErr
  BY <1>7 DEF JoinErr, JoinReady, LockInv, TasksAwaited, HandlesAwaited, OverIsSettled
<1>8. CASE Compensate \/ Fail \/ StepDone \/ TimeoutRun
  BY <1>8, LockFrame
  DEF Compensate, Fail, StepDone, TimeoutRun, Terminate, LockInv, HandlesAwaited,
      OverIsSettled, loopVars, taskVars
<1>9. CASE \E n \in Node : TaskStep(n)
  BY <1>9, LockTask
<1>10. CASE ClientResume \/ ClientDrop \/ UNCHANGED vars
  BY <1>10, LockFrame
  DEF ClientResume, ClientDrop, vars, loopVars, taskVars, LockInv, HandlesAwaited,
      OverIsSettled
<1> QED
  BY <1>1, <1>2, <1>3, <1>4, <1>5, <1>6, <1>7, <1>8, <1>9, <1>10
  DEF Next, LoopStep, Done

LEMMA LockInvAlways == Spec => [](TypeInv /\ LockInv)
<1>1. Init => LockInv
  BY DEF Init, LockInv, TasksAwaited, HandlesAwaited, OverIsSettled
<1> QED
  BY <1>1, TypeInvInit, TypeInvStep, LockInvStep, PTL DEF Spec

\* Supersteps never overlap and nothing acts after WorkflowCompleted: the loop
\* is at its top, or has completed, only when no task it spawned is alive.
THEOREM StepsAreLocked == Spec => []LockStep
<1>1. LockInv => LockStep
  BY LockInvTop DEF LockInv, OverIsSettled, LockStep
<1> QED
  BY <1>1, LockInvAlways, PTL

-----------------------------------------------------------------------------
(* The permits of max_parallel_nodes.                                      *)

LEMMA RunningIsFinite == IsFiniteSet(Running) /\ Cardinality(Running) \in Nat
<1>1. Running \subseteq Node
  BY DEF Running
<1> QED
  BY <1>1, GraphAssumption, FS_Subset, FS_CardinalityType

\* Only TaskStart makes a task run, and it counts the permits first.
LEMMA RunningShrinks ==
  ASSUME TypeInv, [Next]_vars, \A n \in Node : ~TaskStart(n)
  PROVE  Running' \subseteq Running
<1>1. CASE LoopStep
  BY <1>1
  DEF LoopStep, AnnounceHalt, StopHalted, Resume, BeginStep, SkipUnknown, SkipLoop,
      Spawn, SpawnDone, RouteMessage, ChaseEdge, ChaseFanIn, JoinOk, JoinErr, Compensate,
      Fail, StepDone, Running, taskVars, TypeInv, TypeOK, TaskType
<1>2. CASE \E n \in Node : TaskStep(n)
  BY <1>2
  DEF TaskStep, RequestHalt, ScheduleTimer, HandlerOk, HandlerRetry, HandlerExhausted,
      TaskPanic, Running, taskVars, TypeInv, TypeOK, TaskType
<1>3. CASE ClientResume \/ ClientDrop \/ TimeoutRun \/ UNCHANGED vars
  BY <1>3 DEF ClientResume, ClientDrop, TimeoutRun, vars, taskVars, Running
<1> QED
  BY <1>1, <1>2, <1>3 DEF Next, Done

LEMMA PermitsStep == TypeInv /\ PermitsRespected /\ [Next]_vars => PermitsRespected'
<1> SUFFICES ASSUME TypeInv, PermitsRespected, [Next]_vars, MaxParallel > 0
             PROVE  Cardinality(Running') <= MaxParallel
  BY DEF PermitsRespected, Running
<1>1. CASE \E n \in Node : TaskStart(n)
  <2>1. PICK n \in Node : TaskStart(n)
    BY <1>1
  <2>2. Running' = Running \cup {n} /\ n \notin Running
    BY <2>1 DEF TaskStart, Running, TypeInv, TypeOK, TaskType
  <2>3. Cardinality(Running') = Cardinality(Running) + 1
    BY <2>2, RunningIsFinite, FS_AddElement
  <2>4. Cardinality(Running) < MaxParallel
    BY <2>1 DEF TaskStart
  <2> QED
    BY <2>3, <2>4, RunningIsFinite, ConfigAssumption
<1>2. CASE \A n \in Node : ~TaskStart(n)
  <2>1. Running' \subseteq Running
    BY <1>2, RunningShrinks
  <2>2. Cardinality(Running') \in Nat /\ Cardinality(Running') <= Cardinality(Running)
    BY <2>1, RunningIsFinite, FS_Subset, FS_CardinalityType
  <2> QED
    BY <2>2, RunningIsFinite, ConfigAssumption DEF PermitsRespected
<1> QED
  BY <1>1, <1>2

\* No more handlers than max_parallel_nodes are ever at work, detached ones
\* included, and the loop forgets no task before its run has failed.
THEOREM TasksAreAccounted == Spec => []TasksAccounted
<1>1. Init => PermitsRespected
  <2> SUFFICES ASSUME Init, MaxParallel > 0 PROVE Cardinality(Running) <= MaxParallel
    BY DEF PermitsRespected
  <2>1. Running = {}
    BY DEF Init, Running
  <2> QED
    BY <2>1, FS_EmptySet, ConfigAssumption
<1>2. Spec => []PermitsRespected
  <2>1. Spec => []TypeInv
    BY TypeInvInit, TypeInvStep, PTL DEF Spec
  <2> QED
    BY <1>1, <2>1, PermitsStep, PTL DEF Spec
<1>3. LockInv /\ PermitsRespected => TasksAccounted
  BY DEF LockInv, TasksAccounted
<1> QED
  BY <1>2, <1>3, LockInvAlways, PTL

-----------------------------------------------------------------------------
(* The iteration counter of a loop node bounds the runs of the node, because *)
(* a node is spawned only when its previous task is gone.                    *)

NodesIdle == pc = "spawn" => \A n \in Node \cap active : task[n] = "none"

Waiting(n) == IF task[n] = "queued" THEN 1 ELSE 0

RunsCounted ==
  \A n \in Node : LoopMax[n] > 0 =>
    runs[n] + Waiting(n) <= loopCount[n] /\ loopCount[n] <= LoopMax[n]

LoopInv == NodesIdle /\ RunsCounted

\* A step that neither counts a run nor starts one.
LEMMA LoopFrame ==
  ASSUME LoopInv, UNCHANGED <<runs, loopCount, task>>, NodesIdle'
  PROVE  LoopInv'
  BY DEF LoopInv, RunsCounted, Waiting

LEMMA LoopTask ==
  ASSUME TypeInv, LoopInv, NEW n \in Node, TaskStep(n)
  PROVE  LoopInv'
<1>1. UNCHANGED <<pc, active, loopCount>> /\ task[n] # "none"
  BY DEF TaskStep, TaskStart, RequestHalt, ScheduleTimer, HandlerOk, HandlerRetry,
         HandlerExhausted, TaskPanic, TaskFrame, loopVars
<1>2. \A m \in Node \ {n} : task'[m] = task[m]
  BY DEF TaskStep, TaskStart, RequestHalt, ScheduleTimer, HandlerOk, HandlerRetry,
         HandlerExhausted, TaskPanic, taskVars, TypeInv, TypeOK, TaskType
<1>3. NodesIdle'
  BY <1>1, <1>2 DEF LoopInv, NodesIdle
<1>4. CASE TaskStart(n)
  <2>1. \A m \in Node : runs'[m] + Waiting(m)' = runs[m] + Waiting(m)
    BY <1>4 DEF TaskStart, Waiting, TypeInv, TypeOK, TaskType, HistoryType
  <2> QED
    BY <1>1, <1>3, <2>1 DEF LoopInv, RunsCounted
<1>5. CASE ~TaskStart(n)
  <2>1. UNCHANGED runs /\ \A m \in Node : Waiting(m)' = Waiting(m)
    BY <1>5
    DEF TaskStep, RequestHalt, ScheduleTimer, HandlerOk, HandlerRetry,
        HandlerExhausted, TaskPanic, taskVars, Waiting, TypeInv, TypeOK, TaskType
  <2> QED
    BY <1>1, <1>3, <2>1 DEF LoopInv, RunsCounted
<1> QED
  BY <1>4, <1>5

LEMMA LoopSpawn ==
  ASSUME TypeInv, LoopInv, NEW n \in Node, Spawn(n)
  PROVE  LoopInv'
<1>1. NodesIdle'
  BY DEF Spawn, LoopInv, NodesIdle, TypeInv, TypeOK, TaskType
<1>2. task[n] = "none"
  BY DEF Spawn, LoopInv, NodesIdle
<1>3. RunsCounted'
  <2> SUFFICES ASSUME NEW m \in Node, LoopMax[m] > 0
               PROVE  runs'[m] + Waiting(m)' <= loopCount'[m] /\ loopCount'[m] <= LoopMax[m]
    BY DEF RunsCounted, Waiting
  <2>1. runs[m] \in Nat /\ loopCount[m] \in Nat /\ LoopMax[m] \in Nat /\ runs'[m] = runs[m]
    BY ConfigAssumption DEF Spawn, historyVars, TypeInv, TypeOK, SharedType, HistoryType
  <2>2. runs[m] + Waiting(m) <= loopCount[m] /\ loopCount[m] <= LoopMax[m]
    BY DEF LoopInv, RunsCounted
  <2>3. CASE m = n
    <3>1. Waiting(m) = 0 /\ Waiting(m)' = 1
      BY <1>2, <2>3 DEF Spawn, Waiting, TypeInv, TypeOK, TaskType
    <3>2. loopCount'[m] = loopCount[m] + 1 /\ loopCount[m] < LoopMax[m]
      BY <2>1, <2>3 DEF Spawn, LoopExhausted, TypeInv, TypeOK, SharedType
    <3> QED
      BY <2>1, <2>2, <3>1, <3>2
  <2>4. CASE m # n
    <3>1. Waiting(m)' = Waiting(m) /\ loopCount'[m] = loopCount[m]
      BY <2>4 DEF Spawn, Waiting, TypeInv, TypeOK, TaskType, SharedType
    <3> QED
      BY <2>1, <2>2, <3>1
  <2> QED
    BY <2>3, <2>4
<1> QED
  BY <1>1, <1>3 DEF LoopInv

LEMMA LoopInvStep == TypeInv /\ LockInv /\ LoopInv /\ [Next]_vars => LoopInv'
<1> SUFFICES ASSUME TypeInv, LockInv, LoopInv, [Next]_vars PROVE LoopInv'
  OBVIOUS
<1>1. CASE AnnounceHalt \/ StopHalted \/ Resume
  BY <1>1, LoopFrame
  DEF AnnounceHalt, StopHalted, Resume, Terminate, NodesIdle, loopVars, taskVars,
      sharedVars, historyVars
<1>2. CASE BeginStep
  BY <1>2, LoopFrame, LockInvTop DEF BeginStep, NodesIdle, taskVars
<1>3. CASE SkipUnknown \/ SpawnDone \/ (\E n \in Node : SkipLoop(n))
  BY <1>3, LoopFrame
  DEF SkipUnknown, SpawnDone, SkipLoop, LoopInv, NodesIdle, taskVars, sharedVars,
      historyVars
<1>4. CASE \E n \in Node : Spawn(n)
  BY <1>4, LoopSpawn
<1>5. CASE RouteMessage \/ (\E e \in Edges : ChaseEdge(e) \/ ChaseFanIn(e))
  BY <1>5, LoopFrame
  DEF RouteMessage, ChaseEdge, ChaseFanIn, JoinReady, NodesIdle, taskVars, sharedVars,
      historyVars
<1>6. CASE JoinOk
  <2>1. UNCHANGED <<runs, loopCount>> /\ pc' = "join"
    BY <1>6 DEF JoinOk, JoinReady, sharedVars, historyVars
  <2>2. \A n \in Node : Waiting(n)' = Waiting(n)
    BY <1>6 DEF JoinOk, Waiting, TypeInv, TypeOK, TaskType
  <2> QED
    BY <2>1, <2>2 DEF LoopInv, NodesIdle, RunsCounted
<1>7. CASE JoinErr \/ Compensate \/ Fail \/ StepDone \/ TimeoutRun
  BY <1>7, LoopFrame
  DEF JoinErr, Compensate, Fail, StepDone, TimeoutRun, Terminate, NodesIdle, loopVars,
      taskVars, sharedVars, historyVars
<1>8. CASE \E n \in Node : TaskStep(n)
  BY <1>8, LoopTask
<1>9. CASE ClientResume \/ ClientDrop \/ UNCHANGED vars
  BY <1>9, LoopFrame
  DEF ClientResume, ClientDrop, vars, loopVars, taskVars, sharedVars, historyVars,
      LoopInv, NodesIdle
<1> QED
  BY <1>1, <1>2, <1>3, <1>4, <1>5, <1>6, <1>7, <1>8, <1>9 DEF Next, LoopStep, Done

\* A node with LoopOptions runs at most max_iterations times in a run, whatever
\* edges, timers and injected messages activate it.
THEOREM LoopsAreBounded == Spec => []LoopBounded
<1>1. Init => LoopInv
  BY ConfigAssumption DEF Init, LoopInv, NodesIdle, RunsCounted, Waiting
<1>2. Spec => [](TypeInv /\ LoopInv)
  BY <1>1, LockInvAlways, LoopInvStep, PTL DEF Spec
<1>3. TypeInv /\ LoopInv => LoopBounded
  <2> SUFFICES ASSUME TypeInv, LoopInv, NEW n \in Node, LoopMax[n] > 0
               PROVE  runs[n] <= LoopMax[n]
    BY DEF LoopBounded
  <2>1. runs[n] \in Nat /\ loopCount[n] \in Nat /\ LoopMax[n] \in Nat /\ Waiting(n) \in {0, 1}
    BY ConfigAssumption DEF TypeInv, TypeOK, SharedType, HistoryType, Waiting
  <2> QED
    BY <2>1 DEF LoopInv, RunsCounted
<1> QED
  BY <1>2, <1>3, PTL

-----------------------------------------------------------------------------
(* Halt and resume.  A halt is announced only at the top of the loop, and   *)
(* the flag keeps the loop there until a command has been taken.            *)

HaltWaits == announced => halt /\ pc \in {"top", "end"}

HaltInv == HaltWaits /\ HaltIsSaved /\ OneAnswerPerHalt

\* A step that the halted run cannot take, or that the halt does not notice.
LEMMA HaltFrame ==
  ASSUME HaltInv,
         UNCHANGED <<announced, unanswered, commands>>,
         halt' = halt \/ halt' = TRUE,
         pc' = pc \/ pc' = "end" \/ ~announced,
         pc = "end" => pc' = "end",
         UNCHANGED <<saved, step, queued, barrier>> \/ ~announced
  PROVE  HaltInv'
  BY DEF HaltInv, HaltWaits, HaltIsSaved, OneAnswerPerHalt

LEMMA HaltAnnounce == ASSUME TypeInv, HaltInv, AnnounceHalt PROVE HaltInv'
<1>1. HaltWaits'
  BY DEF AnnounceHalt, HaltWaits, loopVars
<1>2. HaltIsSaved'
  BY DEF AnnounceHalt, SaveCheckpoint, Serialized, HaltIsSaved, loopVars
<1>3. commands \in Seq(Command)
  BY DEF TypeInv, TypeOK, ClientType
<1>4. unanswered \in Nat /\ Len(commands) \in Nat
  BY <1>3 DEF TypeInv, TypeOK, ClientType
<1>5. OneAnswerPerHalt'
  BY <1>4 DEF AnnounceHalt, HaltInv, OneAnswerPerHalt
<1> QED
  BY <1>1, <1>2, <1>5 DEF HaltInv

LEMMA HaltResume == ASSUME TypeInv, HaltInv, Resume PROVE HaltInv'
<1>1. commands \in Seq(Command) /\ commands # <<>>
  BY DEF Resume, TypeInv, TypeOK, ClientType
<1>2. Len(Tail(commands)) = Len(commands) - 1 /\ Len(commands) \in Nat
  BY <1>1
<1>3. \/ pc' = "top" /\ announced' = FALSE
      \/ pc' = "end" /\ UNCHANGED <<queued, halt, announced>>
  BY DEF Resume, Terminate
<1>4. UNCHANGED <<step, saved, barrier, unanswered>> /\ commands' = Tail(commands) /\ announced
  BY DEF Resume
<1>5. HaltWaits'
  BY <1>3, <1>4 DEF HaltInv, HaltWaits
<1>6. HaltIsSaved'
  BY <1>3, <1>4 DEF HaltInv, HaltIsSaved
<1>7. OneAnswerPerHalt'
  <2>1. unanswered \in Nat
    BY DEF TypeInv, TypeOK, ClientType
  <2>2. PatientClient => unanswered + Len(commands) = 1
    BY <1>4 DEF HaltInv, OneAnswerPerHalt, Resume
  <2>3. Len(commands') = Len(commands) - 1
    BY <1>2, <1>4
  <2>4. PatientClient => unanswered' + Len(commands') = 0
    BY <1>2, <1>4, <2>1, <2>2, <2>3
  <2> QED
    BY <1>3, <2>4 DEF OneAnswerPerHalt
<1> QED
  BY <1>5, <1>6, <1>7 DEF HaltInv

LEMMA HaltClient == ASSUME TypeInv, HaltInv, ClientResume PROVE HaltInv'
<1>1. commands \in Seq(Command) /\ unanswered \in Nat
  BY DEF TypeInv, TypeOK, ClientType
<1>2. Len(commands') = Len(commands) + 1 /\ Len(commands) \in Nat
  BY <1>1 DEF ClientResume
<1>3. HaltWaits' /\ HaltIsSaved'
  BY DEF ClientResume, HaltInv, HaltWaits, HaltIsSaved, loopVars, sharedVars
<1>4. OneAnswerPerHalt'
  BY <1>1, <1>2 DEF ClientResume, HaltInv, OneAnswerPerHalt, loopVars, sharedVars
<1> QED
  BY <1>3, <1>4 DEF HaltInv

LEMMA HaltInvStep == TypeInv /\ HaltInv /\ [Next]_vars => HaltInv'
<1> SUFFICES ASSUME TypeInv, HaltInv, [Next]_vars PROVE HaltInv'
  OBVIOUS
<1>1. CASE AnnounceHalt
  BY <1>1, HaltAnnounce
<1>2. CASE Resume
  BY <1>2, HaltResume
<1>3. CASE StopHalted \/ TimeoutRun
  BY <1>3, HaltFrame DEF StopHalted, TimeoutRun, Terminate, sharedVars, clientVars
<1>4. CASE BeginStep
  BY <1>4, HaltFrame DEF BeginStep, HaltInv, HaltWaits, clientVars
<1>5. CASE SkipUnknown \/ SpawnDone \/ (\E n \in Node : SkipLoop(n) \/ Spawn(n))
  BY <1>5, HaltFrame
  DEF SkipUnknown, SpawnDone, SkipLoop, Spawn, HaltInv, HaltWaits, sharedVars, clientVars
<1>6. CASE RouteMessage \/ (\E e \in Edges : ChaseEdge(e) \/ ChaseFanIn(e))
  BY <1>6, HaltFrame
  DEF RouteMessage, ChaseEdge, ChaseFanIn, JoinReady, HaltInv, HaltWaits, sharedVars, clientVars
<1>7. CASE JoinOk \/ JoinErr \/ StepDone
  BY <1>7, HaltFrame
  DEF JoinOk, JoinErr, StepDone, JoinReady, HaltInv, HaltWaits, sharedVars, clientVars
<1>8. CASE Compensate \/ Fail
  BY <1>8, HaltFrame
  DEF Compensate, Fail, Terminate, loopVars, sharedVars, clientVars
<1>9. CASE \E n \in Node : TaskStep(n)
  BY <1>9, HaltFrame
  DEF TaskStep, TaskStart, RequestHalt, ScheduleTimer, HandlerOk, HandlerRetry,
      HandlerExhausted, TaskPanic, TaskFrame, loopVars, clientVars
<1>10. CASE ClientResume
  BY <1>10, HaltClient
<1>11. CASE ClientDrop \/ UNCHANGED vars
  BY <1>11, HaltFrame DEF ClientDrop, vars, loopVars, sharedVars, clientVars
<1> QED
  BY <1>1, <1>2, <1>3, <1>4, <1>5, <1>6, <1>7, <1>8, <1>9, <1>10, <1>11
  DEF Next, LoopStep, Done

LEMMA HaltInvAlways == Spec => []HaltInv
<1>1. Init => HaltInv
  BY DEF Init, HaltInv, HaltWaits, HaltIsSaved, OneAnswerPerHalt
<1> QED
  BY <1>1, TypeInvInit, TypeInvStep, HaltInvStep, PTL DEF Spec

\* While a run waits for a human the last checkpoint is of its step, names every
\* message that is queued and counts what every barrier holds.
THEOREM HaltsAreSaved == Spec => []HaltIsSaved
  BY HaltInvAlways, PTL DEF HaltInv

\* A client that answers each WorkflowHalted once never has a command waiting
\* that a later halt could take for its own answer.
THEOREM AnswersMatchHalts == Spec => []OneAnswerPerHalt
  BY HaltInvAlways, PTL DEF HaltInv

-----------------------------------------------------------------------------
(* Retries.  The bound of a running attempt already holds when its task is *)
(* spawned: nothing has been handled and nothing produced.                 *)

AttemptsCounted ==
  \A n \in Node : task[n] \in {"queued", "running"} =>
    produced[n] <= Emits[n] * (batch[n] - left[n])

LEMMA OneMoreCall ==
  ASSUME NEW e \in Nat, NEW d \in Int
  PROVE  e * (d + 1) = e * d + e /\ e * 0 = 0
  OBVIOUS

LEMMA CountHandlerOk ==
  ASSUME TypeInv, AttemptsCounted, NEW n \in Node, HandlerOk(n)
  PROVE  AttemptsCounted'
<1> SUFFICES ASSUME NEW m \in Node, task'[m] \in {"queued", "running"}
             PROVE  produced'[m] <= Emits[m] * (batch'[m] - left'[m])
  BY DEF AttemptsCounted
<1>1. CASE m # n
  BY <1>1 DEF HandlerOk, AttemptsCounted, TypeInv, TypeOK, TaskType
<1>2. CASE m = n
  <2>1. PICK k \in 0..Emits[n] : produced' = [produced EXCEPT ![n] = @ + k]
    BY DEF HandlerOk
  <2>2. /\ left[n] \in Nat /\ batch[n] \in Nat /\ produced[n] \in Nat
        /\ Emits[n] \in Nat
    BY ConfigAssumption DEF TypeInv, TypeOK, TaskType
  <2>3. /\ produced'[n] = produced[n] + k /\ left'[n] = left[n] - 1
        /\ batch'[n] = batch[n]
    BY <2>1 DEF HandlerOk, TypeInv, TypeOK, TaskType
  <2>4. produced[n] <= Emits[n] * (batch[n] - left[n])
    BY DEF HandlerOk, AttemptsCounted
  <2>5. Emits[n] * ((batch[n] - left[n]) + 1) = Emits[n] * (batch[n] - left[n]) + Emits[n]
    BY <2>2, OneMoreCall
  <2>6. (batch[n] - left[n]) + 1 = batch[n] - (left[n] - 1)
    BY <2>2
  <2> DEFINE Before == Emits[n] * (batch[n] - left[n])
  <2>7. Before \in Int
    BY <2>2
  <2>8. Emits[n] * (batch[n] - (left[n] - 1)) = Before + Emits[n]
    BY <2>5, <2>6
  <2>9. produced[n] + k <= Before + Emits[n]
    <3> HIDE DEF Before
    <3> QED
      BY <2>1, <2>2, <2>4, <2>7 DEF Before
  <2> QED
    BY <1>2, <2>3, <2>8, <2>9
<1> QED
  BY <1>1, <1>2

\* A task that begins, or begins again, has handled and produced nothing.
LEMMA CountFromStart ==
  ASSUME TypeInv, AttemptsCounted, NEW n \in Node, Spawn(n) \/ HandlerRetry(n)
  PROVE  AttemptsCounted'
<1> SUFFICES ASSUME NEW m \in Node, task'[m] \in {"queued", "running"}
             PROVE  produced'[m] <= Emits[m] * (batch'[m] - left'[m])
  BY DEF AttemptsCounted
<1>1. CASE m # n
  BY <1>1 DEF Spawn, HandlerRetry, AttemptsCounted, TypeInv, TypeOK, TaskType
<1>2. CASE m = n
  <2>1. produced'[n] = 0 /\ batch'[n] = left'[n]
    BY DEF Spawn, HandlerRetry, TypeInv, TypeOK, TaskType
  <2>2. batch'[n] \in Nat
    BY SpawnType, HandlerRetryType DEF TypeInv, TypeOK, TaskType
  <2>3. batch'[n] - left'[n] = 0 /\ Emits[n] * 0 = 0
    BY <2>1, <2>2, OneMoreCall, ConfigAssumption
  <2> QED
    BY <1>2, <2>1, <2>3
<1> QED
  BY <1>1, <1>2

LEMMA CountTask ==
  ASSUME TypeInv, AttemptsCounted, NEW n \in Node, TaskStep(n)
  PROVE  AttemptsCounted'
<1>1. CASE HandlerOk(n)
  BY <1>1, CountHandlerOk
<1>2. CASE HandlerRetry(n)
  BY <1>2, CountFromStart
<1>3. CASE TaskStart(n) \/ RequestHalt(n) \/ ScheduleTimer(n)
  BY <1>3 DEF TaskStart, RequestHalt, ScheduleTimer, taskVars, AttemptsCounted,
              TypeInv, TypeOK, TaskType
<1>4. CASE HandlerExhausted(n) \/ TaskPanic(n)
  <2>1. task'[n] \in {"ok", "err"} /\ UNCHANGED batch
    BY <1>4 DEF HandlerExhausted, TaskPanic, TypeInv, TypeOK, TaskType
  <2>2. \A m \in Node \ {n} :
          task'[m] = task[m] /\ produced'[m] = produced[m] /\ left'[m] = left[m]
    BY <1>4 DEF HandlerExhausted, TaskPanic, TypeInv, TypeOK, TaskType
  <2> QED
    BY <2>1, <2>2 DEF AttemptsCounted
<1> QED
  BY <1>1, <1>2, <1>3, <1>4 DEF TaskStep

\* Routing takes from what a finished task has produced.
LEMMA CountJoin ==
  ASSUME TypeInv, AttemptsCounted, RouteMessage \/ JoinOk
  PROVE  AttemptsCounted'
<1>1. /\ UNCHANGED <<batch, left>>
      /\ task[Joined] = "ok"
      /\ \A m \in Node \ {Joined} : task'[m] = task[m] /\ produced'[m] = produced[m]
      /\ task'[Joined] \in {"ok", "none"}
  BY JoinTypes DEF RouteMessage, JoinOk, TypeInv, TypeOK, TaskType
<1> QED
  BY <1>1 DEF AttemptsCounted

LEMMA CountStep == TypeInv /\ AttemptsCounted /\ [Next]_vars => AttemptsCounted'
<1> SUFFICES ASSUME TypeInv, AttemptsCounted, [Next]_vars PROVE AttemptsCounted'
  OBVIOUS
<1>1. CASE \E n \in Node : TaskStep(n)
  BY <1>1, CountTask
<1>2. CASE \E n \in Node : Spawn(n)
  BY <1>2, CountFromStart
<1>3. CASE RouteMessage \/ JoinOk
  BY <1>3, CountJoin
<1>4. CASE UNCHANGED taskVars
  BY <1>4 DEF taskVars, AttemptsCounted
<1>5. CASE LoopStep \/ ClientResume \/ ClientDrop \/ TimeoutRun \/ UNCHANGED vars
  BY <1>2, <1>3, <1>4, <1>5
  DEF LoopStep, AnnounceHalt, StopHalted, Resume, BeginStep, SkipUnknown, SkipLoop,
      SpawnDone, ChaseEdge, ChaseFanIn, JoinErr, Compensate, Fail, StepDone,
      TimeoutRun, ClientResume, ClientDrop, vars
<1> QED
  BY <1>1, <1>5 DEF Next, Done

\* A retry starts over: what a running attempt has produced comes from the
\* messages it has handled itself, whatever failed before it.
THEOREM RetriesStart == Spec => []RetriesStartOver
<1>1. Init => AttemptsCounted
  BY DEF Init, AttemptsCounted
<1>2. Spec => []AttemptsCounted
  BY <1>1, TypeInvInit, TypeInvStep, CountStep, PTL DEF Spec
<1>3. AttemptsCounted => RetriesStartOver
  BY DEF AttemptsCounted, RetriesStartOver
<1> QED
  BY <1>2, <1>3, PTL

-----------------------------------------------------------------------------
(* What one superstep is about: its tasks and its mail belong to the nodes *)
(* of the frontier, the queues it started from.                            *)

\* The frontier is what the step started from.
StepHasFrontier ==
  /\ pc \in {"spawn", "join", "undo"} => \E t \in Target : frontier[t] > 0
  /\ pc = "spawn" => \A t \in active : frontier[t] > 0
  /\ \A n \in Node : task[n] # "none" => frontier[n] > 0

\* A run that is not over has no terminal event yet.
OverIsTold == pc # "end" => status = "running"

FrontierInv == StepHasFrontier /\ OverIsTold

LEMMA FrontierTask ==
  ASSUME TypeInv, FrontierInv, NEW n \in Node, TaskStep(n)
  PROVE  FrontierInv'
<1>1. UNCHANGED <<pc, status, active, frontier>> /\ task[n] # "none"
  BY DEF TaskStep, TaskStart, RequestHalt, ScheduleTimer, HandlerOk, HandlerRetry,
         HandlerExhausted, TaskPanic, TaskFrame, loopVars
<1>2. \A m \in Node \ {n} : task'[m] = task[m]
  BY DEF TaskStep, TaskStart, RequestHalt, ScheduleTimer, HandlerOk, HandlerRetry,
         HandlerExhausted, TaskPanic, taskVars, TypeInv, TypeOK, TaskType
<1> QED
  BY <1>1, <1>2 DEF FrontierInv, StepHasFrontier, OverIsTold

LEMMA FrontierBegin ==
  ASSUME TypeInv, LockInv, FrontierInv, BeginStep
  PROVE  FrontierInv'
<1>1. queued' \in [Target -> Nat]
  BY BeginStepType DEF TypeInv, TypeOK, LoopType
<1>2. \A n \in Node : task'[n] = "none"
  BY LockInvTop DEF BeginStep, taskVars
<1>3. CASE Empty(queued')
  BY <1>2, <1>3 DEF BeginStep, Terminate, FrontierInv, StepHasFrontier, OverIsTold
<1>4. CASE ~Empty(queued')
  <2>1. \E t \in Target : queued'[t] > 0
    BY <1>1, <1>4 DEF Empty
  <2>2. /\ pc' = "spawn" /\ status' = status /\ frontier' = queued' /\ pc = "top"
        /\ active' = {t \in Target : queued'[t] > 0}
    BY <1>4 DEF BeginStep
  <2> QED
    BY <1>2, <2>1, <2>2 DEF FrontierInv, StepHasFrontier, OverIsTold
<1> QED
  BY <1>3, <1>4

LEMMA FrontierSpawn ==
  ASSUME TypeInv, FrontierInv, NEW n \in Node, Spawn(n)
  PROVE  FrontierInv'
<1>1. /\ UNCHANGED <<pc, status, frontier>> /\ active' \subseteq active
      /\ frontier[n] > 0
  BY DEF Spawn, historyVars, FrontierInv, StepHasFrontier
<1>2. \A m \in Node \ {n} : task'[m] = task[m]
  BY DEF Spawn, TypeInv, TypeOK, TaskType
<1> QED
  BY <1>1, <1>2 DEF FrontierInv, StepHasFrontier, OverIsTold

\* Within a step and when a run ends nothing else touches the frontier.
LEMMA FrontierFrame ==
  ASSUME FrontierInv, UNCHANGED frontier,
         \A n \in Node : task'[n] # "none" => task[n] # "none",
         pc' \in {"spawn", "join", "undo"} => pc \in {"spawn", "join", "undo"},
         pc' = "spawn" => pc = "spawn" /\ active' \subseteq active,
         pc' # "end" => pc # "end" /\ UNCHANGED status
  PROVE  FrontierInv'
  BY DEF FrontierInv, StepHasFrontier, OverIsTold

LEMMA FrontierStep == TypeInv /\ LockInv /\ FrontierInv /\ [Next]_vars => FrontierInv'
<1> SUFFICES ASSUME TypeInv, LockInv, FrontierInv, [Next]_vars PROVE FrontierInv'
  OBVIOUS
<1>1. CASE AnnounceHalt \/ StopHalted \/ Resume
  BY <1>1, FrontierFrame
  DEF AnnounceHalt, StopHalted, Resume, Terminate, loopVars, taskVars, historyVars
<1>2. CASE BeginStep
  BY <1>2, FrontierBegin
<1>3. CASE SkipUnknown \/ SpawnDone \/ (\E n \in Node : SkipLoop(n))
  BY <1>3, FrontierFrame DEF SkipUnknown, SpawnDone, SkipLoop, taskVars, historyVars
<1>4. CASE \E n \in Node : Spawn(n)
  BY <1>4, FrontierSpawn
<1>5. CASE RouteMessage \/ (\E e \in Edges : ChaseEdge(e) \/ ChaseFanIn(e))
  BY <1>5, FrontierFrame
  DEF RouteMessage, ChaseEdge, ChaseFanIn, JoinReady, taskVars, historyVars
<1>6. CASE JoinOk
  <2>1. \A n \in Node : task'[n] # "none" => task[n] # "none"
    BY <1>6 DEF JoinOk, TypeInv, TypeOK, TaskType
  <2> QED
    BY <1>6, <2>1, FrontierFrame DEF JoinOk, historyVars
<1>7. CASE JoinErr \/ Compensate \/ Fail \/ StepDone \/ TimeoutRun
  BY <1>7, FrontierFrame
  DEF JoinErr, JoinReady, Compensate, Fail, StepDone, TimeoutRun, Terminate, loopVars,
      taskVars, historyVars
<1>8. CASE \E n \in Node : TaskStep(n)
  BY <1>8, FrontierTask
<1>9. CASE ClientResume \/ ClientDrop \/ UNCHANGED vars
  BY <1>9, FrontierFrame
  DEF ClientResume, ClientDrop, vars, loopVars, taskVars, historyVars
<1> QED
  BY <1>1, <1>2, <1>3, <1>4, <1>5, <1>6, <1>7, <1>8, <1>9 DEF Next, LoopStep, Done

LEMMA FrontierInvAlways == Spec => [](TypeInv /\ LockInv /\ FrontierInv)
<1>1. Init => FrontierInv
  BY DEF Init, FrontierInv, StepHasFrontier, OverIsTold
<1> QED
  BY <1>1, LockInvAlways, FrontierStep, PTL DEF Spec

-----------------------------------------------------------------------------
(* Rollback.  Until a task fails the log names every node with an effect;  *)
(* afterwards an effect is waiting for its compensation or it is one of    *)
(* the failed step, whose detached tasks may still act.                    *)

Entries(s) == {s[i] : i \in 1..Len(s)}

EffectsLogged ==
  /\ pc \in {"top", "spawn", "join"} =>
       \A n \in Node : n \in dirty \/ task[n] # "none" => n \in Entries(log)
  /\ pc = "undo" => \A n \in dirty : frontier[n] > 0 \/ n \in Entries(undo)
  /\ status = "failed" => \A n \in dirty : frontier[n] > 0

LEMMA EntriesAppend ==
  ASSUME NEW s \in Seq(Node), NEW n \in Node
  PROVE  Entries(Append(s, n)) = Entries(s) \cup {n}
<1>1. /\ Len(Append(s, n)) = Len(s) + 1 /\ Len(s) \in Nat
      /\ Append(s, n)[Len(s) + 1] = n
      /\ \A i \in 1..Len(s) : Append(s, n)[i] = s[i]
  OBVIOUS
<1>2. 1..(Len(s) + 1) = (1..Len(s)) \cup {Len(s) + 1}
  BY <1>1
<1> QED
  BY <1>1, <1>2 DEF Entries

LEMMA EntriesFront ==
  ASSUME NEW s \in Seq(Node), s # <<>>
  PROVE  Entries(s) \subseteq Entries(SubSeq(s, 1, Len(s) - 1)) \cup {s[Len(s)]}
<1> DEFINE m == Len(s) - 1
<1>1. Len(s) \in Nat \ {0} /\ m \in Nat
  OBVIOUS
<1>2. /\ Len(SubSeq(s, 1, m)) = m
      /\ \A i \in 1..m : SubSeq(s, 1, m)[i] = s[i]
  <2> HIDE DEF m
  <2>1. m <= Len(s)
    BY <1>1 DEF m
  <2> QED
    BY <1>1, <2>1
<1>3. 1..Len(s) = (1..(Len(s) - 1)) \cup {Len(s)}
  BY <1>1
<1> QED
  BY <1>2, <1>3 DEF Entries

LEMMA LoggedTask ==
  ASSUME TypeInv, FrontierInv, EffectsLogged, NEW n \in Node, TaskStep(n)
  PROVE  EffectsLogged'
<1>1. /\ UNCHANGED <<pc, status, frontier, log, undo>> /\ task[n] # "none"
      /\ dirty' = dirty \cup {n}
  BY DEF TaskStep, TaskStart, RequestHalt, ScheduleTimer, HandlerOk, HandlerRetry,
         HandlerExhausted, TaskPanic, TaskFrame, Touch, loopVars
<1>2. \A m \in Node \ {n} : task'[m] = task[m]
  BY DEF TaskStep, TaskStart, RequestHalt, ScheduleTimer, HandlerOk, HandlerRetry,
         HandlerExhausted, TaskPanic, taskVars, TypeInv, TypeOK, TaskType
<1>3. frontier[n] > 0
  BY <1>1 DEF FrontierInv, StepHasFrontier
<1>4. Entries(log)' = Entries(log) /\ Entries(undo)' = Entries(undo)
  BY <1>1 DEF Entries
<1> QED
  BY <1>1, <1>2, <1>3, <1>4 DEF EffectsLogged

LEMMA LoggedSpawn ==
  ASSUME TypeInv, FrontierInv, EffectsLogged, NEW n \in Node, Spawn(n) \/ SkipLoop(n)
  PROVE  EffectsLogged'
<1>1. log \in Seq(Node) /\ log' = Append(log, n)
  BY DEF Spawn, SkipLoop, TypeInv, TypeOK, SharedType
<1>2. Entries(log)' = Entries(log) \cup {n}
  BY <1>1, EntriesAppend DEF Entries
<1>3. UNCHANGED <<pc, status, dirty>> /\ pc = "spawn"
  BY DEF Spawn, SkipLoop, historyVars
<1>4. \A m \in Node \ {n} : task'[m] = task[m]
  BY DEF Spawn, SkipLoop, taskVars, TypeInv, TypeOK, TaskType
<1>5. status = "running"
  BY <1>3 DEF FrontierInv, OverIsTold
<1> QED
  BY <1>2, <1>3, <1>4, <1>5 DEF EffectsLogged

LEMMA LoggedCompensate ==
  ASSUME TypeInv, FrontierInv, EffectsLogged, Compensate
  PROVE  EffectsLogged'
<1> DEFINE last == undo[Len(undo)]
<1>1. undo \in Seq(Node) /\ undo # <<>>
  BY DEF Compensate, TypeInv, TypeOK, SharedType
<1>2. Entries(undo) \subseteq Entries(undo)' \cup {last}
  BY <1>1, EntriesFront DEF Compensate, Entries
<1>3. UNCHANGED <<pc, status, frontier>> /\ dirty' = dirty \ {last} /\ pc = "undo"
  BY DEF Compensate, loopVars
<1>4. status = "running"
  BY <1>3 DEF FrontierInv, OverIsTold
<1> QED
  BY <1>2, <1>3, <1>4 DEF EffectsLogged

\* The first failed handle hands the whole log over to the compensation.
LEMMA LoggedJoinErr ==
  ASSUME TypeInv, FrontierInv, EffectsLogged, JoinErr
  PROVE  EffectsLogged'
<1>1. Entries(undo)' = Entries(log)
  BY DEF JoinErr, Entries
<1>2. pc = "join" /\ pc' = "undo" /\ UNCHANGED <<status, dirty, frontier>>
  BY DEF JoinErr, JoinReady, historyVars
<1>3. status = "running" /\ dirty \subseteq Node
  BY <1>2 DEF FrontierInv, OverIsTold, TypeInv, TypeOK, HistoryType
<1> QED
  BY <1>1, <1>2, <1>3 DEF EffectsLogged

LEMMA LoggedFail ==
  ASSUME TypeInv, EffectsLogged, Fail
  PROVE  EffectsLogged'
<1>1. Entries(undo) = {}
  BY DEF Fail, Entries
<1>2. pc = "undo" /\ pc' = "end" /\ UNCHANGED <<dirty, frontier>>
  BY DEF Fail, Terminate, historyVars
<1> QED
  BY <1>1, <1>2 DEF EffectsLogged

\* A step without an effect, before a failure or one that ends the run.
LEMMA LoggedFrame ==
  ASSUME FrontierInv, EffectsLogged, UNCHANGED <<dirty, log>>,
         \A n \in Node : task'[n] # "none" => task[n] # "none",
         \/ pc' \in {"top", "spawn", "join"} /\ pc \in {"top", "spawn", "join"}
         \/ pc' = "end"
         \/ UNCHANGED <<pc, undo, frontier>>,
         \/ status' = status /\ (status = "failed" => UNCHANGED frontier)
         \/ status' \in {"completed", "aborted", "timeout"}
  PROVE  EffectsLogged'
  BY DEF EffectsLogged, FrontierInv, OverIsTold, Entries

LEMMA LoggedStep == TypeInv /\ LockInv /\ FrontierInv /\ EffectsLogged /\ [Next]_vars => EffectsLogged'
<1> SUFFICES ASSUME TypeInv, LockInv, FrontierInv, EffectsLogged, [Next]_vars
             PROVE  EffectsLogged'
  OBVIOUS
<1>1. CASE AnnounceHalt \/ StopHalted \/ Resume
  BY <1>1, LoggedFrame
  DEF AnnounceHalt, StopHalted, Resume, Terminate, loopVars, taskVars, historyVars,
      sharedVars
<1>2. CASE BeginStep
  BY <1>2, LoggedFrame DEF BeginStep, Terminate, taskVars, FrontierInv, OverIsTold
<1>3. CASE SkipUnknown \/ SpawnDone
  BY <1>3, LoggedFrame DEF SkipUnknown, SpawnDone, taskVars, sharedVars, historyVars
<1>4. CASE \E n \in Node : Spawn(n) \/ SkipLoop(n)
  BY <1>4, LoggedSpawn
<1>5. CASE RouteMessage \/ (\E e \in Edges : ChaseEdge(e) \/ ChaseFanIn(e))
  BY <1>5, LoggedFrame
  DEF RouteMessage, ChaseEdge, ChaseFanIn, JoinReady, taskVars, sharedVars, historyVars
<1>6. CASE JoinOk
  <2>1. \A n \in Node : task'[n] # "none" => task[n] # "none"
    BY <1>6 DEF JoinOk, TypeInv, TypeOK, TaskType
  <2> QED
    BY <1>6, <2>1, LoggedFrame DEF JoinOk, sharedVars, historyVars
<1>7. CASE JoinErr
  BY <1>7, LoggedJoinErr
<1>8. CASE Compensate
  BY <1>8, LoggedCompensate
<1>9. CASE Fail
  BY <1>9, LoggedFail
<1>10. CASE StepDone \/ TimeoutRun
  BY <1>10, LoggedFrame
  DEF StepDone, TimeoutRun, Terminate, taskVars, sharedVars, historyVars
<1>11. CASE \E n \in Node : TaskStep(n)
  BY <1>11, LoggedTask
<1>12. CASE ClientResume \/ ClientDrop \/ UNCHANGED vars
  BY <1>12, LoggedFrame
  DEF ClientResume, ClientDrop, vars, loopVars, taskVars, sharedVars, historyVars
<1> QED
  BY <1>1, <1>2, <1>3, <1>4, <1>5, <1>6, <1>7, <1>8, <1>9, <1>10, <1>11, <1>12
  DEF Next, LoopStep, Done

\* After WorkflowError for a failed node the effects of every earlier superstep
\* have been compensated: what is left, if anything, is of the failed step.
THEOREM EarlierSteps == Spec => []EarlierStepsUndone
<1>1. Init => EffectsLogged
  BY DEF Init, EffectsLogged
<1>2. Spec => []EffectsLogged
  BY <1>1, FrontierInvAlways, LoggedStep, PTL DEF Spec
<1>3. EffectsLogged => EarlierStepsUndone
  BY DEF EffectsLogged, EarlierStepsUndone
<1> QED
  BY <1>2, <1>3, PTL

-----------------------------------------------------------------------------
(* Supersteps.  What waits for the next step was sent by a node of this    *)
(* one over an edge within its reach; the runner that is being asked is    *)
(* one of the message's source, and that source is the awaited node or its *)
(* fallback.                                                               *)

LabelsAreSources == \A n \in Node : label[n] \in Sources(n)

MailIsTraced ==
  /\ pc \in {"top", "spawn"} => next = None /\ chase = {}
  /\ pc = "join" => \A t \in Target : next[t] > 0 =>
       \E n \in Node : frontier[n] > 0 /\ <<n, t>> \in Reach
  /\ pc = "join" /\ chase # {} =>
       handles # <<>> /\ task[Joined] = "ok" /\ chase \subseteq EdgesOf(Source)

RouteInv == LabelsAreSources /\ MailIsTraced

LEMMA RouteFrame ==
  ASSUME RouteInv, UNCHANGED <<next, chase, label, frontier>>,
         UNCHANGED <<task, handles>> \/ chase = {} \/ pc' = "undo",
         \/ pc' \in {"undo", "end"}
         \/ pc' \in {"top", "spawn"} /\ pc \in {"top", "spawn"}
         \/ UNCHANGED pc
  PROVE  RouteInv'
<1>1. (Joined' = Joined /\ Source' = Source) \/ chase = {} \/ pc' = "undo"
  BY DEF Joined, Source
<1> QED
  BY <1>1 DEF RouteInv, LabelsAreSources, MailIsTraced

\* The label of a finished task stays, so the runners being asked do too.
LEMMA RouteTask ==
  ASSUME TypeInv, RouteInv, NEW n \in Node, TaskStep(n)
  PROVE  RouteInv'
<1>1. UNCHANGED <<pc, next, chase, handles, frontier>>
  BY DEF TaskStep, TaskStart, RequestHalt, ScheduleTimer, HandlerOk, HandlerRetry,
         HandlerExhausted, TaskPanic, TaskFrame, loopVars
<1>2. task[n] \in {"queued", "running"}
  BY DEF TaskStep, TaskStart, RequestHalt, ScheduleTimer, HandlerOk, HandlerRetry,
         HandlerExhausted, TaskPanic
<1>3. \A m \in Node \ {n} : task'[m] = task[m] /\ label'[m] = label[m]
  BY DEF TaskStep, TaskStart, RequestHalt, ScheduleTimer, HandlerOk, HandlerRetry,
         HandlerExhausted, TaskPanic, taskVars, TypeInv, TypeOK, TaskType
<1>4. label'[n] \in {label[n]} \cup ({OnExhausted[n]} \cap Node)
  BY DEF TaskStep, TaskStart, RequestHalt, ScheduleTimer, HandlerOk, HandlerRetry,
         HandlerExhausted, TaskPanic, taskVars, TypeInv, TypeOK, TaskType
<1>5. LabelsAreSources'
  BY <1>3, <1>4 DEF RouteInv, LabelsAreSources, Sources
<1>6. MailIsTraced'
  <2>1. CASE pc = "join" /\ chase # {}
    <3>1. /\ handles # <<>> /\ task[Joined] = "ok" /\ Joined \in Node
          /\ chase \subseteq EdgesOf(Source)
      BY <2>1, JoinTypes DEF JoinReady, RouteInv, MailIsTraced
    <3>2. Joined' = Joined /\ Joined # n
      BY <1>1, <1>2, <3>1 DEF Joined
    <3>3. task'[Joined] = "ok" /\ Source' = Source
      BY <1>3, <3>1, <3>2 DEF Source
    <3> QED
      BY <1>1, <3>1, <3>2, <3>3 DEF RouteInv, MailIsTraced
  <2>2. CASE ~(pc = "join" /\ chase # {})
    BY <1>1, <2>2 DEF RouteInv, MailIsTraced
  <2> QED
    BY <2>1, <2>2
<1> QED
  BY <1>5, <1>6 DEF RouteInv

LEMMA RouteSpawn ==
  ASSUME TypeInv, RouteInv, NEW n \in Node, Spawn(n)
  PROVE  RouteInv'
<1>1. LabelsAreSources'
  BY DEF Spawn, RouteInv, LabelsAreSources, Sources, TypeInv, TypeOK, TaskType
<1>2. MailIsTraced'
  BY DEF Spawn, RouteInv, MailIsTraced
<1> QED
  BY <1>1, <1>2 DEF RouteInv

\* What is delivered to T over an edge of the source is within reach.
LEMMA WithinReach ==
  ASSUME TypeInv, FrontierInv, RouteInv, JoinReady,
         NEW e \in chase, NEW t \in Target, t \in Sinks(e)
  PROVE  \E n \in Node : frontier[n] > 0 /\ <<n, t>> \in Reach
<1>1. task[Joined] = "ok" /\ e \in EdgesOf(Source)
  BY DEF JoinReady, RouteInv, MailIsTraced
<1>2. Joined \in Node /\ Source \in Sources(Joined)
  BY JoinTypes DEF Source, RouteInv, LabelsAreSources
<1>3. frontier[Joined] > 0
  BY <1>1, <1>2 DEF FrontierInv, StepHasFrontier
<1>4. <<Joined, t>> \in Reach
  BY <1>1, <1>2 DEF Reach
<1> QED
  BY <1>2, <1>3, <1>4

LEMMA RouteChase ==
  ASSUME TypeInv, FrontierInv, RouteInv, NEW e \in Edges, ChaseEdge(e) \/ ChaseFanIn(e)
  PROVE  RouteInv'
<1>1. /\ JoinReady /\ e \in chase /\ chase' \subseteq chase
      /\ UNCHANGED <<pc, handles, label, task, frontier>>
  BY DEF ChaseEdge, ChaseFanIn, taskVars, historyVars
<1>2. pc = "join" /\ Joined' = Joined /\ Source' = Source
  BY <1>1 DEF JoinReady, Joined, Source
<1>3. \A t \in Target : t \notin Sinks(e) => next'[t] = next[t]
  <2>1. CASE ChaseEdge(e)
    <3>1. PICK T \in Deliveries(e) : next' = Add(next, T)
      BY <2>1 DEF ChaseEdge
    <3>2. e.kind \in {"direct", "fanout"}
      BY <2>1, GraphAssumption DEF ChaseEdge, EdgeType
    <3>3. T \subseteq Sinks(e)
      BY <3>1, <3>2 DEF Deliveries, Sinks
    <3> QED
      BY <3>1, <3>3 DEF Add
  <2>2. CASE ChaseFanIn(e)
    <3>1. Sinks(e) = e.to
      BY <2>2 DEF ChaseFanIn, Sinks
    <3>2. \A t \in Target : t \notin e.to => next'[t] = next[t]
      BY <2>2 DEF ChaseFanIn
    <3> QED
      BY <3>1, <3>2
  <2> QED
    BY <2>1, <2>2
<1>4. \A t \in Target : next'[t] > 0 =>
        \E n \in Node : frontier[n] > 0 /\ <<n, t>> \in Reach
  BY <1>1, <1>2, <1>3, WithinReach DEF RouteInv, MailIsTraced
<1>5. handles # <<>> /\ task[Joined] = "ok" /\ chase \subseteq EdgesOf(Source)
  BY <1>1, <1>2 DEF JoinReady, RouteInv, MailIsTraced
<1>6. EdgesOf(Source)' = EdgesOf(Source)
  BY <1>2 DEF EdgesOf
<1>7. MailIsTraced'
  BY <1>1, <1>2, <1>4, <1>5, <1>6 DEF MailIsTraced
<1> QED
  BY <1>1, <1>7 DEF RouteInv, LabelsAreSources

LEMMA RouteJoin ==
  ASSUME TypeInv, RouteInv, RouteMessage
  PROVE  RouteInv'
<1>1. /\ UNCHANGED <<pc, next, handles, label, task, frontier>>
      /\ JoinReady /\ task[Joined] = "ok" /\ chase' = EdgesOf(Source)
  BY DEF RouteMessage
<1>2. Joined' = Joined /\ Source' = Source
  BY <1>1 DEF Joined, Source
<1>3. EdgesOf(Source)' = EdgesOf(Source)
  BY <1>2 DEF EdgesOf
<1> QED
  BY <1>1, <1>2, <1>3 DEF JoinReady, RouteInv, LabelsAreSources, MailIsTraced

LEMMA RouteStepDone ==
  ASSUME RouteInv, StepDone
  PROVE  RouteInv'
  BY DEF StepDone, RouteInv, LabelsAreSources, MailIsTraced, taskVars

\* SpawnDone hands an empty next_step_ctx over to the joins.
LEMMA RouteSpawnDone ==
  ASSUME RouteInv, SpawnDone
  PROVE  RouteInv'
<1>1. \A t \in Target : ~(next[t] > 0)
  BY DEF SpawnDone, RouteInv, MailIsTraced, None
<1> QED
  BY <1>1 DEF SpawnDone, RouteInv, LabelsAreSources, MailIsTraced, taskVars, historyVars

LEMMA RouteBegin ==
  ASSUME RouteInv, BeginStep
  PROVE  RouteInv'
<1>1. pc' \in {"spawn", "end"} /\ UNCHANGED <<next, chase, label>> /\ pc = "top"
  BY DEF BeginStep, Terminate, taskVars
<1> QED
  BY <1>1 DEF RouteInv, LabelsAreSources, MailIsTraced

LEMMA RouteStep == TypeInv /\ FrontierInv /\ RouteInv /\ [Next]_vars => RouteInv'
<1> SUFFICES ASSUME TypeInv, FrontierInv, RouteInv, [Next]_vars PROVE RouteInv'
  OBVIOUS
<1>1. CASE AnnounceHalt \/ StopHalted \/ Resume
  BY <1>1, RouteFrame
  DEF AnnounceHalt, StopHalted, Resume, Terminate, loopVars, taskVars, historyVars
<1>2. CASE BeginStep
  BY <1>2, RouteBegin
<1>3. CASE SkipUnknown \/ (\E n \in Node : SkipLoop(n))
  BY <1>3, RouteFrame DEF SkipUnknown, SkipLoop, taskVars, historyVars
<1>4. CASE SpawnDone \/ (\E n \in Node : Spawn(n))
  BY <1>4, RouteSpawn, RouteSpawnDone
<1>5. CASE RouteMessage \/ (\E e \in Edges : ChaseEdge(e) \/ ChaseFanIn(e))
  BY <1>5, RouteJoin, RouteChase
<1>6. CASE JoinOk \/ JoinErr
  BY <1>6, RouteFrame DEF JoinOk, JoinErr, taskVars, historyVars
<1>7. CASE Compensate \/ Fail \/ TimeoutRun
  BY <1>7, RouteFrame
  DEF Compensate, Fail, TimeoutRun, Terminate, loopVars, taskVars, historyVars
<1>8. CASE StepDone
  BY <1>8, RouteStepDone
<1>9. CASE \E n \in Node : TaskStep(n)
  BY <1>9, RouteTask
<1>10. CASE ClientResume \/ ClientDrop \/ UNCHANGED vars
  BY <1>10, RouteFrame
  DEF ClientResume, ClientDrop, vars, loopVars, taskVars, historyVars
<1> QED
  BY <1>1, <1>2, <1>3, <1>4, <1>5, <1>6, <1>7, <1>8, <1>9, <1>10 DEF Next, LoopStep, Done

LEMMA RouteInvAlways == Spec => [](TypeInv /\ LockInv /\ FrontierInv /\ RouteInv)
<1>1. Init => RouteInv
  BY DEF Init, RouteInv, LabelsAreSources, MailIsTraced, Sources
<1> QED
  BY <1>1, FrontierInvAlways, RouteStep, PTL DEF Spec

\* The mail of the abstract run, and whether it is over.
MailBar == IF pc = "end" THEN None ELSE IF pc = "top" THEN queued ELSE frontier
OverBar == pc = "end"

LEMMA BarTypes == TypeInv' => MailBar' \in [Target -> Nat]
  BY QueueTypes DEF MailBar, TypeInv, TypeOK, LoopType, HistoryType

\* The end of a superstep is the abstract step, the only one that consumes mail.
LEMMA StepDoneRefines ==
  ASSUME TypeInv, TypeInv', FrontierInv, RouteInv, StepDone
  PROVE  BSP!Step
<1>1. /\ pc = "join" /\ pc' = "top" /\ queued' = next
      /\ MailBar = frontier /\ MailBar' = next
  BY DEF StepDone, MailBar
<1>2. BSP!Active = {t \in Target : frontier[t] > 0}
  BY <1>1 DEF BSP!Active, MailBar
<1>3. BSP!Active # {}
  BY <1>1, <1>2 DEF FrontierInv, StepHasFrontier
<1>4. MailBar' \in [Target -> Nat]
  BY BarTypes
<1>5. \A t \in Target : MailBar'[t] > 0 => \E n \in BSP!Active : <<n, t>> \in Reach
  BY <1>1, <1>2 DEF RouteInv, MailIsTraced, Target
<1> QED
  BY <1>1, <1>3, <1>4, <1>5 DEF BSP!Step, MailBar

LEMMA EndRefines ==
  ASSUME pc # "end", pc' = "end"
  PROVE  BSP!Stop
  BY DEF BSP!Stop, BSP!Silence, None

\* Resume commands and timers only add to the queues.
LEMMA ArriveRefines ==
  ASSUME TypeInv, TypeInv', pc = "top", pc' # "end",
         \A t \in Target : MailBar'[t] >= queued[t]
  PROVE  BSP!Arrive
<1>1. MailBar' \in [Target -> Nat]
  BY BarTypes
<1> QED
  BY <1>1 DEF BSP!Arrive, MailBar

LEMMA StutterRefines ==
  ASSUME UNCHANGED <<MailBar, OverBar>>
  PROVE  UNCHANGED BSP!vars
  BY DEF BSP!vars, MailBar, OverBar

LEMMA ResumeRefines ==
  ASSUME TypeInv, TypeInv', Resume
  PROVE  [BSP!Next]_BSP!vars
<1>1. pc = "top" /\ pc' \in {"top", "end"}
  BY DEF Resume, Terminate
<1>2. \A t \in Target : queued'[t] >= queued[t]
  <2>1. queued' \in {queued, Add(queued, {Head(commands).target})}
    BY DEF Resume
  <2>2. queued \in [Target -> Nat]
    BY DEF TypeInv, TypeOK, LoopType
  <2> QED
    BY <2>1, <2>2 DEF Add
<1>3. CASE pc' = "end"
  BY <1>1, <1>3, EndRefines DEF BSP!Next
<1>4. CASE pc' = "top"
  BY <1>1, <1>2, <1>4, ArriveRefines DEF BSP!Next, MailBar
<1> QED
  BY <1>1, <1>3, <1>4

LEMMA BeginRefines ==
  ASSUME TypeInv, TypeInv', BeginStep
  PROVE  [BSP!Next]_BSP!vars
<1>1. PICK due \in [Node -> 0..MaxArmed] :
        queued' = [t \in Target |-> IF t \in Node THEN queued[t] + due[t] ELSE queued[t]]
  BY DEF BeginStep
<1>2. \A t \in Target : queued'[t] >= queued[t]
  BY <1>1, ConfigAssumption DEF TypeInv, TypeOK, LoopType
<1>3. /\ pc = "top" /\ pc' \in {"spawn", "end"}
      /\ pc' = "spawn" => frontier' = queued'
  BY DEF BeginStep, Terminate
<1>4. CASE pc' = "end"
  BY <1>3, <1>4, EndRefines DEF BSP!Next
<1>5. CASE pc' = "spawn"
  BY <1>2, <1>3, <1>5, ArriveRefines DEF BSP!Next, MailBar
<1> QED
  BY <1>3, <1>4, <1>5

LEMMA StepRefines ==
  TypeInv /\ TypeInv' /\ FrontierInv /\ RouteInv /\ [Next]_vars => [BSP!Next]_BSP!vars
<1> SUFFICES ASSUME TypeInv, TypeInv', FrontierInv, RouteInv, [Next]_vars
             PROVE  [BSP!Next]_BSP!vars
  OBVIOUS
<1>1. CASE StopHalted \/ Fail \/ TimeoutRun
  BY <1>1, EndRefines DEF StopHalted, Fail, TimeoutRun, Terminate, BSP!Next
<1>2. CASE Resume
  BY <1>2, ResumeRefines
<1>3. CASE BeginStep
  BY <1>3, BeginRefines
<1>4. CASE StepDone
  BY <1>4, StepDoneRefines DEF BSP!Next
<1>5. CASE AnnounceHalt \/ ClientResume \/ ClientDrop \/ UNCHANGED vars
  <2>1. UNCHANGED <<MailBar, OverBar>>
    BY <1>5 DEF AnnounceHalt, ClientResume, ClientDrop, vars, loopVars, historyVars,
                MailBar, OverBar
  <2> QED
    BY <2>1, StutterRefines
<1>6. CASE SkipUnknown \/ SpawnDone \/ (\E n \in Node : SkipLoop(n) \/ Spawn(n))
  <2>1. UNCHANGED <<MailBar, OverBar>>
    BY <1>6 DEF SkipUnknown, SpawnDone, SkipLoop, Spawn, historyVars, MailBar, OverBar
  <2> QED
    BY <2>1, StutterRefines
<1>7. CASE \/ RouteMessage \/ (\E e \in Edges : ChaseEdge(e) \/ ChaseFanIn(e))
           \/ JoinOk \/ JoinErr \/ Compensate
  <2>1. UNCHANGED <<MailBar, OverBar>>
    BY <1>7 DEF RouteMessage, ChaseEdge, ChaseFanIn, JoinOk, JoinErr, Compensate,
                JoinReady, loopVars, historyVars, MailBar, OverBar
  <2> QED
    BY <2>1, StutterRefines
<1>8. CASE \E n \in Node : TaskStep(n)
  <2>1. UNCHANGED <<MailBar, OverBar>>
    BY <1>8 DEF TaskStep, TaskStart, RequestHalt, ScheduleTimer, HandlerOk, HandlerRetry,
                HandlerExhausted, TaskPanic, TaskFrame, loopVars, MailBar, OverBar
  <2> QED
    BY <2>1, StutterRefines
<1> QED
  BY <1>1, <1>2, <1>3, <1>4, <1>5, <1>6, <1>7, <1>8 DEF Next, LoopStep, Done

\* The engine implements the atomic supersteps: however its tasks, its edge
\* runners and its clients interleave, a step consumes all the mail there was
\* and leaves only mail its active nodes may send, and between two steps mail
\* is only added.
THEOREM SuperstepsImplemented == Spec => ImplementsSupersteps
<1>1. Init => BSP!Init
  BY DEF Init, BSP!Init, Add, None, Target
<1> QED
  BY <1>1, RouteInvAlways, StepRefines, PTL DEF Spec, BSP!Spec, ImplementsSupersteps

==============================================================================
