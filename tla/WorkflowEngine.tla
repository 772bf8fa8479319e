---------------------------- MODULE WorkflowEngine ----------------------------
(***************************************************************************)
(* The graph engine of crates/workflow: WorkflowEngine::execute_loop, the  *)
(* node tasks it spawns, the edge runners that route what they produce and *)
(* the resume commands of WorkflowRuntime.                                 *)
(*                                                                         *)
(* A run is a sequence of supersteps.  In one superstep the loop takes the *)
(* queued messages of every active node, spawns one tokio task per node,   *)
(* awaits the tasks in spawn order, routes what they produced into the     *)
(* queues of the next superstep and commits a checkpoint.  The tasks run   *)
(* concurrently with the loop and with each other: every await of the code *)
(* between two effects is a step boundary here.                            *)
(*                                                                         *)
(* A message body is never looked at by the engine, so a queue is the      *)
(* number of its messages.  A handler is external code: what it returns    *)
(* and which context calls it makes are free choices, within the bounds    *)
(* named by the constants.                                                 *)
(***************************************************************************)
EXTENDS Naturals, Sequences, FiniteSets

CONSTANTS
  Node,          \* the node ids of the graph
  Start,         \* the start node
  Ghost,         \* a node id that is not in the graph: a command may name one
  Edges,         \* the edges: [kind, from, to, guarded], see EdgeType
  MaxRetries,    \* [Node -> Nat]: RetryOptions.max_retries, 0 without retry
  OnExhausted,   \* [Node -> "fail", "skip" or the node f of FallbackNode(f)]
  LoopMax,       \* [Node -> Nat]: LoopOptions.max_iterations, 0 is no limit
  MaxParallel,   \* WorkflowConfig.max_parallel_nodes, 0 is no limit
  GlobalTimeout, \* whether WorkflowConfig.global_timeout is set
  Resumable,     \* whether the run was started by a WorkflowRuntime
  PatientClient, \* whether the client resumes only what it saw halted
  StoreMayFail,  \* whether a checkpoint commit may fail
  Emits,         \* [Node -> Nat]: the most messages one handler call returns
  MayFail,       \* the nodes whose handler may fail, time out or panic
  MayHalt,       \* the nodes whose handler may call request_halt
  MayArm,        \* the nodes whose handler may call schedule_timer
  MaxArmed,      \* bound: timers scheduled in a run
  MaxCommands    \* bound: resume commands sent in a run

Target == Node \cup {Ghost}

EdgeType == [kind : {"direct", "fanout", "fanin"}, from : SUBSET Node,
             to : SUBSET Node, guarded : BOOLEAN]

ASSUME GraphAssumption ==
  /\ IsFiniteSet(Node)
  /\ Start \in Node
  /\ Ghost \notin Node
  /\ Edges \subseteq EdgeType
  /\ "fail" \notin Node /\ "skip" \notin Node

ASSUME ConfigAssumption ==
  /\ MaxRetries \in [Node -> Nat]
  /\ OnExhausted \in [Node -> Node \cup {"fail", "skip"}]
  /\ LoopMax \in [Node -> Nat]
  /\ MaxParallel \in Nat
  /\ Emits \in [Node -> Nat]
  /\ {GlobalTimeout, Resumable, PatientClient, StoreMayFail} \subseteq BOOLEAN
  /\ MaxArmed \in Nat /\ MaxCommands \in Nat

FanIns == {e \in Edges : e.kind = "fanin"}
EdgesOf(s) == {e \in Edges : s \in e.from}

VARIABLES
  \* ------------------------------------------------- the superstep loop
  pc,        \* "top", "spawn", "join", "undo" or "end"
  status,    \* "running" or the terminal event of the run
  step,      \* step_ctx.step_number
  queued,    \* step_ctx: messages queued per target
  next,      \* next_step_ctx
  active,    \* active_nodes not yet visited by the spawn loop
  handles,   \* the join handles not yet awaited, in spawn order
  chase,     \* edge runners not yet asked about the message being routed
  \* ------------------------------------------------- the node tasks
  task,      \* per node: "none", "queued", "running", "ok" or "err"
  batch,     \* messages taken for this step
  left,      \* messages of the batch this attempt has not handled yet
  attempt,   \* retries used
  produced,  \* messages returned so far, to be routed by the loop
  label,     \* the source id the produced messages are routed from
  \* ------------------------------------------------- shared with the tasks
  halt,      \* halt_flag
  announced, \* halt_announced
  timers,    \* per node: scheduled timers that have not fired
  loopCount, \* the loop counters of state_map
  barrier,   \* per source and fan-in edge: what that edge runner has stored
  log,       \* execution_log
  undo,      \* the part of the log still to compensate
  saved,     \* the last checkpoint committed: step, pending messages, barriers
  \* ------------------------------------------------- the client
  commands,  \* resume_tx / resume_rx
  attached,  \* the WorkflowRuntime, hence resume_tx, is alive
  unanswered,\* WorkflowHalted events the client has not answered
  sent,      \* commands sent so far
  armed,     \* timers scheduled so far
  \* ------------------------------------------------- read by properties only
  frontier,  \* the queues at the start of the current superstep
  dirty,     \* nodes with a handler effect that no compensation followed
  runs,      \* per node: how many of its tasks have begun to handle messages
  emitted,   \* the sources that produced a message on each fan-in edge
  fellBack   \* the nodes named by an exhausted FallbackNode

loopVars == <<pc, status, step, queued, next, active, handles, chase>>
taskVars == <<task, batch, left, attempt, produced, label>>
sharedVars == <<halt, announced, timers, loopCount, barrier, log, undo, saved>>
clientVars == <<commands, attached, unanswered, sent, armed>>
historyVars == <<frontier, dirty, runs, emitted, fellBack>>
vars == <<loopVars, taskVars, sharedVars, clientVars, historyVars>>

None == [t \in Target |-> 0]
Empty(q) == \A t \in Target : q[t] = 0
Add(q, T) == [t \in Target |-> IF t \in T THEN q[t] + 1 ELSE q[t]]

\* What a checkpoint keeps of a queue: serialize_content writes the body of a
\* message tagged "ChatMessage", "Vec<ChatMessage>" or "String".  The loop tags
\* its messages "initial", "resume", "timer" or, once routed, with the name of
\* dyn Any: of those it writes the tag in place of the body.
Serialized(q) == [envelopes |-> q, bodies |-> None]

Command == [kind : {"inject"}, target : Target]
             \cup [kind : {"continue", "abort"}, target : {Ghost}]
EmptyBarrier == [from |-> {}, count |-> 0]

LoopType ==
  /\ pc \in {"top", "spawn", "join", "undo", "end"}
  /\ status \in {"running", "completed", "failed", "aborted", "timeout"}
  /\ step \in Nat
  /\ queued \in [Target -> Nat] /\ next \in [Target -> Nat]
  /\ active \subseteq Target
  /\ handles \in Seq(Node)
  /\ chase \subseteq Edges

TaskType ==
  /\ task \in [Node -> {"none", "queued", "running", "ok", "err"}]
  /\ batch \in [Node -> Nat] /\ left \in [Node -> Nat]
  /\ attempt \in [Node -> Nat] /\ produced \in [Node -> Nat]
  /\ label \in [Node -> Node]

BarrierType == [Node -> [FanIns -> [from : SUBSET Node, count : Nat]]]
SavedType == [step : Nat, stored : BarrierType,
              pending : [envelopes : [Target -> Nat], bodies : [Target -> Nat]]]

SharedType ==
  /\ halt \in BOOLEAN /\ announced \in BOOLEAN
  /\ timers \in [Node -> Nat] /\ loopCount \in [Node -> Nat]
  /\ barrier \in BarrierType
  /\ log \in Seq(Node) /\ undo \in Seq(Node)
  /\ saved \in SavedType

ClientType ==
  /\ commands \in Seq(Command) /\ attached \in BOOLEAN
  /\ unanswered \in Nat /\ sent \in Nat /\ armed \in Nat

HistoryType ==
  /\ frontier \in [Target -> Nat]
  /\ dirty \subseteq Node /\ fellBack \subseteq Node
  /\ runs \in [Node -> Nat]
  /\ emitted \in [FanIns -> SUBSET Node]

TypeOK == LoopType /\ TaskType /\ SharedType /\ ClientType /\ HistoryType

Init ==
  /\ pc = "top" /\ status = "running" /\ step = 0
  /\ queued = Add(None, {Start}) /\ next = None /\ active = {}
  /\ handles = <<>> /\ chase = {}
  /\ task = [n \in Node |-> "none"]
  /\ batch = [n \in Node |-> 0] /\ left = [n \in Node |-> 0]
  /\ attempt = [n \in Node |-> 0] /\ produced = [n \in Node |-> 0]
  /\ label = [n \in Node |-> n]
  /\ halt = FALSE /\ announced = FALSE
  /\ timers = [n \in Node |-> 0] /\ loopCount = [n \in Node |-> 0]
  /\ barrier = [n \in Node |-> [e \in FanIns |-> EmptyBarrier]]
  /\ log = <<>> /\ undo = <<>>
  /\ saved = [step |-> 0, stored |-> barrier, pending |-> Serialized(None)]
  /\ commands = <<>> /\ attached = Resumable /\ unanswered = 0
  /\ sent = 0 /\ armed = 0
  /\ frontier = queued /\ dirty = {} /\ fellBack = {}
  /\ runs = [n \in Node |-> 0]
  /\ emitted = [e \in FanIns |-> {}]

-----------------------------------------------------------------------------
(* The top of the loop: halt and resume, due timers, begin of a superstep. *)

\* save_checkpoint: the pending messages and what the fan-in runners have stored,
\* but no timer; an error of the store is logged and swallowed.
SaveCheckpoint(q) ==
  \/ saved' = [step |-> step, stored |-> barrier, pending |-> Serialized(q)]
  \/ StoreMayFail /\ UNCHANGED saved

Terminate(event) == pc' = "end" /\ status' = event

\* Mutant of AnnounceHalt: the halt is announced without a checkpoint.
AnnounceUnsaved ==
  /\ pc = "top" /\ halt /\ ~announced
  /\ announced' = TRUE
  /\ unanswered' = unanswered + 1
  /\ UNCHANGED <<loopVars, taskVars, halt, timers, loopCount, barrier, log, undo,
                 saved, commands, attached, sent, armed, historyVars>>

\* The first pass with the flag set saves a checkpoint and emits WorkflowHalted.
AnnounceHalt ==
  /\ pc = "top" /\ halt /\ ~announced
  /\ SaveCheckpoint(queued)
  /\ announced' = TRUE
  /\ unanswered' = unanswered + 1
  /\ UNCHANGED <<loopVars, taskVars, halt, timers, loopCount, barrier, log, undo,
                 commands, attached, sent, armed, historyVars>>

\* A run without a runtime, or whose runtime is gone, stops at the halt and
\* falls through to WorkflowCompleted.
StopHalted ==
  /\ pc = "top" /\ announced
  /\ commands = <<>> /\ ~attached
  /\ Terminate("completed")
  /\ UNCHANGED <<step, queued, next, active, handles, chase, taskVars, sharedVars,
                 clientVars, historyVars>>

\* Mutant of Resume: Continue forgets to reset halt_announced.
ResumeStaysAnnounced ==
  /\ pc = "top" /\ announced /\ commands # <<>>
  /\ Head(commands).kind = "continue"
  /\ commands' = Tail(commands)
  /\ halt' = FALSE
  /\ UNCHANGED <<loopVars, taskVars, announced, timers, loopCount, barrier, log, undo,
                 saved, attached, unanswered, sent, armed, historyVars>>

\* rx.recv() returns the oldest command, however long ago it was sent.
Resume ==
  /\ pc = "top" /\ announced /\ commands # <<>>
  /\ commands' = Tail(commands)
  /\ LET cmd == Head(commands) IN
       \/ /\ cmd.kind = "inject"
          /\ queued' = Add(queued, {cmd.target})
          /\ halt' = FALSE /\ announced' = FALSE
          /\ UNCHANGED <<pc, status>>
       \/ /\ cmd.kind = "continue"
          /\ halt' = FALSE /\ announced' = FALSE
          /\ UNCHANGED <<pc, status, queued>>
       \/ /\ cmd.kind = "abort"
          /\ Terminate("aborted")
          /\ UNCHANGED <<queued, halt, announced>>
  /\ UNCHANGED <<step, next, active, handles, chase, taskVars, timers, loopCount,
                 barrier, log, undo, saved, attached, unanswered, sent, armed,
                 historyVars>>

\* fire_due_timers puts one message per due timer into the queue of its node;
\* with no message at all the loop ends, whatever timers are still pending.
BeginStep ==
  /\ pc = "top" /\ ~halt
  /\ \E due \in [Node -> 0..MaxArmed] :
       /\ \A n \in Node : due[n] <= timers[n]
       /\ timers' = [n \in Node |-> timers[n] - due[n]]
       /\ queued' = [t \in Target |-> IF t \in Node THEN queued[t] + due[t]
                                                   ELSE queued[t]]
  /\ IF Empty(queued')
       THEN Terminate("completed") /\ UNCHANGED <<active, frontier>>
       ELSE /\ pc' = "spawn" /\ UNCHANGED status
            /\ active' = {t \in Target : queued'[t] > 0}
            /\ frontier' = queued'
  /\ UNCHANGED <<step, next, handles, chase, taskVars, halt, announced, loopCount,
                 barrier, log, undo, saved, clientVars, dirty, runs, emitted,
                 fellBack>>

-----------------------------------------------------------------------------
(* The spawn loop, in the arbitrary order of HashMap::keys.                *)

\* Mutant of LoopExhausted: the limit is compared with ">".
LoopExhaustedLate(n) == LoopMax[n] > 0 /\ loopCount[n] > LoopMax[n]

LoopExhausted(n) == LoopMax[n] > 0 /\ loopCount[n] >= LoopMax[n]

\* A queue whose target is not a node of the graph is left behind.
SkipUnknown ==
  /\ pc = "spawn" /\ Ghost \in active
  /\ active' = active \ {Ghost}
  /\ queued' = [queued EXCEPT ![Ghost] = 0]
  /\ UNCHANGED <<pc, status, step, next, handles, chase, taskVars, sharedVars,
                 clientVars, historyVars>>

\* The node is logged, then skipped with its messages at the loop limit.
SkipLoop(n) ==
  /\ pc = "spawn" /\ n \in active /\ LoopExhausted(n)
  /\ active' = active \ {n}
  /\ queued' = [queued EXCEPT ![n] = 0]
  /\ log' = Append(log, n)
  /\ UNCHANGED <<pc, status, step, next, handles, chase, taskVars, halt, announced,
                 timers, loopCount, barrier, undo, saved, clientVars, historyVars>>

\* The counter is the key loop_variable or __loop_{node} of state_map, which no
\* handler is taken to write or clear.
Spawn(n) ==
  /\ pc = "spawn" /\ n \in active /\ ~LoopExhausted(n)
  /\ active' = active \ {n}
  /\ queued' = [queued EXCEPT ![n] = 0]
  /\ log' = Append(log, n)
  /\ loopCount' = IF LoopMax[n] > 0 THEN [loopCount EXCEPT ![n] = @ + 1] ELSE loopCount
  /\ handles' = Append(handles, n)
  /\ task' = [task EXCEPT ![n] = "queued"]
  /\ batch' = [batch EXCEPT ![n] = queued[n]]
  /\ left' = [left EXCEPT ![n] = queued[n]]
  /\ attempt' = [attempt EXCEPT ![n] = 0]
  /\ produced' = [produced EXCEPT ![n] = 0]
  /\ label' = [label EXCEPT ![n] = n]
  /\ UNCHANGED <<pc, status, step, next, chase, halt, announced, timers, barrier,
                 undo, saved, clientVars, historyVars>>

SpawnDone ==
  /\ pc = "spawn" /\ active = {}
  /\ pc' = "join"
  /\ UNCHANGED <<status, step, queued, next, active, handles, chase, taskVars,
                 sharedVars, clientVars, historyVars>>

-----------------------------------------------------------------------------
(* The node tasks.  A task holds its permit from acquire_owned to its end, *)
(* retries and their back-off included, and outlives the loop.             *)

Running == {n \in Node : task[n] = "running"}

Touch(n) == dirty' = dirty \cup {n}

\* What a step of a task leaves alone.
TaskFrame == UNCHANGED <<loopVars, announced, loopCount, barrier, log, undo, saved,
                         clientVars, frontier, emitted>>

\* Mutant of TaskStart: no permit is acquired.
TaskStartFree(n) ==
  /\ task[n] = "queued"
  /\ task' = [task EXCEPT ![n] = "running"]
  /\ runs' = [runs EXCEPT ![n] = @ + 1]
  /\ Touch(n)
  /\ UNCHANGED <<batch, left, attempt, produced, label, halt, timers, fellBack>>
  /\ TaskFrame

\* Mutant of TaskStart: a permit is kept until the handle is awaited.
TaskStartHoarding(n) ==
  /\ \A m \in Node : MaxParallel = 1 => task[m] \notin {"running", "ok", "err"}
  /\ TaskStartFree(n)

TaskStart(n) ==
  /\ task[n] = "queued"
  /\ MaxParallel > 0 => Cardinality(Running) < MaxParallel
  /\ task' = [task EXCEPT ![n] = "running"]
  /\ runs' = [runs EXCEPT ![n] = @ + 1]
  /\ Touch(n)
  /\ UNCHANGED <<batch, left, attempt, produced, label, halt, timers, fellBack>>
  /\ TaskFrame

\* ctx.request_halt() and request_halt_with_payload().
RequestHalt(n) ==
  /\ task[n] = "running" /\ n \in MayHalt
  /\ halt' = TRUE
  /\ Touch(n)
  /\ UNCHANGED <<runs, taskVars, timers, fellBack>>
  /\ TaskFrame

\* ctx.schedule_timer(): armed counts them, for the bound MaxArmed.
ScheduleTimer(n) ==
  /\ task[n] = "running" /\ n \in MayArm /\ armed < MaxArmed
  /\ timers' = [timers EXCEPT ![n] = @ + 1]
  /\ armed' = armed + 1
  /\ Touch(n)
  /\ UNCHANGED <<runs, taskVars, halt, fellBack, loopVars, announced, loopCount, barrier,
                 log, undo, saved, commands, attached, unanswered, sent, frontier,
                 emitted>>

\* Mutant of HandlerOk: the batch ends one call too late.
HandlerOkOnceMore(n) ==
  /\ task[n] = "running"
  /\ \E k \in 0..Emits[n] : produced' = [produced EXCEPT ![n] = @ + k]
  /\ left' = [left EXCEPT ![n] = @ - 1]
  /\ task' = IF left[n] = 0 THEN [task EXCEPT ![n] = "ok"] ELSE task
  /\ Touch(n)
  /\ UNCHANGED <<runs, batch, attempt, label, halt, timers, fellBack>>
  /\ TaskFrame

\* One handle() call returns: the messages it produced are kept (an Output or
\* None result keeps none) and the next message of the batch is taken.
HandlerOk(n) ==
  /\ task[n] = "running"
  /\ \E k \in 0..Emits[n] : produced' = [produced EXCEPT ![n] = @ + k]
  /\ left' = [left EXCEPT ![n] = @ - 1]
  /\ task' = IF left[n] = 1 THEN [task EXCEPT ![n] = "ok"] ELSE task
  /\ Touch(n)
  /\ UNCHANGED <<runs, batch, attempt, label, halt, timers, fellBack>>
  /\ TaskFrame

\* Mutant of HandlerRetry: what the failed attempt produced is kept.
HandlerRetryKeeps(n) ==
  /\ task[n] = "running" /\ n \in MayFail
  /\ attempt[n] < MaxRetries[n]
  /\ attempt' = [attempt EXCEPT ![n] = @ + 1]
  /\ left' = [left EXCEPT ![n] = batch[n]]
  /\ Touch(n)
  /\ UNCHANGED <<runs, task, batch, label, produced, halt, timers, fellBack>>
  /\ TaskFrame

\* One handle() call fails or times out.  A retry starts the whole batch again
\* with nothing produced; RetryCondition::Contains may refuse it.
HandlerRetry(n) ==
  /\ task[n] = "running" /\ n \in MayFail
  /\ attempt[n] < MaxRetries[n]
  /\ attempt' = [attempt EXCEPT ![n] = @ + 1]
  /\ left' = [left EXCEPT ![n] = batch[n]]
  /\ produced' = [produced EXCEPT ![n] = 0]
  /\ Touch(n)
  /\ UNCHANGED <<runs, task, batch, label, halt, timers, fellBack>>
  /\ TaskFrame

\* Out of retries: fail the task, skip the node, or hand the error text over as
\* a message whose source is the fallback node.
HandlerExhausted(n) ==
  /\ task[n] = "running" /\ n \in MayFail
  /\ left' = [left EXCEPT ![n] = 0]
  /\ \/ /\ OnExhausted[n] = "fail"
        /\ task' = [task EXCEPT ![n] = "err"]
        /\ produced' = [produced EXCEPT ![n] = 0]
        /\ UNCHANGED <<label, fellBack>>
     \/ /\ OnExhausted[n] = "skip"
        /\ task' = [task EXCEPT ![n] = "ok"]
        /\ produced' = [produced EXCEPT ![n] = 0]
        /\ UNCHANGED <<label, fellBack>>
     \/ /\ OnExhausted[n] \in Node
        /\ task' = [task EXCEPT ![n] = "ok"]
        /\ produced' = [produced EXCEPT ![n] = 1]
        /\ label' = [label EXCEPT ![n] = OnExhausted[n]]
        /\ fellBack' = fellBack \cup {OnExhausted[n]}
  /\ Touch(n)
  /\ UNCHANGED <<runs, batch, attempt, halt, timers>>
  /\ TaskFrame

\* A panic of the handler is not retried: the join handle yields a JoinError.
TaskPanic(n) ==
  /\ task[n] = "running" /\ n \in MayFail
  /\ task' = [task EXCEPT ![n] = "err"]
  /\ Touch(n)
  /\ UNCHANGED <<runs, batch, left, attempt, produced, label, halt, timers, fellBack>>
  /\ TaskFrame

TaskStep(n) ==
  \/ TaskStart(n) \/ RequestHalt(n) \/ ScheduleTimer(n)
  \/ HandlerOk(n) \/ HandlerRetry(n) \/ HandlerExhausted(n) \/ TaskPanic(n)

-----------------------------------------------------------------------------
(* Awaiting the tasks in spawn order and routing what they produced.       *)

Joined == Head(handles)
Source == label[Joined]

JoinReady == pc = "join" /\ handles # <<>>

\* Mutant of RouteMessage: the runners are not filtered by the source.
RouteAnywhere ==
  /\ JoinReady /\ task[Joined] = "ok" /\ produced[Joined] > 0 /\ chase = {}
  /\ produced' = [produced EXCEPT ![Joined] = @ - 1]
  /\ chase' = Edges \ FanIns
  /\ UNCHANGED <<pc, status, step, queued, next, active, handles, task, batch, left,
                 attempt, label, sharedVars, clientVars, historyVars>>

\* The next produced message is about to be shown to every runner of its source.
RouteMessage ==
  /\ JoinReady /\ task[Joined] = "ok" /\ produced[Joined] > 0 /\ chase = {}
  /\ produced' = [produced EXCEPT ![Joined] = @ - 1]
  /\ chase' = EdgesOf(Source)
  /\ emitted' = [e \in FanIns |-> IF Source \in e.from THEN emitted[e] \cup {Source}
                                                       ELSE emitted[e]]
  /\ UNCHANGED <<pc, status, step, queued, next, active, handles, task, batch, left,
                 attempt, label, sharedVars, clientVars, frontier, dirty, runs,
                 fellBack>>

\* Where a direct or fan-out runner may deliver: a guarded direct edge has a
\* condition, a guarded fan-out edge an assigner that names any targets.
Deliveries(e) ==
  IF ~e.guarded THEN {e.to}
  ELSE IF e.kind = "direct" THEN {{}, e.to}
  ELSE SUBSET Node

ChaseEdge(e) ==
  /\ JoinReady /\ e \in chase /\ e.kind # "fanin"
  /\ chase' = chase \ {e}
  /\ \E T \in Deliveries(e) : next' = Add(next, T)
  /\ UNCHANGED <<pc, status, step, queued, active, handles, taskVars, sharedVars,
                 clientVars, historyVars>>

\* WorkflowEngine::new creates one runner per entry of graph.edges(), which
\* lists a fan-in edge once under every source: the barrier that stores a
\* message is the one of the message's own source.
ChaseFanIn(e) ==
  /\ JoinReady /\ e \in chase /\ e.kind = "fanin"
  /\ chase' = chase \ {e}
  /\ LET stored == [from |-> barrier[Source][e].from \cup {Source},
                    count |-> barrier[Source][e].count + 1]
     IN \/ /\ e.from \subseteq stored.from
           /\ next' = [t \in Target |-> IF t \in e.to THEN next[t] + stored.count
                                                     ELSE next[t]]
           /\ barrier' = [barrier EXCEPT ![Source][e] = EmptyBarrier]
        \/ /\ ~(e.from \subseteq stored.from)
           /\ barrier' = [barrier EXCEPT ![Source][e] = stored]
           /\ UNCHANGED next
  /\ UNCHANGED <<pc, status, step, queued, active, handles, taskVars, halt, announced,
                 timers, loopCount, log, undo, saved, clientVars, historyVars>>

\* Mutant of JoinOk: a handle is dropped without being awaited.
JoinUnawaited ==
  /\ JoinReady /\ chase = {}
  /\ handles' = Tail(handles)
  /\ UNCHANGED <<pc, status, step, queued, next, active, chase, taskVars, sharedVars,
                 clientVars, historyVars>>

JoinOk ==
  /\ JoinReady /\ task[Joined] = "ok" /\ produced[Joined] = 0 /\ chase = {}
  /\ handles' = Tail(handles)
  /\ task' = [task EXCEPT ![Joined] = "none"]
  /\ UNCHANGED <<pc, status, step, queued, next, active, chase, batch, left, attempt,
                 produced, label, sharedVars, clientVars, historyVars>>

\* Mutant of JoinErr: only the nodes of the failed step are compensated.
JoinErrThisStep ==
  /\ JoinReady /\ task[Joined] = "err"
  /\ pc' = "undo" /\ undo' = handles
  /\ handles' = <<>>
  /\ UNCHANGED <<status, step, queued, next, active, chase, taskVars, halt, announced,
                 timers, loopCount, barrier, log, saved, clientVars, historyVars>>

\* The first failed handle ends the step; the handles behind it are dropped,
\* which detaches their tasks.
JoinErr ==
  /\ JoinReady /\ task[Joined] = "err"
  /\ pc' = "undo" /\ undo' = log
  /\ handles' = <<>>
  /\ UNCHANGED <<status, step, queued, next, active, chase, taskVars, halt, announced,
                 timers, loopCount, barrier, log, saved, clientVars, historyVars>>

\* run_compensations: one compensate() call per entry of the log, newest first.
Compensate ==
  /\ pc = "undo" /\ undo # <<>>
  /\ undo' = SubSeq(undo, 1, Len(undo) - 1)
  /\ dirty' = dirty \ {undo[Len(undo)]}
  /\ UNCHANGED <<loopVars, taskVars, halt, announced, timers, loopCount, barrier, log,
                 saved, clientVars, frontier, runs, emitted, fellBack>>

Fail ==
  /\ pc = "undo" /\ undo = <<>>
  /\ Terminate("failed")
  /\ UNCHANGED <<step, queued, next, active, handles, chase, taskVars, sharedVars,
                 clientVars, historyVars>>

\* Mutant of StepDone: the halt flag is reset with the other state of the step.
StepDoneClearsHalt ==
  /\ pc = "join" /\ handles = <<>>
  /\ SaveCheckpoint(next)
  /\ queued' = next /\ next' = None
  /\ step' = step + 1
  /\ pc' = "top" /\ halt' = FALSE
  /\ UNCHANGED <<status, active, handles, chase, taskVars, announced, timers,
                 loopCount, barrier, log, undo, clientVars, historyVars>>

StepDone ==
  /\ pc = "join" /\ handles = <<>>
  /\ SaveCheckpoint(next)
  /\ queued' = next /\ next' = None
  /\ step' = step + 1
  /\ pc' = "top"
  /\ UNCHANGED <<status, active, handles, chase, taskVars, halt, announced, timers,
                 loopCount, barrier, log, undo, clientVars, historyVars>>

\* tokio::time::timeout drops the loop's future; spawned tasks are detached.
TimeoutRun ==
  /\ GlobalTimeout /\ pc # "end"
  /\ Terminate("timeout")
  /\ UNCHANGED <<step, queued, next, active, handles, chase, taskVars, sharedVars,
                 clientVars, historyVars>>

-----------------------------------------------------------------------------
(* The client that holds the WorkflowRuntime.                              *)

\* WorkflowRuntime::resume never looks at the state of the run.
ClientResume ==
  /\ attached /\ sent < MaxCommands
  /\ PatientClient => unanswered > 0
  /\ \E cmd \in Command : commands' = Append(commands, cmd)
  /\ sent' = sent + 1
  /\ unanswered' = IF unanswered > 0 THEN unanswered - 1 ELSE 0
  /\ UNCHANGED <<loopVars, taskVars, sharedVars, attached, armed, historyVars>>

ClientDrop ==
  /\ attached
  /\ attached' = FALSE
  /\ UNCHANGED <<loopVars, taskVars, sharedVars, commands, unanswered, sent, armed,
                 historyVars>>

-----------------------------------------------------------------------------
LoopStep ==
  \/ AnnounceHalt \/ StopHalted \/ Resume \/ BeginStep
  \/ SkipUnknown \/ (\E n \in Node : SkipLoop(n) \/ Spawn(n)) \/ SpawnDone
  \/ RouteMessage \/ (\E e \in Edges : ChaseEdge(e) \/ ChaseFanIn(e))
  \/ JoinOk \/ JoinErr \/ Compensate \/ Fail \/ StepDone

Settled == \A n \in Node : task[n] \notin {"queued", "running"}

\* The run is over and nothing it started is still alive.
Done == pc = "end" /\ Settled /\ UNCHANGED vars

Next ==
  \/ LoopStep \/ TimeoutRun
  \/ \E n \in Node : TaskStep(n)
  \/ ClientResume \/ ClientDrop
  \/ Done

Spec == Init /\ [][Next]_vars

\* The tokio scheduler runs the loop and every task; a handler that is asked
\* to do something returns (HandlerOk is what ends a batch).
Fairness ==
  /\ WF_vars(LoopStep)
  /\ \A n \in Node : WF_vars(TaskStart(n)) /\ WF_vars(HandlerOk(n))

FairSpec == Spec /\ Fairness

-----------------------------------------------------------------------------
(* What must hold in every run.                                            *)

\* The loop is at its top, or a run has completed, only when no task of any
\* step is still alive: steps never overlap, and nothing acts after
\* WorkflowCompleted (execute_loop awaits every handle of a step).
LockStep ==
  /\ pc = "top" => \A n \in Node : task[n] = "none"
  /\ status = "completed" => Settled

\* While the run waits for a human the last checkpoint is of the step it waits
\* in, names every message that is queued and counts what every barrier holds
\* (unless the store refused), however often it was halted and resumed before.
\* The bodies of the messages and the timers are not in it.
HaltIsSaved ==
  announced /\ ~StoreMayFail =>
    saved.step = step /\ saved.pending.envelopes = queued /\ saved.stored = barrier

\* With a client that answers each WorkflowHalted once, every command is taken
\* by the halt it answers and never by a later one.
OneAnswerPerHalt ==
  PatientClient /\ pc # "end" =>
    unanswered + Len(commands) = (IF announced THEN 1 ELSE 0)

\* A retry starts over: what an attempt has produced comes from the messages it
\* has handled itself, never from those an earlier attempt handled before it
\* failed, so that no result is routed twice.
RetriesStartOver ==
  \A n \in Node : task[n] = "running" =>
    produced[n] <= Emits[n] * (batch[n] - left[n])

PermitsRespected == MaxParallel > 0 => Cardinality(Running) <= MaxParallel

TasksAwaited ==
  pc \in {"top", "spawn", "join"} =>
    \A n \in Node : task[n] # "none" => \E i \in 1..Len(handles) : handles[i] = n

\* Detached tasks and retry back-offs included, never more than max_parallel
\* handlers are at work, and no task is lost: one that is alive is awaited
\* unless the run has failed or was cut off.
TasksAccounted == PermitsRespected /\ TasksAwaited

\* A node with LoopOptions never runs more often than max_iterations, whatever
\* timers and injected messages re-activate it.
LoopBounded == \A n \in Node : LoopMax[n] > 0 => runs[n] <= LoopMax[n]

\* After WorkflowError for a failed node the effects of every earlier superstep
\* have been compensated: what is left, if anything, is of the failed step.
EarlierStepsUndone ==
  status = "failed" /\ Settled => \A n \in dirty : frontier[n] > 0

\* After WorkflowError for a failed node every handler effect has been
\* compensated once all tasks have come to rest (the Saga rollback).
RollbackComplete == status = "failed" /\ Settled => dirty = {}

\* A completed run has delivered every barrier all of whose sources produced.
JoinFires ==
  status = "completed" /\ ~halt =>
    \A e \in FanIns : emitted[e] = e.from => \A t \in e.to : runs[t] > 0

\* A completed run has run the fallback node of an exhausted FallbackNode.
FallbackRuns == status = "completed" /\ ~halt => \A f \in fellBack : runs[f] > 0

\* A run with bounded loops whose handlers never halt comes to its end.
Terminates == <>(pc = "end")

\* A halt request is never lost: whichever task of a step made it and whatever
\* the others do, the run announces it unless it fails or is cut off first.
HaltNoticed == halt ~> announced \/ status \in {"failed", "timeout"}

\* Where the messages of a step of n may go: over the edges of n, and over
\* those of its fallback node.
Sources(n) == {n} \cup ({OnExhausted[n]} \cap Node)
Sinks(e) == IF e.guarded /\ e.kind = "fanout" THEN Node ELSE e.to
Reach == {path \in Node \X Target :
            \E s \in Sources(path[1]) : \E e \in EdgesOf(s) : path[2] \in Sinks(e)}

\* The engine implements the atomic supersteps: while tasks run and messages
\* are routed, the mail is what the step started from.
BSP == INSTANCE Supersteps WITH
  over <- pc = "end",
  mail <- IF pc = "end" THEN None ELSE IF pc = "top" THEN queued ELSE frontier

ImplementsSupersteps == BSP!Spec
=============================================================================
