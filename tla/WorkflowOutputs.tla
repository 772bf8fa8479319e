---------------------------- MODULE WorkflowOutputs ----------------------------
(* The channels around a workflow run: the broadcast ring of events and the     *)
(* bounded channel of outputs that the engine fills (workflow/src/engine/       *)
(* engine.rs, spawn_run), and the two programs that drain them: WorkflowAgent,  *)
(* which forwards to a consumer through a third bounded channel                 *)
(* (workflow/src/workflow_agent.rs), and the ACP bridge, which reads events     *)
(* only and answers halts (host/src/bridge/workflow_bridge.rs).  The engine     *)
(* itself is WorkflowEngine; here it is the sequence of what it emits.          *)
EXTENDS Integers, SequencesExt

CONSTANTS
  EventCapacity,   \* slots of the broadcast ring
  OutputCapacity,  \* slots of the output channel
  ResultCapacity,  \* slots of the agent's result channel
  MaxNodes,        \* bound: nodes the workflow runs
  MaxOutputs,      \* bound: outputs it yields
  MayHalt          \* nodes may ask for a human

VARIABLES
  engine,     \* what the engine's task does
  nodes,      \* nodes begun
  yielded,    \* outputs sent so far; output i is <<"output", i>>
  events,     \* the events in the ring the reader has not taken
  outputs,    \* the output channel
  resumes,    \* commands in the resume channel
  driver,     \* who drains: "agent" or "bridge"
  reader,     \* what the driver's task does
  held,       \* results the agent still has to send for what it has read
  results,    \* the agent's result channel
  received,   \* outputs and errors its consumer has received
  consumer,   \* "reading" or "gone"
  cancelled   \* the bridge's cancel flag

vars == <<engine, nodes, yielded, events, outputs, resumes, driver, reader, held,
          results, received, consumer, cancelled>>
engineVars == <<engine, nodes, yielded>>
agentVars == <<held, results, received, consumer>>

Init ==
  /\ engine = "between" /\ nodes = 0 /\ yielded = 0
  /\ events = <<>> /\ outputs = <<>> /\ resumes = 0
  /\ driver \in {"agent", "bridge"} /\ reader = "events"
  /\ held = <<>> /\ results = <<>> /\ received = <<>>
  /\ consumer = "reading" /\ cancelled = FALSE

-----------------------------------------------------------------------------
(* The engine.                                                                 *)

\* A mutant that drops the newest event of a full ring instead of the oldest.
KeptOldest(ring) ==
  IF Len(ring) > EventCapacity THEN SubSeq(ring, 1, EventCapacity) ELSE ring

\* A broadcast send never waits: a full ring forgets its oldest event, and the
\* reader's stream skips over the gap.
Kept(ring) ==
  IF Len(ring) > EventCapacity
  THEN SubSeq(ring, Len(ring) - EventCapacity + 1, Len(ring))
  ELSE ring

Emit(e) == events' = Kept(events \o e)

EngineEnded == engine \in {"completed", "failed"}

\* The bridge never takes the output stream, and the agent takes it to the end;
\* the stream is dropped with the driver's task.
OutputsRead == reader # "done"

BeginNode ==
  /\ engine = "between" /\ nodes < MaxNodes
  /\ nodes' = nodes + 1
  /\ engine' = "working"
  /\ Emit(<<"invoking">>)
  /\ UNCHANGED <<yielded, outputs, resumes, driver, reader, agentVars, cancelled>>

\* The handler calls yield_output: it goes on only after the send.
StartYield ==
  /\ engine = "working" /\ yielded < MaxOutputs
  /\ engine' = "yielding"
  /\ UNCHANGED <<nodes, yielded, events, outputs, resumes, driver, reader, agentVars, cancelled>>

\* The send waits for a slot; a dropped receiver ends the wait.
YieldOutput ==
  /\ engine = "yielding"
  /\ engine' = "working"
  /\ OutputsRead => Len(outputs) < OutputCapacity
  /\ yielded' = yielded + 1
  /\ outputs' = IF OutputsRead THEN Append(outputs, <<"output", yielded + 1>>) ELSE outputs
  /\ UNCHANGED <<nodes, events, resumes, driver, reader, agentVars, cancelled>>

\* The handler returns, maybe with a request to halt.
EndNode ==
  /\ engine = "working"
  /\ \/ /\ engine' = "between"
        /\ Emit(<<"completed">>)
     \/ /\ MayHalt
        /\ engine' = "halted"
        /\ Emit(<<"completed", "halted">>)
     \/ /\ engine' = "failed"
        /\ Emit(<<"node_failed", "error">>)
  /\ UNCHANGED <<nodes, yielded, outputs, resumes, driver, reader, agentVars, cancelled>>

\* A halted run of the agent has no resume channel and completes at once; one of
\* the bridge waits for a command.
HaltedResumes ==
  /\ engine = "halted" /\ driver = "bridge" /\ resumes > 0
  /\ resumes' = resumes - 1
  /\ engine' = "between"
  /\ Emit(<<"resumed">>)
  /\ UNCHANGED <<nodes, yielded, outputs, driver, reader, agentVars, cancelled>>

Complete ==
  /\ \/ engine = "between"
     \/ engine = "halted" /\ driver = "agent"
  /\ engine' = "completed"
  /\ Emit(<<"workflow_completed">>)
  /\ UNCHANGED <<nodes, yielded, outputs, resumes, driver, reader, agentVars, cancelled>>

EngineStep == BeginNode \/ StartYield \/ YieldOutput \/ EndNode \/ HaltedResumes \/ Complete

-----------------------------------------------------------------------------
(* WorkflowAgent: the events to the end of the run, then the outputs.          *)

\* The frames of the result stream that are not outputs.
Progress == <<"progress">>
Failure == <<"failure">>
Final == <<"stop">>

\* What the agent forwards for an event, and whether it leaves the event loop.
Forward(e) ==
  CASE e \in {"invoking", "completed"} -> <<Progress>>
    [] e \in {"node_failed", "error"} -> <<Failure>>
    [] OTHER -> <<>>
Leaves(e) == e \in {"node_failed", "error", "workflow_completed"}

AgentReadsEvent ==
  /\ driver = "agent" /\ reader = "events" /\ held = <<>> /\ events # <<>>
  /\ held' = Forward(Head(events))
  /\ events' = Tail(events)
  /\ reader' = IF Leaves(Head(events)) THEN "outputs" ELSE reader
  /\ UNCHANGED <<engineVars, outputs, resumes, driver, results, received, consumer, cancelled>>

\* The event stream ends when the engine's task has dropped its last sender.
AgentEventsClosed ==
  /\ driver = "agent" /\ reader = "events" /\ held = <<>>
  /\ events = <<>> /\ EngineEnded
  /\ reader' = "outputs"
  /\ UNCHANGED <<engineVars, events, outputs, resumes, driver, agentVars, cancelled>>

AgentReadsOutput ==
  /\ driver = "agent" /\ reader = "outputs" /\ held = <<>> /\ outputs # <<>>
  /\ held' = <<Head(outputs)>>
  /\ outputs' = Tail(outputs)
  /\ UNCHANGED <<engineVars, events, resumes, driver, reader, results, received, consumer, cancelled>>

\* All outputs are read and their senders are gone: the last frame says Stop.
AgentOutputsClosed ==
  /\ driver = "agent" /\ reader = "outputs" /\ held = <<>>
  /\ outputs = <<>> /\ EngineEnded
  /\ held' = <<Final>>
  /\ reader' = "last"
  /\ UNCHANGED <<engineVars, events, outputs, resumes, driver, results, received, consumer, cancelled>>

\* A mutant: a frame that finds the result channel full is dropped.
AgentSendsOrDrops ==
  /\ held # <<>>
  /\ held' = Tail(held)
  /\ results' = IF consumer = "reading" /\ Len(results) < ResultCapacity
                THEN Append(results, Head(held)) ELSE results
  /\ UNCHANGED <<engineVars, events, outputs, resumes, driver, reader, received, consumer, cancelled>>

\* tx.send waits for a slot; the error of a consumer that is gone is ignored.
AgentSends ==
  /\ held # <<>>
  /\ consumer = "reading" => Len(results) < ResultCapacity
  /\ held' = Tail(held)
  /\ results' = IF consumer = "reading" THEN Append(results, Head(held)) ELSE results
  /\ UNCHANGED <<engineVars, events, outputs, resumes, driver, reader, received, consumer, cancelled>>

AgentEnds ==
  /\ reader = "last" /\ held = <<>>
  /\ reader' = "done"
  /\ UNCHANGED <<engineVars, events, outputs, resumes, driver, agentVars, cancelled>>

AgentStep ==
  \/ AgentReadsEvent \/ AgentEventsClosed \/ AgentReadsOutput
  \/ AgentOutputsClosed \/ AgentSends \/ AgentEnds

ConsumerReads ==
  /\ consumer = "reading" /\ results # <<>>
  /\ results' = Tail(results)
  /\ received' = IF Head(results) = Progress THEN received
                 ELSE Append(received, Head(results))
  /\ UNCHANGED <<engineVars, events, outputs, resumes, driver, reader, held, consumer, cancelled>>

ConsumerLeaves ==
  /\ driver = "agent" /\ consumer = "reading" /\ reader # "done"
  /\ consumer' = "gone" /\ results' = <<>>
  /\ UNCHANGED <<engineVars, events, outputs, resumes, driver, reader, held, received, cancelled>>

-----------------------------------------------------------------------------
(* The bridge of the host: run_workflow_to_completion.                         *)

BridgeCancelled ==
  /\ driver = "bridge" /\ reader = "events" /\ cancelled
  /\ reader' = "waiting"
  /\ UNCHANGED <<engineVars, events, outputs, resumes, driver, agentVars, cancelled>>

\* Halts are put to the client, other events are notified; the end leaves the
\* loop.  The flag was read before the event was awaited.
BridgeReadsEvent ==
  /\ driver = "bridge" /\ reader = "events" /\ events # <<>>
  /\ events' = Tail(events)
  /\ reader' = CASE Head(events) = "halted" -> "asking"
                 [] Head(events) \in {"error", "workflow_completed"} -> "waiting"
                 [] OTHER -> "events"
  /\ UNCHANGED <<engineVars, outputs, resumes, driver, agentVars, cancelled>>

BridgeEventsClosed ==
  /\ driver = "bridge" /\ reader = "events" /\ events = <<>> /\ EngineEnded
  /\ reader' = "waiting"
  /\ UNCHANGED <<engineVars, events, outputs, resumes, driver, agentVars, cancelled>>

\* The client's answer is injected into the run.
BridgeAnswers ==
  /\ reader = "asking"
  /\ resumes' = resumes + 1
  /\ reader' = "events"
  /\ UNCHANGED <<engineVars, events, outputs, driver, agentVars, cancelled>>

\* runtime.wait(): until the engine's task has sent its result.
BridgeDone ==
  /\ reader = "waiting" /\ EngineEnded
  /\ reader' = "done"
  /\ UNCHANGED <<engineVars, events, outputs, resumes, driver, agentVars, cancelled>>

BridgeStep ==
  \/ BridgeCancelled \/ BridgeReadsEvent \/ BridgeEventsClosed
  \/ BridgeAnswers \/ BridgeDone

CancelPrompt ==
  /\ driver = "bridge" /\ ~cancelled /\ reader # "done"
  /\ cancelled' = TRUE
  /\ UNCHANGED <<engineVars, events, outputs, resumes, driver, reader, agentVars>>

-----------------------------------------------------------------------------
\* A cancelled bridge waits for a run that waits for a human.
CancelledHalt == cancelled /\ reader = "waiting" /\ engine = "halted" /\ resumes = 0

\* A handler waits for a slot of the output channel, and who could free one
\* waits for an event or for the end of the run.
OutputsWait ==
  /\ engine = "yielding" /\ Len(outputs) = OutputCapacity
  /\ \/ reader = "waiting"
     \/ reader = "events" /\ events = <<>> /\ held = <<>>

Finished ==
  /\ \/ EngineEnded /\ reader = "done" /\ results = <<>>
     \/ CancelledHalt
     \/ OutputsWait
  /\ UNCHANGED vars

Next ==
  \/ EngineStep \/ AgentStep \/ ConsumerReads \/ ConsumerLeaves
  \/ BridgeStep \/ CancelPrompt \/ Finished

\* Spawned tasks are polled; a consumer that has not left reads on.
Fairness ==
  /\ WF_vars(EngineStep) /\ WF_vars(AgentStep) /\ WF_vars(BridgeStep)
  /\ WF_vars(ConsumerReads)

Spec == Init /\ [][Next]_vars /\ Fairness

-----------------------------------------------------------------------------
Ended == (EngineEnded /\ reader = "done") \/ CancelledHalt

\* A run comes to its end, the slow and the leaving consumer included, and so does
\* whoever drains it.  Two things stop it for good: a prompt cancelled while the
\* run waits for a human, and an output that finds its channel full while the
\* driver reads events (for a WorkflowAgent and for the bridge, which read no
\* output before the run is over, the first output the channel cannot hold).
RunEnds == <>(Ended \/ OutputsWait)

\* The consumer of a WorkflowAgent that stays learns everything: all outputs in
\* order, a failure before them, and Stop at the end, however many events the
\* ring has dropped.
NothingLost ==
  /\ driver = "agent" /\ reader = "done" /\ consumer = "reading" /\ results = <<>>
  => LET all == [i \in 1..yielded |-> <<"output", i>>] \o <<Final>>
     IN  received = IF engine = "failed" THEN <<Failure>> \o all ELSE all

-----------------------------------------------------------------------------
(* Why nothing is lost: the invariant of a run that an agent drains.           *)

\* The ring has a slot, for the newest event at least.
RingHolds == EventCapacity \in Nat \ {0}

Events == {"invoking", "completed", "halted", "node_failed", "error", "resumed", "workflow_completed"}
Outputs == {<<"output", i>> : i \in Nat}
Frames == {Progress, Failure, Final} \cup Outputs

OutputsType ==
  /\ engine \in {"between", "working", "yielding", "halted", "completed", "failed"}
  /\ driver \in {"agent", "bridge"} /\ consumer \in {"reading", "gone"}
  /\ yielded \in Nat /\ outputs \in Seq(Outputs) /\ events \in Seq(Events)
  /\ {results, held, received} \subseteq Seq(Frames) /\ Len(held) <= 1

\* The ring tells of an end only after it came, and of a failure for sure.
RingTells ==
  /\ \A i \in DOMAIN events :
       /\ events[i] \in {"node_failed", "error"} => engine = "failed"
       /\ events[i] = "workflow_completed" => engine = "completed"
  /\ engine = "failed" /\ reader = "events" => events # <<>> /\ events[Len(events)] = "error"

\* The agent goes through its two loops in order, and leaves each at its end.
LoopsInOrder ==
  /\ reader \in {"events", "outputs", "last", "done"}
  /\ reader # "events" => EngineEnded
  /\ reader = "events" => Len(outputs) = yielded
  /\ reader \in {"last", "done"} => outputs = <<>>
  /\ reader = "done" => held = <<>>

\* The output channel holds what was yielded last.
OutputsQueued ==
  /\ Len(outputs) <= yielded
  /\ \A i \in DOMAIN outputs : outputs[i] = <<"output", yielded - Len(outputs) + i>>

\* What the consumer is told besides progress: a failure, the outputs, the end.
Frame(i) ==
  LET j == IF engine = "failed" THEN i - 1 ELSE i
  IN  CASE j = 0 -> Failure
        [] j \in 1..yielded -> <<"output", j>>
        [] OTHER -> Final

\* How much of that the agent has come to, and what it has not delivered.
Told ==
  IF reader = "events" THEN 0
  ELSE (IF engine = "failed" THEN 1 ELSE 0) + yielded - Len(outputs)
         + (IF reader = "outputs" THEN 0 ELSE 1)
OnTheWay == results \o held
Progressing == Len(OnTheWay) - (Told - Len(received))

\* Progress comes before all else, and the rest in its order.
FramesInOrder ==
  /\ Len(received) <= Told /\ Progressing >= 0
  /\ Progressing > 0 => received = <<>>
  /\ \A i \in DOMAIN received : received[i] = Frame(i)
  /\ \A i \in DOMAIN OnTheWay :
       OnTheWay[i] = IF i <= Progressing THEN Progress ELSE Frame(Len(received) + i - Progressing)

OutputsInv ==
  /\ OutputsType
  /\ driver = "agent" =>
       /\ RingTells /\ LoopsInOrder /\ OutputsQueued
       /\ consumer = "reading" => FramesInOrder
===============================================================================
