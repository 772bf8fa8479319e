---------------------------- MODULE MCWorkflows ----------------------------
(* The parts around the workflow engine, checked together: each behaviour is  *)
(* one of them, with bounds for which every action fires.                     *)
EXTENDS Naturals, Sequences

CONSTANTS
  StateKeys, StateValues, NoValue, NoEntry, NoFile, Torn,  \* of the checkpoints
  Interval, MaxCheckpoints,                                \* full snapshots and cleanups
  MaxId, MaxStep, MaxCrashes,                              \* their bounds: saves, supersteps, crashes
  EventCapacity, OutputCapacity, ResultCapacity,           \* the channels of a run
  MaxNodes, MaxOutputs, MayHalt,                           \* their bounds: nodes, outputs; halts
  Chats, Participants, MaxRounds, Order,                   \* of the group chats
  MaxPicks,                                                \* their bound: speakers selected
  NodeRuns, MaxCron,                                       \* of the nodes that wait
  MaxTraffic, MaxAsks,                                     \* their bounds: supersteps and waits
  Deadline, PoolSize, MaxEntries,                          \* of the services
  MaxSagaSteps, MaxClock, MaxOps                           \* their bounds: steps, time, messages

VARIABLES
  part,  \* the component of this behaviour
  v1, v2, v3, v4, v5, v6, v7, v8, v9, v10, v11, v12, v13, v14, v15, v16, v17, v18, v19,
  v20, v21  \* its variables

(* The order of the participants that cannot be followed as it is. *)
FixedOrder == <<1, 5>>

(* Conditions over the variables x and y, and what the state holds for them. *)
Token(kind, text) == [kind |-> kind, text |-> text]
Variable(k) == Token("var", <<k>>)
Literals ==
  {Token("number", <<"1">>), Token("number", <<"2">>), Token("word", <<"a">>), Token("word", <<"y">>),
   Token("quoted", <<"a">>), Token("truth", <<"true">>)}
Comparisons ==
  [left : {Variable("x")}, op : {"contains", "==", "!=", ">=", "<=", ">", "<"}, right : Literals \cup {Variable("y")}]
Further ==
  [left : {Variable("y")}, op : {"==", "<", ">="},
   right : Literals \ {Token("number", <<"1">>), Token("word", <<"y">>)}]
AllConditions ==
  {[kind |-> "token", parts |-> <<t>>] :
     t \in {Variable("x"), Token("word", <<"x">>), Token("word", <<"a">>), Token("truth", <<"true">>),
            Token("truth", <<"false">>)}}
  \cup {[kind |-> "call", parts |-> <<Token("word", <<"x">>)>>]}
  \cup {[kind |-> "compare", parts |-> <<p>>] : p \in Comparisons}
  \cup {[kind |-> "compare", parts |-> <<p, q>>] : p \in {p \in Comparisons : p.op # "contains"}, q \in Further}
Held(type, text) == [type |-> type, text |-> text]
Holdings ==
  {Held("int", <<"1">>), Held("int", <<"2">>), Held("str", <<"a">>), Held("str", <<"a", "b">>), Held("str", <<"1">>),
   Held("bool", <<"true">>), Held("bool", <<"false">>)}
VariableStates == UNION {[ks -> Holdings] : ks \in SUBSET {<<"x">>, <<"y">>}}

K == INSTANCE CheckpointStoreProofs WITH
  Concurrent <- TRUE, MayClear <- FALSE, MayFail <- FALSE, MaxRuns <- 1,
  Key <- StateKeys, Val <- StateValues, Absent <- NoValue, Missing <- NoEntry, files <- v1, index <- v2, tmp <- v3, counter <- v4,
  pc <- v5, copy <- v6, out <- v7, draft <- v8, draftId <- v9, todo <- v10, alive <- v11,
  state <- v12, step <- v13, halted <- v14, started <- v15, crashes <- v16, issued <- v17,
  acked <- v18, newest <- v19, left <- v20, unacked <- v21
(* The parts that are proved about, over the same variables. *)
W == INSTANCE WorkflowParts WITH
  engine <- v1, nodes <- v2, yielded <- v3, events <- v4, outputs <- v5,
  resumes <- v6, driver <- v7, reader <- v8, held <- v9, results <- v10, received <- v11,
  consumer <- v12, cancelled <- v13,
  selector <- v1, termination <- v2, counter <- v3, chat <- v4, history <- v5, speaker <- v6,
  spoke <- v7, turns <- v8,
  kind <- v1, careful <- v2,
  flag <- v3, ticks <- v4, at <- v5, inbox <- v6, seen <- v7, halting <- v8, pending <- v9,
  traffic <- v10, asked <- v11, let <- v12, detached <- v13,
  unit <- v1, clock <- v2, policy <- v3, undoable <- v4, stepAt <- v5, stepResults <- v6,
  completed <- v7, ran <- v8, undone <- v9, process <- v10, updates <- v11, tracked <- v12,
  told <- v13, pool <- v14, topic <- v15, receivers <- v16, trail <- v17, recorded <- v18
G == INSTANCE Orchestrations WITH
  MaxAgents <- 2, FreeNodes <- {<<"free", i>> : i \in 1..3}, MaxEdges <- 2, calls <- v1,
  graph <- v2, phase <- v3, inbox <- v4, runs <- v5, said <- v6
D == INSTANCE DeclWorkflow WITH
  MaxSteps <- 8, program <- v1, graph <- v2, pending <- v3, store <- v4, results <- v5,
  log <- v6
A == INSTANCE DeclAgents WITH
  MaxDepth <- 2, Questions <- {"q1", "q2"}, MaxRuns <- 2, decl <- v1, built <- v2, report <- v3,
  hist <- v4, pinned <- v5, runs <- v6, heard <- v7
V == INSTANCE DevPipeline WITH
  unit <- v1, queue <- v2, state <- v3, human <- v4, status <- v5, seen <- v6, review <- v7,
  judged <- v8
R == INSTANCE Scripts WITH
  Runs <- {"r1", "r2"}, ContextKeys <- {"input", "data"}, MaxScript <- 3,
  Conditions <- AllConditions, States <- VariableStates, unit <- v1, script <- v2, phase <- v3,
  toRead <- v4, kept <- v5, sink <- v6, heard <- v7, toWrite <- v8, wrote <- v9, condition <- v10,
  state <- v11, holds <- v12

(* What the checkpoints assume of their constants. *)
ASSUME CheckpointConstants ==
  /\ NoValue \notin StateValues
  /\ Interval \in Nat \ {0} /\ MaxCheckpoints \in Nat \ {0}
  /\ {MaxId, MaxStep, MaxCrashes} \subseteq Nat
  /\ NoEntry \notin K!Checkpoint /\ {Torn, NoFile} \cap Seq(K!Info) = {} /\ Torn # NoFile

(* What the other parts assume of theirs. *)
ASSUME PartConstants == W!O!RingHolds /\ W!C!ChatConstants /\ W!N!WaitConstants /\ W!P!ProConstants

(* The components use as many of the variables as they have; the others are 0. *)
Unused(n) ==
  /\ (n < 7 => v7 = 0) /\ (n < 8 => v8 = 0) /\ (n < 9 => v9 = 0) /\ (n < 10 => v10 = 0)
  /\ (n < 11 => v11 = 0) /\ (n < 12 => v12 = 0) /\ (n < 13 => v13 = 0) /\ (n < 14 => v14 = 0)
  /\ (n < 15 => v15 = 0) /\ (n < 16 => v16 = 0) /\ (n < 17 => v17 = 0) /\ (n < 18 => v18 = 0)
  /\ (n < 19 => v19 = 0) /\ (n < 20 => v20 = 0) /\ (n < 21 => v21 = 0)
Untouched(n) ==
  /\ (n < 7 => UNCHANGED v7) /\ (n < 8 => UNCHANGED v8) /\ (n < 9 => UNCHANGED v9)
  /\ (n < 10 => UNCHANGED v10) /\ (n < 11 => UNCHANGED v11) /\ (n < 12 => UNCHANGED v12)
  /\ (n < 13 => UNCHANGED v13) /\ (n < 14 => UNCHANGED v14) /\ (n < 15 => UNCHANGED v15)
  /\ (n < 16 => UNCHANGED v16) /\ (n < 17 => UNCHANGED v17) /\ (n < 18 => UNCHANGED v18)
  /\ (n < 19 => UNCHANGED v19) /\ (n < 20 => UNCHANGED v20) /\ (n < 21 => UNCHANGED v21)
vars == <<part, v1, v2, v3, v4, v5, v6, v7, v8, v9, v10, v11, v12, v13, v14, v15, v16, v17, v18, v19,
          v20, v21>>

Init ==
  \/ part = "overlap" /\ K!Init /\ Unused(21)
  \/ part = "outputs" /\ W!O!Init /\ Unused(13)
  \/ part = "graph" /\ G!Init /\ Unused(6)
  \/ part = "chat" /\ W!C!Init /\ Unused(8)
  \/ part = "node" /\ W!N!Init /\ Unused(13)
  \/ part = "actions" /\ D!Init /\ Unused(6)
  \/ part = "agents" /\ A!Init /\ Unused(7)
  \/ part = "phases" /\ V!Init /\ Unused(8)
  \/ part = "script" /\ R!Init /\ Unused(12)
  \/ part = "pro" /\ W!P!Init /\ Unused(18)

OverlapStep == part = "overlap" /\ K!Next /\ Untouched(21) /\ UNCHANGED part
OutputsStep == part = "outputs" /\ W!O!Next /\ Untouched(13) /\ UNCHANGED part
GraphStep == part = "graph" /\ G!Next /\ Untouched(6) /\ UNCHANGED part
ChatStep == part = "chat" /\ W!C!Next /\ Untouched(8) /\ UNCHANGED part
NodeStep == part = "node" /\ W!N!Next /\ Untouched(13) /\ UNCHANGED part
ActionsStep == part = "actions" /\ D!Next /\ Untouched(6) /\ UNCHANGED part
AgentsStep == part = "agents" /\ A!Next /\ Untouched(7) /\ UNCHANGED part
PhasesStep == part = "phases" /\ V!Next /\ Untouched(8) /\ UNCHANGED part
ScriptStep == part = "script" /\ R!Next /\ Untouched(12) /\ UNCHANGED part
ProStep == part = "pro" /\ W!P!Next /\ Untouched(18) /\ UNCHANGED part
Next ==
  \/ OverlapStep \/ OutputsStep \/ GraphStep \/ ChatStep \/ NodeStep \/ ActionsStep
  \/ AgentsStep \/ PhasesStep \/ ScriptStep \/ ProStep
Fairness ==
  /\ WF_vars(part = "outputs" /\ W!O!EngineStep /\ Untouched(13) /\ UNCHANGED part)
  /\ WF_vars(part = "outputs" /\ W!O!AgentStep /\ Untouched(13) /\ UNCHANGED part)
  /\ WF_vars(part = "outputs" /\ W!O!BridgeStep /\ Untouched(13) /\ UNCHANGED part)
  /\ WF_vars(part = "outputs" /\ W!O!ConsumerReads /\ Untouched(13) /\ UNCHANGED part)
Spec == Init /\ [][Next]_vars /\ Fairness

(* The latest checkpoint listed can be loaded, also when clean-ups that do not fail overlap commits. *)
LatestLoads == part = "overlap" => K!LatestLoads
(* WorkflowAgent's consumer learns everything that was yielded. *)
NothingLost == part = "outputs" => W!O!NothingLost
(* Whoever drains a run comes to its end. *)
RunEnds == <>(part = "outputs" => W!O!Ended \/ W!O!OutputsWait)
(* Built and compiled graphs are what was asked for, a run goes along their edges, and the *)
(* scripts and conditions on them keep to their run and mean what they say. *)
GraphsAsBuilt ==
  /\ (part = "graph" => G!GraphsAsBuilt)
  /\ (part = "actions" => D!DeclKept)
  /\ (part = "agents" => A!DeclaredAsBuilt)
  /\ (part = "phases" => V!PipelineKept)
  /\ (part = "script" => R!ScriptsKeepApart)
(* A group chat keeps to its selector, its termination and its coordinator. *)
ChatKeepsRules == part = "chat" => W!C!ChatKeepsRules
(* A node that waits lets nothing through but what it waited for. *)
NodesWait == part = "node" => W!N!NodesWait
(* Sagas, processes, deadlines, pools, topics and trails keep their rules. *)
ServicesKeepRules == part = "pro" => W!P!ServicesKeepRules
==============================================================================
