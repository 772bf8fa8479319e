---------------------------- MODULE WorkflowParts ----------------------------
(***************************************************************************)
(* The parts around the workflow engine that are proved about, each with   *)
(* its variables and with the proof of its inductive invariant: the        *)
(* channels of a run, group chats, nodes that wait and the services.       *)
(***************************************************************************)
EXTENDS Integers, FiniteSetTheorems, SequenceTheorems, TLAPS

CONSTANTS
  EventCapacity, OutputCapacity, ResultCapacity,           \* the channels of a run
  MaxNodes, MaxOutputs, MayHalt,                           \* their bounds: nodes, outputs; halts
  Chats, Participants, MaxRounds, Order,                   \* of the group chats
  MaxPicks,                                                \* their bound: speakers selected
  NodeRuns, MaxCron,                                       \* of the nodes that wait
  MaxTraffic, MaxAsks,                                     \* their bounds: supersteps and waits
  Deadline, PoolSize, MaxEntries,                          \* of the services
  MaxSagaSteps, MaxClock, MaxOps                           \* their bounds: steps, time, messages

VARIABLES
  engine, nodes, yielded, events, outputs, resumes, driver, reader, held, results, received,
  consumer, cancelled,                                                   \* of the channels
  selector, termination, counter, chat, history, speaker, spoke, turns,  \* of the group chats
  kind, careful, flag, ticks, at, inbox, seen, halting, pending, traffic, asked, let,
  detached,                                                              \* of the nodes
  unit, clock, policy, undoable, stepAt, stepResults, completed, ran, undone, process, updates,
  tracked, told, pool, topic, receivers, trail, recorded                 \* of the services

-----------------------------------------------------------------------------
(* The channels of a run.                                                 *)

O == INSTANCE WorkflowOutputs

\* What is at the head of a queue, and what stays behind it.
LEMMA QueueFacts ==
  ASSUME NEW S, NEW s \in Seq(S), s # <<>>
  PROVE  /\ Len(s) \in Nat \ {0} /\ DOMAIN s = 1..Len(s)
         /\ Head(s) = s[1] /\ Head(s) \in S
         /\ Tail(s) \in Seq(S) /\ Len(Tail(s)) = Len(s) - 1 /\ DOMAIN Tail(s) = 1..Len(s) - 1
         /\ \A i \in 1..Len(s) - 1 : Tail(s)[i] = s[i + 1]
<1>1. Len(s) \in Nat \ {0} /\ DOMAIN s = 1..Len(s)
  BY EmptySeq, LenProperties
<1>2. Tail(s) \in Seq(S) /\ Len(Tail(s)) = Len(s) - 1 /\ \A i \in 1..Len(Tail(s)) : Tail(s)[i] = s[i + 1]
  BY HeadTailProperties
<1>3. DOMAIN Tail(s) = 1..Len(s) - 1
  BY <1>2, LenProperties
<1>4. Head(s) = s[1] /\ Head(s) \in S
  BY <1>1, HeadTailProperties
<1> QED
  BY <1>1, <1>2, <1>3, <1>4

\* The ring keeps the last events it is given.
LEMMA KeptFacts ==
  ASSUME O!RingHolds, NEW ring \in Seq(O!Events), ring # <<>>
  PROVE  /\ O!Kept(ring) \in Seq(O!Events) /\ O!Kept(ring) # <<>>
         /\ \A i \in DOMAIN O!Kept(ring) : \E j \in DOMAIN ring : O!Kept(ring)[i] = ring[j]
         /\ O!Kept(ring)[Len(O!Kept(ring))] = ring[Len(ring)]
<1> DEFINE n == Len(ring)
           m == n - EventCapacity + 1
<1>1. n \in Nat \ {0} /\ DOMAIN ring = 1..n /\ EventCapacity \in Nat \ {0}
  BY QueueFacts DEF O!RingHolds
<1>2. CASE ~(n > EventCapacity)
  BY <1>1, <1>2 DEF O!Kept
<1>3. CASE n > EventCapacity
  <2>1. m \in 1..n /\ m \in Int /\ n \in Int /\ n - m + 1 = EventCapacity
    BY <1>1, <1>3
  <2>2. \A i \in m..n : i \in 1..n /\ ring[i] \in O!Events
    BY <1>1, <2>1, ElementOfSeq
  <2>3. O!Kept(ring) = SubSeq(ring, m, n)
    BY <1>3 DEF O!Kept
  <2> HIDE DEF m, n
  <2>4. /\ O!Kept(ring) \in Seq(O!Events) /\ Len(O!Kept(ring)) = EventCapacity
        /\ \A i \in 1..EventCapacity : O!Kept(ring)[i] = ring[m + i - 1]
    BY <2>1, <2>2, <2>3, SubSeqProperties
  <2>5. O!Kept(ring) # <<>> /\ DOMAIN O!Kept(ring) = 1..EventCapacity
    BY <1>1, <2>4, LenProperties, EmptySeq
  <2>6. \A i \in 1..EventCapacity : m + i - 1 \in 1..n /\ m + EventCapacity - 1 = n
    BY <1>1, <2>1
  <2>7. EventCapacity \in 1..EventCapacity
    BY <1>1
  <2> QED
    BY <1>1, <2>4, <2>5, <2>6, <2>7 DEF n
<1> QED
  BY <1>2, <1>3

\* What the ring holds after a send was in it or is sent, the last of it sent last.
LEMMA EmitFacts ==
  ASSUME O!RingHolds, events \in Seq(O!Events), NEW e \in Seq(O!Events), e # <<>>, O!Emit(e)
  PROVE  /\ events' \in Seq(O!Events) /\ events' # <<>>
         /\ \A i \in DOMAIN events' : \/ \E j \in DOMAIN events : events'[i] = events[j]
                                      \/ \E j \in DOMAIN e : events'[i] = e[j]
         /\ events'[Len(events')] = e[Len(e)]
<1> DEFINE ring == events \o e
<1>1. /\ Len(events) \in Nat /\ DOMAIN events = 1..Len(events)
      /\ Len(e) \in Nat \ {0} /\ DOMAIN e = 1..Len(e)
  BY LenProperties, QueueFacts
<1>2. /\ ring \in Seq(O!Events) /\ Len(ring) = Len(events) + Len(e)
      /\ \A i \in 1..Len(events) + Len(e) :
           ring[i] = IF i <= Len(events) THEN events[i] ELSE e[i - Len(events)]
  BY ConcatProperties
<1> HIDE DEF ring
<1>3. ring # <<>> /\ DOMAIN ring = 1..Len(events) + Len(e)
  BY <1>1, <1>2, LenProperties, EmptySeq
<1>4. \A i \in DOMAIN ring : \/ \E j \in DOMAIN events : ring[i] = events[j]
                             \/ \E j \in DOMAIN e : ring[i] = e[j]
  <2> TAKE i \in DOMAIN ring
  <2>1. CASE i <= Len(events)
    BY <1>1, <1>2, <1>3, <2>1
  <2>2. CASE ~(i <= Len(events))
    <3>1. i - Len(events) \in 1..Len(e)
      BY <1>1, <1>3, <2>2
    <3> QED
      BY <1>1, <1>2, <1>3, <2>2, <3>1
  <2> QED
    BY <2>1, <2>2
<1>5. ring[Len(ring)] = e[Len(e)]
  BY <1>1, <1>2
<1>6. events' = O!Kept(ring)
  BY DEF O!Emit, ring
<1>7. /\ events' \in Seq(O!Events) /\ events' # <<>>
      /\ \A i \in DOMAIN events' : \E j \in DOMAIN ring : events'[i] = ring[j]
      /\ events'[Len(events')] = ring[Len(ring)]
  BY <1>2, <1>3, <1>6, KeptFacts
<1> QED
  BY <1>4, <1>5, <1>7, SMTT(30)

\* What the frames are, and that progress is told from all others.
LEMMA FrameFacts ==
  /\ O!Progress \in O!Frames /\ O!Failure \in O!Frames /\ O!Final \in O!Frames
  /\ \A j \in Nat : <<"output", j>> \in O!Frames /\ <<"output", j>> \in O!Outputs /\ <<"output", j>> # O!Progress
  /\ O!Failure # O!Progress /\ O!Final # O!Progress
<1>1. \A j : <<"output", j>> # <<"progress">>
  OBVIOUS
<1>2. O!Failure # O!Progress /\ O!Final # O!Progress
  BY DEF O!Failure, O!Final, O!Progress
<1>3. O!Progress \in O!Frames /\ O!Failure \in O!Frames /\ O!Final \in O!Frames
  BY DEF O!Frames
<1>4. \A j \in Nat : <<"output", j>> \in O!Outputs
  BY Zenon DEF O!Outputs
<1> QED
  BY <1>1, <1>2, <1>3, <1>4 DEF O!Progress, O!Frames

\* A read of the ring changes its place and what the readers hold, nothing else.
LEMMA ForwardType ==
  ASSUME NEW e
  PROVE  O!Forward(e) \in Seq(O!Frames) /\ Len(O!Forward(e)) <= 1
<1>1. O!Forward(e) \in {<<O!Progress>>, <<O!Failure>>, <<>>}
  BY DEF O!Forward
<1>2. /\ <<O!Progress>> \in Seq(O!Frames) /\ <<O!Failure>> \in Seq(O!Frames) /\ <<>> \in Seq(O!Frames)
      /\ Len(<<O!Progress>>) = 1 /\ Len(<<O!Failure>>) = 1 /\ Len(<<>>) = 0
  BY FrameFacts
<1>3. O!Forward(e) = <<O!Progress>> \/ O!Forward(e) = <<O!Failure>> \/ O!Forward(e) = <<>>
  BY DEF O!Forward
<1>4. CASE O!Forward(e) = <<O!Progress>>
  BY <1>2, <1>4
<1>5. CASE O!Forward(e) = <<O!Failure>>
  BY <1>2, <1>5
<1>6. CASE O!Forward(e) = <<>>
  BY <1>2, <1>6
<1> QED
  BY <1>3, <1>4, <1>5, <1>6

\* What the engine sends at once.
LEMMA SentFacts ==
  /\ <<"invoking">> \in Seq(O!Events) /\ <<"invoking">> # <<>>
  /\ <<"completed">> \in Seq(O!Events) /\ <<"completed">> # <<>>
  /\ <<"completed", "halted">> \in Seq(O!Events) /\ <<"completed", "halted">> # <<>>
  /\ <<"node_failed", "error">> \in Seq(O!Events) /\ <<"node_failed", "error">> # <<>>
  /\ <<"resumed">> \in Seq(O!Events) /\ <<"resumed">> # <<>>
  /\ <<"workflow_completed">> \in Seq(O!Events) /\ <<"workflow_completed">> # <<>>
<1>1. <<"invoking">> \in Seq(O!Events) /\ <<"invoking">> # <<>>
  BY DEF O!Events
<1>2. <<"completed">> \in Seq(O!Events) /\ <<"completed">> # <<>>
  BY DEF O!Events
<1>3. <<"completed", "halted">> \in Seq(O!Events) /\ <<"completed", "halted">> # <<>>
  BY DEF O!Events
<1>4. <<"node_failed", "error">> \in Seq(O!Events) /\ <<"node_failed", "error">> # <<>>
  BY DEF O!Events
<1>5. <<"resumed">> \in Seq(O!Events) /\ <<"resumed">> # <<>>
  BY DEF O!Events
<1>6. <<"workflow_completed">> \in Seq(O!Events) /\ <<"workflow_completed">> # <<>>
  BY DEF O!Events
<1> QED
  BY <1>1, <1>2, <1>3, <1>4, <1>5, <1>6

\* Types.
LEMMA OutputsTypeInit == O!Init => O!OutputsType
<1> SUFFICES ASSUME O!Init PROVE O!OutputsType
  OBVIOUS
<1>1. <<>> \in Seq(O!Outputs) /\ <<>> \in Seq(O!Events) /\ <<>> \in Seq(O!Frames) /\ Len(<<>>) = 0
  OBVIOUS
<1> QED
  BY <1>1 DEF O!Init, O!OutputsType

LEMMA OutputsTypeStep == O!RingHolds /\ O!OutputsType /\ [O!Next]_(O!vars) => O!OutputsType'
<1> SUFFICES ASSUME O!RingHolds, O!OutputsType, [O!Next]_(O!vars) PROVE O!OutputsType'
  OBVIOUS
<1> USE DEF O!engineVars, O!agentVars
<1>1. \/ O!Emit(<<"invoking">>) \/ O!Emit(<<"completed">>) \/ O!Emit(<<"completed", "halted">>)
      \/ O!Emit(<<"node_failed", "error">>) \/ O!Emit(<<"resumed">>) \/ O!Emit(<<"workflow_completed">>)
      => events' \in Seq(O!Events)
  BY SentFacts, EmitFacts DEF O!OutputsType
<1>2. CASE O!BeginNode
  BY <1>1, <1>2 DEF O!BeginNode, O!OutputsType
<1>3. CASE O!YieldOutput
  <2>1. yielded + 1 \in Nat /\ <<"output", yielded + 1>> \in O!Outputs
    BY FrameFacts DEF O!OutputsType
  <2>2. outputs' \in Seq(O!Outputs)
    BY <1>3, <2>1, AppendProperties DEF O!YieldOutput, O!OutputsType
  <2> QED
    BY <1>3, <2>1, <2>2 DEF O!YieldOutput, O!OutputsType
<1>18. CASE O!StartYield
  BY <1>18 DEF O!StartYield, O!OutputsType
<1>4. CASE O!EndNode
  BY <1>1, <1>4 DEF O!EndNode, O!OutputsType
<1>5. CASE O!HaltedResumes
  BY <1>1, <1>5 DEF O!HaltedResumes, O!OutputsType
<1>6. CASE O!Complete
  BY <1>1, <1>6 DEF O!Complete, O!OutputsType
<1>7. CASE O!AgentReadsEvent
  BY <1>7, ForwardType, QueueFacts DEF O!AgentReadsEvent, O!OutputsType
<1>8. CASE O!AgentEventsClosed
  BY <1>8 DEF O!AgentEventsClosed, O!OutputsType
<1>9. CASE O!AgentReadsOutput
  <2>1. Head(outputs) \in O!Frames /\ outputs' \in Seq(O!Outputs)
    BY <1>9, QueueFacts DEF O!AgentReadsOutput, O!OutputsType, O!Frames
  <2>2. <<Head(outputs)>> \in Seq(O!Frames) /\ Len(<<Head(outputs)>>) = 1
    BY <2>1
  <2> QED
    BY <1>9, <2>1, <2>2 DEF O!AgentReadsOutput, O!OutputsType
<1>10. CASE O!AgentOutputsClosed
  <2>1. <<O!Final>> \in Seq(O!Frames) /\ Len(<<O!Final>>) = 1
    BY FrameFacts
  <2> QED
    BY <1>10, <2>1 DEF O!AgentOutputsClosed, O!OutputsType
<1>11. CASE O!AgentSends
  <2>1. Head(held) \in O!Frames /\ Tail(held) \in Seq(O!Frames) /\ Len(Tail(held)) = Len(held) - 1
           /\ Len(held) \in Nat
    BY <1>11, QueueFacts DEF O!AgentSends, O!OutputsType
  <2>2. results' \in Seq(O!Frames)
    BY <1>11, <2>1, AppendProperties DEF O!AgentSends, O!OutputsType
  <2> QED
    BY <1>11, <2>1, <2>2 DEF O!AgentSends, O!OutputsType
<1>12. CASE O!AgentEnds
  BY <1>12 DEF O!AgentEnds, O!OutputsType
<1>13. CASE O!ConsumerReads
  <2>1. Head(results) \in O!Frames /\ Tail(results) \in Seq(O!Frames)
    BY <1>13, QueueFacts DEF O!ConsumerReads, O!OutputsType
  <2>2. received' \in Seq(O!Frames)
    BY <1>13, <2>1, AppendProperties DEF O!ConsumerReads, O!OutputsType
  <2> QED
    BY <1>13, <2>1, <2>2 DEF O!ConsumerReads, O!OutputsType
<1>14. CASE O!ConsumerLeaves
  <2>1. <<>> \in Seq(O!Frames)
    OBVIOUS
  <2> QED
    BY <1>14, <2>1 DEF O!ConsumerLeaves, O!OutputsType
<1>15. CASE O!BridgeCancelled \/ O!BridgeEventsClosed \/ O!BridgeAnswers \/ O!BridgeDone \/ O!CancelPrompt
  BY <1>15 DEF O!BridgeCancelled, O!BridgeEventsClosed, O!BridgeAnswers, O!BridgeDone, O!CancelPrompt, O!OutputsType
<1>16. CASE O!BridgeReadsEvent
  BY <1>16, QueueFacts DEF O!BridgeReadsEvent, O!OutputsType
<1>17. CASE O!Finished \/ UNCHANGED O!vars
  BY <1>17 DEF O!Finished, O!vars, O!OutputsType
<1> QED
  BY <1>2, <1>3, <1>4, <1>5, <1>6, <1>7, <1>8, <1>9, <1>10, <1>11, <1>12, <1>13, <1>14, <1>15, <1>16, <1>17,
     <1>18
     DEF O!Next, O!EngineStep, O!AgentStep, O!BridgeStep

\* What an agent's run keeps to.
AgentInv == O!RingTells /\ O!LoopsInOrder /\ O!OutputsQueued

\* While an agent drains a run, the engine works only as long as events are read.
LEMMA AgentSteps ==
  ASSUME driver = "agent", O!LoopsInOrder, [O!Next]_(O!vars)
  PROVE  /\ driver' = "agent"
         /\ \/ reader = "events" /\ (O!BeginNode \/ O!StartYield \/ O!YieldOutput \/ O!EndNode \/ O!Complete)
            \/ O!AgentReadsEvent \/ O!AgentEventsClosed \/ O!AgentReadsOutput \/ O!AgentOutputsClosed
            \/ O!AgentSends \/ O!AgentEnds \/ O!ConsumerReads \/ O!ConsumerLeaves
            \/ UNCHANGED O!vars
<1>1. CASE O!EngineStep
  <2>1. ~O!EngineEnded
    BY <1>1 DEF O!EngineStep, O!EngineEnded, O!BeginNode, O!StartYield, O!YieldOutput, O!EndNode, O!HaltedResumes, O!Complete
  <2>2. reader = "events"
    BY <2>1 DEF O!LoopsInOrder
  <2> QED
    BY <1>1, <2>2 DEF O!EngineStep, O!BeginNode, O!StartYield, O!YieldOutput, O!EndNode, O!HaltedResumes, O!Complete
<1>2. CASE O!AgentStep \/ O!ConsumerReads \/ O!ConsumerLeaves
  BY <1>2 DEF O!AgentStep, O!AgentReadsEvent, O!AgentEventsClosed, O!AgentReadsOutput, O!AgentOutputsClosed,
      O!AgentSends, O!AgentEnds, O!ConsumerReads, O!ConsumerLeaves
<1>3. ~O!BridgeStep /\ ~O!CancelPrompt
  BY DEF O!BridgeStep, O!BridgeCancelled, O!BridgeReadsEvent, O!BridgeEventsClosed, O!BridgeAnswers, O!BridgeDone,
      O!CancelPrompt, O!LoopsInOrder
<1>4. CASE O!Finished \/ UNCHANGED O!vars
  BY <1>4 DEF O!Finished, O!vars
<1> QED
  BY <1>1, <1>2, <1>3, <1>4 DEF O!Next

\* The ring still tells how the run ended.
LEMMA RingStep ==
  O!RingHolds /\ O!OutputsType /\ driver = "agent" /\ AgentInv /\ [O!Next]_(O!vars) => O!RingTells'
<1> SUFFICES ASSUME O!RingHolds, O!OutputsType, driver = "agent", AgentInv, [O!Next]_(O!vars)
             PROVE  O!RingTells'
  OBVIOUS
<1> USE DEF O!engineVars, O!agentVars, AgentInv
<1>1. events \in Seq(O!Events) /\ O!RingTells
  BY DEF O!OutputsType
<1>2. ASSUME NEW e \in Seq(O!Events), e # <<>>, O!Emit(e), engine \in {"between", "working", "yielding", "halted"},
             \A j \in DOMAIN e : /\ e[j] \in {"node_failed", "error"} => engine' = "failed"
                                 /\ e[j] = "workflow_completed" => engine' = "completed",
             engine' = "failed" => e[Len(e)] = "error"
      PROVE  O!RingTells'
  <2>1. \A i \in DOMAIN events : events[i] \notin {"node_failed", "error", "workflow_completed"}
    BY <1>1, <1>2 DEF O!RingTells
  <2>2. /\ events' # <<>> /\ events'[Len(events')] = e[Len(e)]
        /\ \A i \in DOMAIN events' : \/ \E j \in DOMAIN events : events'[i] = events[j]
                                     \/ \E j \in DOMAIN e : events'[i] = e[j]
    BY <1>1, <1>2, EmitFacts
  <2>3. \A i \in DOMAIN events' : /\ events'[i] \in {"node_failed", "error"} => engine' = "failed"
                                  /\ events'[i] = "workflow_completed" => engine' = "completed"
    <3> TAKE i \in DOMAIN events'
    <3>1. CASE \E j \in DOMAIN events : events'[i] = events[j]
      <4>1. events'[i] \notin {"node_failed", "error", "workflow_completed"}
        BY <2>1, <3>1
      <4> QED
        BY <4>1
    <3>2. CASE \E j \in DOMAIN e : events'[i] = e[j]
      <4>1. PICK j \in DOMAIN e : events'[i] = e[j]
        BY <3>2
      <4>2. /\ e[j] \in {"node_failed", "error"} => engine' = "failed"
            /\ e[j] = "workflow_completed" => engine' = "completed"
        BY <1>2
      <4> QED
        BY <4>1, <4>2
    <3> QED
      BY <2>2, <3>1, <3>2
  <2>4. engine' = "failed" => events' # <<>> /\ events'[Len(events')] = "error"
    BY <1>2, <2>2
  <2> QED
    BY <2>3, <2>4 DEF O!RingTells
<1>3. CASE O!BeginNode
  <2>1. DOMAIN <<"invoking">> = {1} /\ <<"invoking">>[1] = "invoking"
    OBVIOUS
  <2> QED
    BY <1>2, <1>3, <2>1, SentFacts DEF O!BeginNode
<1>4. CASE O!StartYield \/ O!YieldOutput
  BY <1>1, <1>4 DEF O!StartYield, O!YieldOutput, O!RingTells
<1>5. CASE O!EndNode
  <2>1. DOMAIN <<"completed">> = {1} /\ <<"completed">>[1] = "completed"
    OBVIOUS
  <2>2. /\ DOMAIN <<"completed", "halted">> = {1, 2} /\ <<"completed", "halted">>[1] = "completed"
        /\ <<"completed", "halted">>[2] = "halted"
    OBVIOUS
  <2>3. /\ DOMAIN <<"node_failed", "error">> = {1, 2} /\ Len(<<"node_failed", "error">>) = 2
        /\ <<"node_failed", "error">>[2] = "error"
    OBVIOUS
  <2>4. engine = "working"
    BY <1>5 DEF O!EndNode
  <2>5. CASE engine' = "between" /\ O!Emit(<<"completed">>)
    BY <1>2, <2>1, <2>4, <2>5, SentFacts
  <2>6. CASE engine' = "halted" /\ O!Emit(<<"completed", "halted">>)
    BY <1>2, <2>2, <2>4, <2>6, SentFacts
  <2>7. CASE engine' = "failed" /\ O!Emit(<<"node_failed", "error">>)
    <3>1. <<"node_failed", "error">>[1] = "node_failed"
      OBVIOUS
    <3> QED
      BY <1>2, <2>3, <2>4, <2>7, <3>1, SentFacts
  <2> QED
    BY <1>5, <2>5, <2>6, <2>7 DEF O!EndNode
<1>6. CASE O!Complete
  <2>1. DOMAIN <<"workflow_completed">> = {1} /\ <<"workflow_completed">>[1] = "workflow_completed"
    OBVIOUS
  <2> QED
    BY <1>2, <1>6, <2>1, SentFacts DEF O!Complete
<1>7. CASE O!AgentReadsEvent
  <2>1. /\ Len(events) \in Nat \ {0} /\ DOMAIN events = 1..Len(events) /\ Head(events) = events[1]
        /\ Len(events') = Len(events) - 1 /\ DOMAIN events' = 1..Len(events) - 1
        /\ \A i \in 1..Len(events) - 1 : events'[i] = events[i + 1]
    BY <1>1, <1>7, QueueFacts DEF O!AgentReadsEvent
  <2>2. engine' = engine
    BY <1>7 DEF O!AgentReadsEvent
  <2>3. \A i \in DOMAIN events' : i + 1 \in DOMAIN events /\ events'[i] = events[i + 1]
    BY <2>1
  <2>4. ASSUME engine' = "failed", reader' = "events"
        PROVE  events' # <<>> /\ events'[Len(events')] = "error"
    <3>1. reader = "events" /\ Head(events) # "error"
      BY <1>7, <2>4 DEF O!AgentReadsEvent, O!Leaves
    <3>2. events[Len(events)] = "error"
      BY <1>1, <2>2, <2>4, <3>1 DEF O!RingTells
    <3>3. Len(events) # 1
      BY <2>1, <3>1, <3>2
    <3> QED
      BY <2>1, <3>2, <3>3
  <2> QED
    BY <1>1, <2>2, <2>3, <2>4 DEF O!RingTells
<1>8. CASE O!AgentEventsClosed \/ O!AgentReadsOutput \/ O!AgentOutputsClosed \/ O!AgentSends \/ O!AgentEnds
           \/ O!ConsumerReads \/ O!ConsumerLeaves \/ UNCHANGED O!vars
  BY <1>1, <1>8 DEF O!AgentEventsClosed, O!AgentReadsOutput, O!AgentOutputsClosed, O!AgentSends, O!AgentEnds,
      O!ConsumerReads, O!ConsumerLeaves, O!vars, O!RingTells
<1> QED
  BY <1>3, <1>4, <1>5, <1>6, <1>7, <1>8, AgentSteps

\* The driver and the bridge come to their end in order.
LEMMA LoopsStep ==
  O!OutputsType /\ driver = "agent" /\ AgentInv /\ [O!Next]_(O!vars) => O!LoopsInOrder'
<1> SUFFICES ASSUME O!OutputsType, driver = "agent", AgentInv, [O!Next]_(O!vars)
             PROVE  O!LoopsInOrder'
  OBVIOUS
<1> USE DEF O!engineVars, O!agentVars, AgentInv, O!LoopsInOrder, O!EngineEnded
<1>1. outputs \in Seq(O!Outputs) /\ yielded \in Nat
  BY DEF O!OutputsType
<1>2. CASE reader = "events" /\ (O!BeginNode \/ O!StartYield \/ O!EndNode \/ O!Complete)
  BY <1>2 DEF O!BeginNode, O!StartYield, O!EndNode, O!Complete
<1>3. CASE reader = "events" /\ O!YieldOutput
  <2>1. <<"output", yielded + 1>> \in O!Outputs
    BY <1>1, FrameFacts
  <2>2. Len(outputs') = Len(outputs) + 1
    BY <1>1, <1>3, <2>1, AppendProperties DEF O!YieldOutput, O!OutputsRead
  <2> QED
    BY <1>1, <1>3, <2>2 DEF O!YieldOutput
<1>4. CASE O!AgentReadsEvent
  <2>1. Head(events) \in {"node_failed", "error", "workflow_completed"} => O!EngineEnded
    BY <1>4, QueueFacts DEF O!AgentReadsEvent, O!RingTells, O!OutputsType
  <2> QED
    BY <1>4, <2>1 DEF O!AgentReadsEvent, O!Leaves
<1>5. CASE O!AgentEventsClosed \/ O!AgentOutputsClosed
  BY <1>5 DEF O!AgentEventsClosed, O!AgentOutputsClosed
<1>6. CASE O!AgentReadsOutput
  BY <1>6 DEF O!AgentReadsOutput
<1>7. CASE O!AgentSends
  BY <1>7 DEF O!AgentSends
<1>8. CASE O!AgentEnds \/ O!ConsumerReads \/ O!ConsumerLeaves \/ UNCHANGED O!vars
  BY <1>8 DEF O!AgentEnds, O!ConsumerReads, O!ConsumerLeaves, O!vars
<1> QED
  BY <1>2, <1>3, <1>4, <1>5, <1>6, <1>7, <1>8, AgentSteps

\* Outputs reach the agent in the order they were yielded.
LEMMA QueuedStep ==
  O!OutputsType /\ driver = "agent" /\ AgentInv /\ [O!Next]_(O!vars) => O!OutputsQueued'
<1> SUFFICES ASSUME O!OutputsType, driver = "agent", AgentInv, [O!Next]_(O!vars)
             PROVE  O!OutputsQueued'
  OBVIOUS
<1> USE DEF O!engineVars, O!agentVars, AgentInv
<1>1. /\ outputs \in Seq(O!Outputs) /\ yielded \in Nat /\ Len(outputs) \in Nat
      /\ DOMAIN outputs = 1..Len(outputs)
  BY LenProperties DEF O!OutputsType
<1>2. CASE reader = "events" /\ O!YieldOutput
  <2>1. <<"output", yielded + 1>> \in O!Outputs
    BY <1>1, FrameFacts
  <2>2. /\ outputs' \in Seq(O!Outputs) /\ Len(outputs') = Len(outputs) + 1
        /\ \A i \in 1..Len(outputs) : outputs'[i] = outputs[i]
        /\ outputs'[Len(outputs) + 1] = <<"output", yielded + 1>>
    BY <1>1, <1>2, <2>1, AppendProperties DEF O!YieldOutput, O!OutputsRead
  <2>3. yielded' = yielded + 1 /\ DOMAIN outputs' = 1..Len(outputs) + 1
    BY <1>2, <2>2, LenProperties DEF O!YieldOutput
  <2>4. yielded' - Len(outputs') = yielded - Len(outputs) /\ Len(outputs') <= yielded'
    BY <1>1, <2>2, <2>3 DEF O!OutputsQueued
  <2>5. \A i \in 1..Len(outputs) + 1 : outputs'[i] = <<"output", yielded - Len(outputs) + i>>
    <3> TAKE i \in 1..Len(outputs) + 1
    <3>1. CASE i \in 1..Len(outputs)
      BY <1>1, <2>2, <3>1 DEF O!OutputsQueued
    <3>2. CASE i = Len(outputs) + 1
      <4>1. yielded - Len(outputs) + i = yielded + 1
        BY <1>1, <3>2
      <4> QED
        BY <2>2, <3>2, <4>1
    <3> QED
      BY <1>1, <3>1, <3>2
  <2> QED
    BY <2>3, <2>4, <2>5 DEF O!OutputsQueued
<1>3. CASE O!AgentReadsOutput
  <2>1. /\ Len(outputs) \in Nat \ {0} /\ DOMAIN outputs' = 1..Len(outputs) - 1
        /\ Len(outputs') = Len(outputs) - 1
        /\ \A i \in 1..Len(outputs) - 1 : outputs'[i] = outputs[i + 1]
    BY <1>1, <1>3, QueueFacts DEF O!AgentReadsOutput
  <2>2. yielded' = yielded
    BY <1>3 DEF O!AgentReadsOutput
  <2>3. \A i \in 1..Len(outputs) - 1 :
          i + 1 \in 1..Len(outputs) /\ yielded - Len(outputs) + (i + 1) = yielded - (Len(outputs) - 1) + i
    BY <1>1, <2>1
  <2>4. \A i \in 1..Len(outputs) - 1 : outputs'[i] = <<"output", yielded - (Len(outputs) - 1) + i>>
    BY <1>1, <2>1, <2>3 DEF O!OutputsQueued
  <2>5. yielded' - Len(outputs') = yielded - (Len(outputs) - 1) /\ Len(outputs') <= yielded'
    BY <1>1, <2>1, <2>2 DEF O!OutputsQueued
  <2> QED
    BY <2>1, <2>4, <2>5 DEF O!OutputsQueued
<1>4. CASE UNCHANGED <<outputs, yielded>>
  BY <1>4 DEF O!OutputsQueued
<1> QED
  BY <1>2, <1>3, <1>4, AgentSteps DEF O!BeginNode, O!StartYield, O!EndNode, O!Complete, O!AgentReadsEvent, O!AgentEventsClosed,
      O!AgentOutputsClosed, O!AgentSends, O!AgentEnds, O!ConsumerReads, O!ConsumerLeaves, O!vars

\* What is on the way to the consumer.
LEMMA WayFacts ==
  ASSUME O!OutputsType
  PROVE  /\ O!OnTheWay \in Seq(O!Frames) /\ Len(O!OnTheWay) = Len(results) + Len(held)
         /\ Len(results) \in Nat /\ Len(held) \in Nat /\ Len(received) \in Nat
         /\ DOMAIN O!OnTheWay = 1..Len(O!OnTheWay) /\ DOMAIN received = 1..Len(received)
         /\ \A i \in 1..Len(O!OnTheWay) :
              O!OnTheWay[i] = IF i <= Len(results) THEN results[i] ELSE held[i - Len(results)]
<1>1. results \in Seq(O!Frames) /\ held \in Seq(O!Frames) /\ received \in Seq(O!Frames)
  BY DEF O!OutputsType
<1>2. /\ O!OnTheWay \in Seq(O!Frames) /\ Len(O!OnTheWay) = Len(results) + Len(held)
      /\ \A i \in 1..Len(results) + Len(held) :
           O!OnTheWay[i] = IF i <= Len(results) THEN results[i] ELSE held[i - Len(results)]
  BY <1>1, ConcatProperties DEF O!OnTheWay
<1> QED
  BY <1>1, <1>2, LenProperties

LEMMA ToldType ==
  ASSUME O!OutputsType
  PROVE  O!Told \in Int /\ O!Progressing \in Int
<1>1. Len(outputs) \in Nat /\ yielded \in Nat
  BY LenProperties DEF O!OutputsType
<1>2. O!Told \in Int
  BY <1>1 DEF O!Told
<1> QED
  BY <1>2, WayFacts DEF O!Progressing

\* Nothing moves, and what was told of means the same.
LEMMA FramesStay ==
  ASSUME O!OutputsType, O!OutputsType', O!FramesInOrder, received' = received, O!OnTheWay' = O!OnTheWay,
     O!Told' = O!Told,
         \A k \in 1..O!Told : O!Frame(k)' = O!Frame(k)
  PROVE  O!FramesInOrder'
<1> DEFINE n == Len(O!OnTheWay)
           r == Len(received)
           p == O!Progressing
<1>1. n \in Nat /\ r \in Nat /\ O!Told \in Int /\ p = n - (O!Told - r) /\ DOMAIN O!OnTheWay = 1..n
  BY WayFacts, ToldType DEF O!Progressing
<1>2. p \in Int /\ p >= 0 /\ r <= O!Told /\ (p > 0 => received = <<>>) /\ p' = p /\ r' = r
  BY <1>1 DEF O!FramesInOrder, O!Progressing
<1> HIDE DEF n, r, p
<1>3. \A i \in 1..r : received[i] = O!Frame(i)'
  BY <1>1, <1>2, WayFacts DEF O!FramesInOrder, r
<1>4. \A i \in 1..n : O!OnTheWay[i] = IF i <= p THEN O!Progress ELSE O!Frame(r + i - p)'
  <2> TAKE i \in 1..n
  <2>1. O!OnTheWay[i] = IF i <= p THEN O!Progress ELSE O!Frame(r + i - p)
    BY <1>1 DEF O!FramesInOrder, r, p
  <2>2. ~(i <= p) => r + i - p \in 1..O!Told
    BY <1>1, <1>2
  <2>3. ~(i <= p) => O!Frame(r + i - p) = O!Frame(r + i - p)'
    BY <1>2, <2>2
  <2> QED
    BY <1>2, <2>1, <2>3
<1> QED
  BY <1>1, <1>2, <1>3, <1>4, WayFacts DEF O!FramesInOrder, r, p

\* A frame more is on its way: progress as long as nothing else is told, or the next.
LEMMA FramePushed ==
  ASSUME O!OutputsType, O!OutputsType', O!FramesInOrder, NEW f,
         held = <<>>, held' = <<f>>, results' = results, received' = received,
         \A k \in 1..O!Told : O!Frame(k)' = O!Frame(k),
         \/ f = O!Progress /\ O!Told = 0 /\ O!Told' = 0
         \/ O!Told' = O!Told + 1 /\ \A k : k = O!Told + 1 => f = O!Frame(k)'
  PROVE  O!FramesInOrder'
<1> DEFINE n == Len(O!OnTheWay)
           r == Len(received)
           p == O!Progressing
<1>1. n \in Nat /\ r \in Nat /\ O!Told \in Int /\ p = n - (O!Told - r) /\ DOMAIN O!OnTheWay = 1..n
  BY WayFacts, ToldType DEF O!Progressing
<1>2. p \in Int /\ p >= 0 /\ r <= O!Told /\ (p > 0 => received = <<>>)
  BY <1>1 DEF O!FramesInOrder
<1>3. /\ Len(O!OnTheWay') = n + 1 /\ DOMAIN O!OnTheWay' = 1..n + 1
      /\ \A i \in 1..n : O!OnTheWay'[i] = O!OnTheWay[i]
      /\ O!OnTheWay'[n + 1] = f
  <2>1. Len(held) = 0 /\ Len(held') = 1 /\ held'[1] = f
    OBVIOUS
  <2>2. n = Len(results)
    BY <2>1, WayFacts
  <2>3. /\ Len(O!OnTheWay') = Len(results') + Len(held') /\ DOMAIN O!OnTheWay' = 1..Len(O!OnTheWay')
        /\ \A i \in 1..Len(O!OnTheWay') :
             O!OnTheWay'[i] = IF i <= Len(results') THEN results'[i] ELSE held'[i - Len(results')]
    <3>1. results' \in Seq(O!Frames) /\ held' \in Seq(O!Frames) /\ O!OnTheWay' = results' \o held'
      BY DEF O!OutputsType, O!OnTheWay
    <3> HIDE DEF n, r, p
    <3> QED
      BY <3>1, ConcatProperties, LenProperties
  <2>4. \A i \in 1..n : O!OnTheWay[i] = results[i] /\ i \in 1..n + 1 /\ i <= n
    BY <1>1, <2>2, WayFacts
  <2>5. n + 1 \in 1..n + 1 /\ ~(n + 1 <= n) /\ n + 1 - n = 1
    BY <1>1
  <2>6. Len(results') = n /\ Len(O!OnTheWay') = n + 1
    BY <2>1, <2>2, <2>3
  <2> HIDE DEF n
  <2>7. \A i \in 1..n : O!OnTheWay'[i] = results[i]
    BY <2>3, <2>4, <2>6
  <2>8. O!OnTheWay'[n + 1] = held'[1]
    BY <2>3, <2>5, <2>6
  <2> QED
    BY <2>1, <2>3, <2>4, <2>6, <2>7, <2>8
<1>4. r' = r /\ DOMAIN received = 1..r
  BY WayFacts
<1>5. p' = n + 1 - (O!Told' - r)
  <2>1. p' = Len(O!OnTheWay') - (O!Told' - r')
    BY DEF O!Progressing
  <2>2. Len(O!OnTheWay') = n + 1
    BY <1>3
  <2>3. r' = r /\ O!Told' \in Int
    BY <1>1, <1>4
  <2> HIDE DEF n, r, p
  <2> QED
    BY <1>1, <2>1, <2>2, <2>3
<1>6. \A i \in 1..r : received[i] = O!Frame(i)'
  BY <1>1, <1>2, <1>4 DEF O!FramesInOrder
<1>7. \A i \in 1..n : O!OnTheWay[i] = IF i <= p THEN O!Progress ELSE O!Frame(r + i - p)
  BY <1>1 DEF O!FramesInOrder
<1> HIDE DEF n, r, p
<1>8. CASE f = O!Progress /\ O!Told = 0 /\ O!Told' = 0
  <2>1. r = 0 /\ p = n /\ p' = n + 1
    BY <1>1, <1>2, <1>5, <1>8
  <2>2. received = <<>>
    BY <2>1, EmptySeq DEF r, O!OutputsType
  <2>3. \A i \in 1..n + 1 : O!OnTheWay'[i] = O!Progress /\ i <= p'
    BY <1>1, <1>3, <1>7, <1>8, <2>1
  <2> QED
    BY <1>1, <1>3, <1>4, <1>6, <1>8, <2>1, <2>2, <2>3 DEF O!FramesInOrder, r, p
<1>9. CASE O!Told' = O!Told + 1 /\ \A k : k = O!Told + 1 => f = O!Frame(k)'
  <2>1. p' = p
    BY <1>1, <1>5, <1>9
  <2>2. \A i \in 1..n + 1 : O!OnTheWay'[i] = IF i <= p' THEN O!Progress ELSE O!Frame(r + i - p)'
    <3> TAKE i \in 1..n + 1
    <3>1. CASE i \in 1..n /\ i <= p
      BY <1>3, <1>7, <2>1, <3>1
    <3>2. CASE i \in 1..n /\ ~(i <= p)
      <4>1. r + i - p \in 1..O!Told
        BY <1>1, <1>2, <3>2
      <4>2. O!Frame(r + i - p) = O!Frame(r + i - p)'
        BY <1>4, <2>1, <4>1
      <4> QED
        BY <1>3, <1>7, <2>1, <3>2, <4>2
    <3>3. CASE i = n + 1
      <4>1. ~(i <= p') /\ r + i - p = O!Told + 1
        BY <1>1, <1>2, <2>1, <3>3
      <4>2. f = O!Frame(r + i - p)'
        BY <1>4, <1>9, <2>1, <4>1
      <4> QED
        BY <1>3, <3>3, <4>1, <4>2
    <3> QED
      BY <1>1, <3>1, <3>2, <3>3
  <2>3. r <= O!Told' /\ p' >= 0 /\ (p' > 0 => received' = <<>>)
    BY <1>1, <1>2, <1>9, <2>1
  <2> QED
    BY <1>1, <1>3, <1>4, <1>6, <2>1, <2>2, <2>3 DEF O!FramesInOrder, r, p
<1> QED
  BY <1>8, <1>9

\* The consumer takes a frame: progress, or the next of the others.
LEMMA FrameRead ==
  ASSUME O!OutputsType, O!OutputsType', O!FramesInOrder, O!ConsumerReads
  PROVE  O!FramesInOrder'
<1> USE DEF O!engineVars
<1> DEFINE n == Len(O!OnTheWay)
           r == Len(received)
           p == O!Progressing
<1>1. n \in Nat /\ r \in Nat /\ O!Told \in Int /\ p = n - (O!Told - r) /\ DOMAIN O!OnTheWay = 1..n
  BY WayFacts, ToldType DEF O!Progressing
<1>2. p \in Int /\ p >= 0 /\ r <= O!Told /\ (p > 0 => received = <<>>)
  BY <1>1 DEF O!FramesInOrder
<1>3. O!Told' = O!Told /\ \A k : O!Frame(k)' = O!Frame(k)
  BY DEF O!ConsumerReads, O!Told, O!Frame
<1>4. \A k : O!Frame(k) # O!Progress
  <2> TAKE k
  <2>1. yielded \in Nat
    BY DEF O!OutputsType
  <2>2. O!Frame(k) \in {O!Failure, O!Final} \/ \E j \in 1..yielded : O!Frame(k) = <<"output", j>>
    BY DEF O!Frame
  <2> QED
    BY <2>1, <2>2, FrameFacts
<1>5. /\ n >= 1 /\ O!OnTheWay[1] = Head(results)
      /\ Len(O!OnTheWay') = n - 1 /\ DOMAIN O!OnTheWay' = 1..n - 1
      /\ \A i \in 1..n - 1 : O!OnTheWay'[i] = O!OnTheWay[i + 1]
  <2> DEFINE m == Len(results)
  <2>1. /\ results \in Seq(O!Frames) /\ results # <<>> /\ held \in Seq(O!Frames)
        /\ results' = Tail(results) /\ held' = held
    BY DEF O!ConsumerReads, O!OutputsType
  <2>2. /\ m \in Nat \ {0} /\ Head(results) = results[1]
        /\ results' \in Seq(O!Frames) /\ Len(results') = m - 1
        /\ \A i \in 1..m - 1 : results'[i] = results[i + 1]
    BY <2>1, QueueFacts
  <2>3. /\ n = m + Len(held) /\ Len(held) \in Nat
        /\ \A i \in 1..n : O!OnTheWay[i] = IF i <= m THEN results[i] ELSE held[i - m]
    BY WayFacts
  <2>4. O!OnTheWay' \in Seq(O!Frames) /\ Len(O!OnTheWay') = m - 1 + Len(held)
        /\ \A i \in 1..m - 1 + Len(held) :
             O!OnTheWay'[i] = IF i <= m - 1 THEN results'[i] ELSE held[i - (m - 1)]
    <3>1. O!OnTheWay' = results' \o held
      BY <2>1 DEF O!OnTheWay
    <3>2. /\ O!OnTheWay' \in Seq(O!Frames) /\ Len(O!OnTheWay') = Len(results') + Len(held)
          /\ \A i \in 1..Len(results') + Len(held) :
               O!OnTheWay'[i] = IF i <= Len(results') THEN results'[i] ELSE held[i - Len(results')]
      BY <2>1, <2>2, <3>1, ConcatProperties
    <3> HIDE DEF n, m
    <3> QED
      BY <2>2, <3>2
  <2> HIDE DEF n, m
  <2>5. Len(O!OnTheWay') = n - 1 /\ DOMAIN O!OnTheWay' = 1..n - 1 /\ n >= 1 /\ O!OnTheWay[1] = Head(results)
    BY <2>2, <2>3, <2>4, LenProperties
  <2>6. \A i \in 1..n - 1 : O!OnTheWay'[i] = O!OnTheWay[i + 1]
    <3> TAKE i \in 1..n - 1
    <3>1. /\ i \in 1..m - 1 + Len(held) /\ i + 1 \in 1..n
          /\ i <= m - 1 <=> i + 1 <= m
          /\ i - (m - 1) = i + 1 - m
          /\ i <= m - 1 => i \in 1..m - 1
      BY <2>2, <2>3
    <3>2. CASE i <= m - 1
      BY <2>2, <2>3, <2>4, <3>1, <3>2
    <3>3. CASE ~(i <= m - 1)
      BY <2>2, <2>3, <2>4, <3>1, <3>3
    <3> QED
      BY <3>2, <3>3
  <2> QED
    BY <2>5, <2>6
<1>6. \A i \in 1..n : O!OnTheWay[i] = IF i <= p THEN O!Progress ELSE O!Frame(r + i - p)
  BY <1>1 DEF O!FramesInOrder
<1>7. /\ received \in Seq(O!Frames) /\ DOMAIN received = 1..r /\ \A i \in 1..r : received[i] = O!Frame(i)
      /\ Head(results) \in O!Frames
  <2>1. Head(results) \in O!Frames
    BY QueueFacts DEF O!ConsumerReads, O!OutputsType
  <2> QED
    BY <2>1, WayFacts DEF O!FramesInOrder, O!OutputsType
<1>8. p' = n - 1 - (O!Told - Len(received'))
  <2>1. p' = Len(O!OnTheWay') - (O!Told' - Len(received'))
    BY DEF O!Progressing
  <2>2. Len(O!OnTheWay') = n - 1
    BY <1>5
  <2>3. Len(received') \in Nat
    BY LenProperties DEF O!OutputsType
  <2> HIDE DEF n, r, p
  <2> QED
    BY <1>1, <1>3, <2>1, <2>2, <2>3
<1> HIDE DEF n, r, p
<1>9. CASE p > 0
  <2>1. Head(results) = O!Progress
    BY <1>1, <1>2, <1>5, <1>6, <1>9
  <2>2. received' = received /\ received = <<>> /\ r' = r
    BY <1>2, <1>9, <2>1 DEF O!ConsumerReads, r
  <2>3. p' = p - 1
    BY <1>1, <1>2, <1>8, <2>2 DEF r
  <2>4. \A i \in 1..n - 1 : O!OnTheWay'[i] = IF i <= p' THEN O!Progress ELSE O!Frame(r + i - p)'
    <3> TAKE i \in 1..n - 1
    <3>1. i + 1 \in 1..n /\ (i <= p' <=> i + 1 <= p) /\ r + (i + 1) - p = r' + i - p'
      BY <1>1, <1>2, <2>2, <2>3
    <3>2. O!OnTheWay'[i] = IF i <= p' THEN O!Progress ELSE O!Frame(r + (i + 1) - p)
      BY <1>5, <1>6, <3>1
    <3> QED
      BY <1>3, <3>1, <3>2
  <2>5. r' <= O!Told' /\ p' >= 0
    BY <1>2, <1>3, <1>9, <2>2, <2>3
  <2>6. \A i \in 1..r : received'[i] = O!Frame(i)'
    BY <1>3, <1>7, <2>2
  <2> QED
    BY <1>5, <1>7, <2>2, <2>4, <2>5, <2>6 DEF O!FramesInOrder, r, p
<1>10. CASE p = 0
  <2>1. Head(results) = O!Frame(r + 1) /\ Head(results) # O!Progress
    <3>1. 1 \in 1..n /\ ~(1 <= p) /\ r + 1 - p = r + 1
      BY <1>1, <1>5, <1>10
    <3> QED
      BY <1>4, <1>5, <1>6, <3>1
  <2>2. received' = Append(received, O!Frame(r + 1))
    BY <2>1 DEF O!ConsumerReads
  <2>3. /\ Len(received') = r + 1 /\ DOMAIN received' = 1..r + 1
        /\ \A i \in 1..r : received'[i] = received[i]
        /\ received'[r + 1] = O!Frame(r + 1)
    BY <1>7, <2>1, <2>2, AppendProperties, LenProperties DEF r
  <2>4. r' = r + 1 /\ p' = 0 /\ O!Told - r = n
    <3>1. r' = r + 1
      BY <2>3 DEF r
    <3>2. p' = n - 1 - (O!Told - (r + 1)) /\ O!Told - r = n
      BY <1>1, <1>8, <1>10, <2>3
    <3> QED
      BY <1>1, <3>1, <3>2
  <2>5. \A i \in 1..n - 1 : O!OnTheWay'[i] = IF i <= p' THEN O!Progress ELSE O!Frame(r + i - p)'
    <3> TAKE i \in 1..n - 1
    <3>1. i + 1 \in 1..n /\ ~(i <= p') /\ ~(i + 1 <= p) /\ r + (i + 1) - p = r' + i - p'
      BY <1>1, <1>10, <2>4
    <3>2. O!OnTheWay'[i] = O!Frame(r + (i + 1) - p)
      BY <1>5, <1>6, <3>1
    <3> QED
      BY <1>3, <3>1, <3>2
  <2>6. r' <= O!Told' /\ p' >= 0 /\ ~(p' > 0)
    BY <1>1, <1>3, <1>5, <2>4
  <2>7. \A i \in 1..r + 1 : received'[i] = O!Frame(i)'
    <3> TAKE i \in 1..r + 1
    <3>1. i \in 1..r \/ i = r + 1
      BY <1>1
    <3> QED
      BY <1>3, <1>7, <2>3, <3>1
  <2>8. DOMAIN O!OnTheWay' = 1..n - 1 /\ DOMAIN received' = 1..r + 1
    BY <1>5, <2>3
  <2> QED
    BY <2>5, <2>6, <2>7, <2>8 DEF O!FramesInOrder, r, p
<1> QED
  BY <1>2, <1>9, <1>10

\* Each output is on its way once, from the frame that holds it to the consumer.
LEMMA FramesStep ==
  O!OutputsType /\ O!OutputsType' /\ driver = "agent" /\ AgentInv /\ O!FramesInOrder /\ [O!Next]_(O!vars)
    => (consumer' = "reading" => O!FramesInOrder')
<1> SUFFICES ASSUME O!OutputsType, O!OutputsType', driver = "agent", AgentInv, O!FramesInOrder, [O!Next]_(O!vars),
                    consumer' = "reading"
             PROVE  O!FramesInOrder'
  OBVIOUS
<1> USE DEF O!engineVars, O!agentVars, AgentInv
<1>1. Len(outputs) \in Nat /\ yielded \in Nat
  BY LenProperties DEF O!OutputsType
<1>2. reader = "events" => O!Told = 0
  BY DEF O!Told
<1>3. CASE reader = "events" /\ (O!BeginNode \/ O!StartYield \/ O!YieldOutput \/ O!EndNode \/ O!Complete)
  <2>1. reader' = "events" /\ UNCHANGED <<received, results, held>>
    BY <1>3 DEF O!BeginNode, O!StartYield, O!YieldOutput, O!EndNode, O!Complete
  <2>2. O!Told' = O!Told /\ O!Told = 0 /\ O!OnTheWay' = O!OnTheWay
    BY <1>2, <1>3, <2>1 DEF O!Told, O!OnTheWay
  <2>3. \A k \in 1..O!Told : O!Frame(k)' = O!Frame(k)
    BY <2>2
  <2> QED
    BY <2>1, <2>2, <2>3, FramesStay
<1>4. CASE O!AgentReadsEvent
  <2>1. /\ reader = "events" /\ held = <<>> /\ UNCHANGED <<received, results, engine, yielded, outputs>>
        /\ held' = O!Forward(Head(events)) /\ reader' = IF O!Leaves(Head(events)) THEN "outputs" ELSE reader
    BY <1>4 DEF O!AgentReadsEvent
  <2>2. \A k : O!Frame(k)' = O!Frame(k)
    BY <2>1 DEF O!Frame
  <2>3. CASE Head(events) \in {"invoking", "completed"}
    <3>1. held' = <<O!Progress>> /\ O!Told = 0 /\ O!Told' = 0
      BY <2>1, <2>3 DEF O!Forward, O!Leaves, O!Told
    <3> QED
      BY <2>1, <2>2, <3>1, FramePushed
  <2>4. CASE Head(events) \in {"node_failed", "error"}
    <3>1. engine = "failed"
      BY <1>4, <2>4, QueueFacts DEF O!AgentReadsEvent, O!RingTells, O!OutputsType
    <3>2. held' = <<O!Failure>> /\ O!Told = 0 /\ O!Told' = 1
      <4>1. held' = <<O!Failure>> /\ reader' = "outputs" /\ O!Told = 0
        BY <1>2, <2>1, <2>4 DEF O!Forward, O!Leaves
      <4>2. Len(outputs) = yielded
        BY <2>1 DEF O!LoopsInOrder
      <4>3. O!Told' = 1 + yielded - Len(outputs) + 0
        BY <2>1, <3>1, <4>1 DEF O!Told
      <4> QED
        BY <1>1, <4>1, <4>2, <4>3
    <3>3. \A k : k = O!Told + 1 => O!Failure = O!Frame(k)'
      BY <2>1, <3>1, <3>2 DEF O!Frame
    <3> QED
      BY <2>1, <2>2, <3>2, <3>3, FramePushed
  <2>5. CASE Head(events) \notin {"invoking", "completed", "node_failed", "error"}
    <3>1. held' = <<>>
      BY <2>1, <2>5 DEF O!Forward
    <3>2. Head(events) = "workflow_completed" => engine = "completed" /\ Len(outputs) = yielded
      BY <1>4, <2>1, QueueFacts DEF O!AgentReadsEvent, O!RingTells, O!OutputsType, O!LoopsInOrder
    <3>3. O!Told = 0 /\ O!Told' = 0
      BY <1>1, <1>2, <2>1, <2>5, <3>2 DEF O!Told, O!Leaves
    <3> QED
      BY <2>1, <2>2, <3>1, <3>3, FramesStay DEF O!OnTheWay
  <2> QED
    BY <2>3, <2>4, <2>5
<1>5. CASE O!AgentEventsClosed
  <2>1. engine # "failed" /\ Len(outputs) = yielded
    BY <1>5 DEF O!AgentEventsClosed, O!RingTells, O!LoopsInOrder
  <2>2. /\ UNCHANGED <<received, results, held, engine, yielded, outputs>>
        /\ reader = "events" /\ reader' = "outputs"
    BY <1>5 DEF O!AgentEventsClosed
  <2>3. O!Told = 0 /\ O!Told' = 0 /\ O!OnTheWay' = O!OnTheWay
    BY <1>1, <2>1, <2>2 DEF O!Told, O!OnTheWay
  <2>4. \A k : O!Frame(k)' = O!Frame(k)
    BY <2>2 DEF O!Frame
  <2> QED
    BY <2>2, <2>3, <2>4, FramesStay
<1>6. CASE O!AgentReadsOutput
  <2>1. /\ UNCHANGED <<received, results, engine, yielded, reader>> /\ reader = "outputs" /\ held = <<>>
        /\ outputs # <<>> /\ outputs' = Tail(outputs) /\ held' = <<Head(outputs)>>
    BY <1>6 DEF O!AgentReadsOutput
  <2>2. /\ Len(outputs) \in Nat \ {0} /\ Len(outputs') = Len(outputs) - 1
        /\ Head(outputs) = outputs[1] /\ 1 \in DOMAIN outputs
    BY <2>1, QueueFacts DEF O!OutputsType
  <2>3. Head(outputs) = <<"output", yielded - Len(outputs) + 1>> /\ Len(outputs) <= yielded
    BY <2>2 DEF O!OutputsQueued
  <2>4. \A k : O!Frame(k)' = O!Frame(k)
    BY <2>1 DEF O!Frame
  <2>5. O!Told' = O!Told + 1
    BY <1>1, <2>1, <2>2 DEF O!Told
  <2>6. \A k : k = O!Told + 1 => Head(outputs) = O!Frame(k)'
    <3> TAKE k
    <3>1. SUFFICES ASSUME k = O!Told + 1 PROVE Head(outputs) = O!Frame(k)
      BY <2>4
    <3>2. CASE engine = "failed"
      <4>1. O!Told = 1 + yielded - Len(outputs)
        BY <1>1, <2>1, <3>2 DEF O!Told
      <4>2. k - 1 = yielded - Len(outputs) + 1 /\ k - 1 \in 1..yielded /\ k - 1 # 0
        BY <1>1, <2>2, <2>3, <3>1, <4>1
      <4> QED
        BY <2>3, <3>2, <4>2 DEF O!Frame
    <3>3. CASE engine # "failed"
      <4>1. O!Told = yielded - Len(outputs)
        BY <1>1, <2>1, <3>3 DEF O!Told
      <4>2. k = yielded - Len(outputs) + 1 /\ k \in 1..yielded /\ k # 0
        BY <1>1, <2>2, <2>3, <3>1, <4>1
      <4> QED
        BY <2>3, <3>3, <4>2 DEF O!Frame
    <3> QED
      BY <3>2, <3>3
  <2> QED
    BY <2>1, <2>4, <2>5, <2>6, FramePushed
<1>7. CASE O!AgentOutputsClosed
  <2>1. /\ UNCHANGED <<received, results, engine, yielded, outputs>> /\ reader = "outputs" /\ held = <<>>
        /\ outputs = <<>> /\ held' = <<O!Final>> /\ reader' = "last"
    BY <1>7 DEF O!AgentOutputsClosed
  <2>2. \A k : O!Frame(k)' = O!Frame(k)
    BY <2>1 DEF O!Frame
  <2>3. O!Told' = O!Told + 1 /\ Len(outputs) = 0
    BY <1>1, <2>1 DEF O!Told
  <2>4. \A k : k = O!Told + 1 => O!Final = O!Frame(k)'
    <3> TAKE k
    <3>1. SUFFICES ASSUME k = O!Told + 1 PROVE O!Final = O!Frame(k)
      BY <2>2
    <3>2. CASE engine = "failed"
      <4>1. k - 1 = yielded + 1 /\ k - 1 \notin 1..yielded /\ k - 1 # 0
        BY <1>1, <2>1, <2>3, <3>1, <3>2 DEF O!Told
      <4> QED
        BY <3>2, <4>1 DEF O!Frame
    <3>3. CASE engine # "failed"
      <4>1. k = yielded + 1 /\ k \notin 1..yielded /\ k # 0
        BY <1>1, <2>1, <2>3, <3>1, <3>3 DEF O!Told
      <4> QED
        BY <3>3, <4>1 DEF O!Frame
    <3> QED
      BY <3>2, <3>3
  <2> QED
    BY <2>1, <2>2, <2>3, <2>4, FramePushed
<1>8. CASE O!AgentSends
  <2>1. /\ UNCHANGED <<received, engine, yielded, outputs, reader>> /\ held # <<>>
        /\ held' = Tail(held) /\ results' = Append(results, Head(held))
    BY <1>8 DEF O!AgentSends
  <2>2. O!Told' = O!Told /\ \A k : O!Frame(k)' = O!Frame(k)
    BY <2>1 DEF O!Told, O!Frame
  <2>3. O!OnTheWay' = O!OnTheWay
    <3>1. /\ held \in Seq(O!Frames) /\ results \in Seq(O!Frames) /\ Len(held) = 1 /\ Head(held) \in O!Frames
          /\ held[1] = Head(held) /\ DOMAIN held = 1..1 /\ Len(Tail(held)) = 0 /\ Tail(held) \in Seq(O!Frames)
      <4>1. held \in Seq(O!Frames) /\ results \in Seq(O!Frames) /\ Len(held) <= 1
        BY DEF O!OutputsType
      <4>2. /\ Len(held) \in Nat \ {0} /\ DOMAIN held = 1..Len(held) /\ Head(held) = held[1]
            /\ Head(held) \in O!Frames /\ Tail(held) \in Seq(O!Frames) /\ Len(Tail(held)) = Len(held) - 1
        BY <2>1, <4>1, QueueFacts
      <4>3. Len(held) = 1
        BY <4>1, <4>2
      <4> QED
        BY <4>1, <4>2, <4>3
    <3>2. Tail(held) = <<>>
      BY <3>1, EmptySeq
    <3>3. held = <<Head(held)>>
      BY <3>1
    <3>4. Append(results, Head(held)) = results \o <<Head(held)>> /\ results' \in Seq(O!Frames)
      BY <2>1, <3>1, AppendIsConcat, AppendProperties, SMTT(30)
    <3> QED
      BY <2>1, <3>2, <3>3, <3>4, ConcatEmptySeq DEF O!OnTheWay
  <2> QED
    BY <2>1, <2>2, <2>3, FramesStay
<1>9. CASE O!AgentEnds
  <2>1. /\ UNCHANGED <<received, results, held, engine, yielded, outputs>>
        /\ reader = "last" /\ reader' = "done"
    BY <1>9 DEF O!AgentEnds
  <2>2. O!Told' = O!Told /\ O!OnTheWay' = O!OnTheWay /\ \A k : O!Frame(k)' = O!Frame(k)
    BY <2>1 DEF O!Told, O!OnTheWay, O!Frame
  <2> QED
    BY <2>1, <2>2, FramesStay
<1>10. CASE O!ConsumerReads
  BY <1>10, FrameRead
<1>11. CASE O!ConsumerLeaves
  BY <1>11 DEF O!ConsumerLeaves
<1>12. CASE UNCHANGED O!vars
  <2>1. UNCHANGED <<received, results, held, engine, yielded, outputs, reader>>
    BY <1>12 DEF O!vars
  <2>2. O!Told' = O!Told /\ O!OnTheWay' = O!OnTheWay /\ \A k : O!Frame(k)' = O!Frame(k)
    BY <2>1 DEF O!Told, O!OnTheWay, O!Frame
  <2> QED
    BY <2>1, <2>2, FramesStay
<1> QED
  BY <1>3, <1>4, <1>5, <1>6, <1>7, <1>8, <1>9, <1>10, <1>11, <1>12, AgentSteps

\* The invariant of the channels.
LEMMA ChannelsInit == O!Init => O!OutputsInv
<1> SUFFICES ASSUME O!Init PROVE O!OutputsInv
  OBVIOUS
<1>1. Len(<<>>) = 0 /\ DOMAIN <<>> = {}
  OBVIOUS
<1>2. /\ events = <<>> /\ outputs = <<>> /\ results = <<>> /\ held = <<>> /\ received = <<>>
      /\ reader = "events" /\ engine = "between" /\ yielded = 0
  BY DEF O!Init
<1>3. O!RingTells /\ O!LoopsInOrder /\ O!OutputsQueued
  BY <1>1, <1>2 DEF O!RingTells, O!LoopsInOrder, O!OutputsQueued
<1>4. O!OnTheWay = <<>> /\ O!Told = 0
  BY <1>2 DEF O!OnTheWay, O!Told
<1>5. O!Progressing = 0
  <2>1. O!Progressing = 0 - (0 - 0)
    BY <1>1, <1>2, <1>4 DEF O!Progressing
  <2> QED
    BY <2>1
<1>6. O!FramesInOrder
  BY <1>1, <1>2, <1>4, <1>5 DEF O!FramesInOrder
<1> QED
  BY <1>3, <1>6, OutputsTypeInit DEF O!OutputsInv

LEMMA ChannelsStep == O!RingHolds /\ O!OutputsInv /\ [O!Next]_(O!vars) => O!OutputsInv'
<1> SUFFICES ASSUME O!RingHolds, O!OutputsInv, [O!Next]_(O!vars) PROVE O!OutputsInv'
  OBVIOUS
<1>1. O!OutputsType /\ O!OutputsType'
  BY OutputsTypeStep DEF O!OutputsInv
<1>2. driver' = driver
  BY DEF O!Next, O!EngineStep, O!AgentStep, O!BridgeStep, O!BeginNode, O!StartYield, O!YieldOutput, O!EndNode,
        O!HaltedResumes, O!Complete,
      O!AgentReadsEvent, O!AgentEventsClosed, O!AgentReadsOutput, O!AgentOutputsClosed, O!AgentSends, O!AgentEnds,
      O!ConsumerReads, O!ConsumerLeaves, O!BridgeCancelled, O!BridgeReadsEvent, O!BridgeEventsClosed, O!BridgeAnswers,
      O!BridgeDone, O!CancelPrompt, O!Finished, O!vars
<1>3. ASSUME driver = "agent"
      PROVE  O!RingTells' /\ O!LoopsInOrder' /\ O!OutputsQueued' /\ (consumer' = "reading" => O!FramesInOrder')
  <2>1. AgentInv
    BY <1>3 DEF O!OutputsInv, AgentInv
  <2>2. consumer' = "reading" => consumer = "reading"
    BY <1>3, <2>1, AgentSteps DEF AgentInv, O!BeginNode, O!StartYield, O!YieldOutput, O!EndNode, O!Complete, O!AgentReadsEvent,
        O!AgentEventsClosed, O!AgentReadsOutput, O!AgentOutputsClosed, O!AgentSends, O!AgentEnds, O!ConsumerReads,
        O!ConsumerLeaves, O!vars, O!agentVars
  <2> QED
    BY <1>1, <1>3, <2>1, <2>2, RingStep, LoopsStep, QueuedStep, FramesStep DEF O!OutputsInv
<1> QED
  BY <1>1, <1>2, <1>3 DEF O!OutputsInv

LEMMA ChannelsSafe == O!OutputsInv => O!NothingLost
<1> SUFFICES ASSUME O!OutputsInv, driver = "agent", reader = "done", consumer = "reading", results = <<>>
             PROVE  received = IF engine = "failed"
                               THEN <<O!Failure>> \o ([i \in 1..yielded |-> <<"output", i>>] \o <<O!Final>>)
                               ELSE [i \in 1..yielded |-> <<"output", i>>] \o <<O!Final>>
  BY DEF O!NothingLost
<1> DEFINE outs == [i \in 1..yielded |-> <<"output", i>>]
           all == outs \o <<O!Final>>
<1>1. O!OutputsType /\ O!LoopsInOrder /\ O!FramesInOrder
  BY DEF O!OutputsInv
<1>2. held = <<>> /\ outputs = <<>> /\ yielded \in Nat /\ received \in Seq(O!Frames)
  BY <1>1 DEF O!LoopsInOrder, O!OutputsType
<1>3. Len(received) = O!Told
  <2>1. O!OnTheWay = <<>> /\ Len(<<>>) = 0
    BY <1>2 DEF O!OnTheWay
  <2>2. O!Progressing = 0 - (O!Told - Len(received))
    BY <2>1 DEF O!Progressing
  <2>3. O!Told \in Int /\ Len(received) \in Nat
    BY <1>1, <1>2, ToldType, LenProperties
  <2> QED
    BY <1>1, <2>2, <2>3 DEF O!FramesInOrder
<1>4. DOMAIN received = 1..O!Told /\ \A i \in 1..O!Told : received[i] = O!Frame(i)
  BY <1>1, <1>2, <1>3, LenProperties DEF O!FramesInOrder
<1>5. /\ all \in Seq(O!Frames) /\ Len(all) = yielded + 1 /\ all[yielded + 1] = O!Final
      /\ \A i \in 1..yielded : all[i] = <<"output", i>>
  <2>1. outs \in Seq(O!Frames) /\ Len(outs) = yielded /\ <<O!Final>> \in Seq(O!Frames) /\ Len(<<O!Final>>) = 1
    <3>1. \A i \in 1..yielded : <<"output", i>> \in O!Frames
      <4> TAKE i \in 1..yielded
      <4>1. i \in Nat
        BY <1>2
      <4> QED
        BY <4>1, FrameFacts
    <3>2. outs \in [1..yielded -> O!Frames]
      BY <3>1
    <3> QED
      BY <1>2, <3>2, FrameFacts
  <2>2. <<O!Final>>[1] = O!Final /\ \A i \in 1..yielded : outs[i] = <<"output", i>>
    OBVIOUS
  <2> HIDE DEF outs
  <2>3. /\ all \in Seq(O!Frames) /\ Len(all) = Len(outs) + Len(<<O!Final>>)
        /\ \A i \in 1..Len(outs) + Len(<<O!Final>>) :
             all[i] = IF i <= Len(outs) THEN outs[i] ELSE <<O!Final>>[i - Len(outs)]
    BY <2>1, ConcatProperties
  <2> HIDE DEF all
  <2>4. yielded + 1 \in 1..yielded + 1 /\ ~(yielded + 1 <= yielded) /\ yielded + 1 - yielded = 1
    BY <1>2
  <2> QED
    BY <1>2, <2>1, <2>2, <2>3, <2>4
<1> HIDE DEF outs, all
<1>6. CASE engine = "failed"
  <2>1. O!Told = yielded + 2
    BY <1>2, <1>6 DEF O!Told
  <2>2. <<O!Failure>> \in Seq(O!Frames) /\ Len(<<O!Failure>>) = 1 /\ <<O!Failure>>[1] = O!Failure
    BY FrameFacts
  <2>3. /\ <<O!Failure>> \o all \in Seq(O!Frames) /\ Len(<<O!Failure>> \o all) = yielded + 2
        /\ \A i \in 1..yielded + 2 :
             (<<O!Failure>> \o all)[i] = IF i <= 1 THEN O!Failure ELSE all[i - 1]
    <3>1. /\ <<O!Failure>> \o all \in Seq(O!Frames) /\ Len(<<O!Failure>> \o all) = 1 + (yielded + 1)
          /\ \A i \in 1..1 + (yielded + 1) :
               (<<O!Failure>> \o all)[i] = IF i <= 1 THEN <<O!Failure>>[i] ELSE all[i - 1]
      BY <1>5, <2>2, ConcatProperties
    <3> QED
      BY <1>2, <2>2, <3>1
  <2>4. \A i \in 1..yielded + 2 : received[i] = (<<O!Failure>> \o all)[i]
    <3> TAKE i \in 1..yielded + 2
    <3>1. CASE i = 1
      BY <1>4, <1>6, <2>1, <2>3, <3>1 DEF O!Frame
    <3>2. CASE i - 1 \in 1..yielded
      <4>1. i - 1 # 0 /\ i \in 1..O!Told /\ ~(i <= 1)
        BY <1>2, <2>1, <3>2
      <4>2. O!Frame(i) = <<"output", i - 1>>
        BY <1>6, <3>2, <4>1 DEF O!Frame
      <4> QED
        BY <1>4, <1>5, <2>3, <3>2, <4>1, <4>2
    <3>3. CASE i = yielded + 2
      <4>1. i - 1 = yielded + 1 /\ i - 1 # 0 /\ i - 1 \notin 1..yielded /\ ~(i <= 1)
        BY <1>2, <3>3
      <4> QED
        BY <1>4, <1>5, <1>6, <2>1, <2>3, <4>1 DEF O!Frame
    <3>4. i = 1 \/ i - 1 \in 1..yielded \/ i = yielded + 2
      BY <1>2
    <3> QED
      BY <3>1, <3>2, <3>3, <3>4
  <2> QED
    BY <1>2, <1>3, <1>6, <2>1, <2>3, <2>4, SeqEqual DEF all, outs
<1>7. CASE engine # "failed"
  <2>1. O!Told = yielded + 1
    BY <1>2, <1>7 DEF O!Told
  <2>2. \A i \in 1..yielded + 1 : received[i] = all[i]
    <3> TAKE i \in 1..yielded + 1
    <3>1. CASE i \in 1..yielded
      <4>1. i # 0 /\ i \in 1..O!Told
        BY <1>2, <2>1, <3>1
      <4>2. O!Frame(i) = <<"output", i>>
        BY <1>7, <3>1, <4>1 DEF O!Frame
      <4> QED
        BY <1>4, <1>5, <3>1, <4>1, <4>2
    <3>2. CASE i = yielded + 1
      <4>1. i # 0 /\ i \notin 1..yielded
        BY <1>2, <3>2
      <4> QED
        BY <1>4, <1>5, <1>7, <2>1, <3>2, <4>1 DEF O!Frame
    <3>3. i \in 1..yielded \/ i = yielded + 1
      BY <1>2
    <3> QED
      BY <3>1, <3>2, <3>3
  <2> QED
    BY <1>2, <1>3, <1>5, <1>7, <2>1, <2>2, SeqEqual DEF all, outs
<1> QED
  BY <1>6, <1>7 DEF all, outs

-----------------------------------------------------------------------------
(* Group chats.                                                           *)

C == INSTANCE GroupChat

\* The instance's sizes are those of the theorems about finite sets.
LEMMA ChatSizes == \A S : C!Cardinality(S) = Cardinality(S)
BY DEF C!Cardinality, Cardinality

\* A word of an assistant is one round more, and no word of another ends up in a chat.
LEMMA RoundFacts ==
  ASSUME NEW h \in Seq({"user", "assistant", "keyword"})
  PROVE  /\ C!Rounds(h) \in Nat
         /\ \A m \in {"assistant", "keyword"} :
              /\ Append(h, m) \in Seq({"user", "assistant", "keyword"})
              /\ C!Rounds(Append(h, m)) = C!Rounds(h) + 1
<1> DEFINE heard == {i \in DOMAIN h : C!Assistant(h[i])}
<1>1. Len(h) \in Nat /\ DOMAIN h = 1..Len(h)
  BY LenProperties
<1>2. IsFiniteSet(1..Len(h)) /\ heard \in SUBSET (1..Len(h))
  BY <1>1, FS_Interval
<1>3. IsFiniteSet(heard)
  BY <1>2, FS_Subset
<1>4. C!Rounds(h) \in Nat
  BY ChatSizes, <1>3, FS_CardinalityType DEF C!Rounds
<1>5. ASSUME NEW m \in {"assistant", "keyword"}
      PROVE  /\ Append(h, m) \in Seq({"user", "assistant", "keyword"})
             /\ C!Rounds(Append(h, m)) = C!Rounds(h) + 1
  <2> DEFINE g == Append(h, m)
             n == Len(h) + 1
  <2>1. /\ g \in Seq({"user", "assistant", "keyword"}) /\ Len(g) = n
        /\ g[n] = m /\ \A i \in 1..Len(h) : g[i] = h[i]
    BY AppendProperties
  <2>2. DOMAIN g = 1..n
    BY <2>1, LenProperties
  <2>3. 1..n = (1..Len(h)) \cup {n} /\ n \notin 1..Len(h)
    BY <1>1
  <2>4. C!Assistant(g[n])
    BY <2>1 DEF C!Assistant
  <2> HIDE DEF g, n
  <2>5. {i \in DOMAIN g : C!Assistant(g[i])} = heard \cup {n} /\ n \notin heard
    BY <1>1, <2>1, <2>2, <2>3, <2>4
  <2>6. C!Rounds(g) = C!Rounds(h) + 1
    BY ChatSizes, <1>3, <2>5, FS_AddElement DEF C!Rounds
  <2> QED
    BY <2>1, <2>6 DEF g
<1> QED
  BY <1>4, <1>5

\* An input has one round behind it at most.
LEMMA InputFacts == \A h \in C!Histories : C!Rounds(h) <= 1
<1> SUFFICES ASSUME NEW h \in C!Histories PROVE C!Rounds(h) <= 1
  OBVIOUS
<1>1. {i \in DOMAIN h : C!Assistant(h[i])} \subseteq {2}
  BY DEF C!Histories, C!Assistant
<1>2. IsFiniteSet({2}) /\ Cardinality({2}) = 1
  BY FS_Singleton
<1> QED
  BY <1>1, <1>2, FS_Subset, FS_CardinalityType, ChatSizes DEF C!Rounds

\* The speaker is chosen while rounds are left; it has one turn more.
LEMMA SelectFacts ==
  ASSUME NEW r \in Chats, C!SelectNext(r)
  PROVE  /\ chat[r] = "choosing" /\ ~C!ShouldTerminate(history[r])
         /\ counter' = counter + 1 /\ C!Move(r, "speaking") /\ spoke' = [spoke EXCEPT ![r] = ""]
         /\ UNCHANGED <<selector, termination, history>>
         /\ \E i \in C!Index : /\ selector = "round_robin" => i = counter % Participants
                            /\ turns' = [turns EXCEPT ![i] = turns[i] + 1]
  BY Zenon DEF C!SelectNext

\* Types.
LEMMA ChatTypeInit == C!ChatConstants /\ C!Init => C!ChatType
<1> SUFFICES ASSUME C!ChatConstants, C!Init PROVE C!ChatType
  OBVIOUS
<1>1. \A h \in C!Histories : h \in Seq({"user", "assistant", "keyword"})
  <2> DEFINE T == {"user", "assistant", "keyword"}
  <2>1. "user" \in T /\ "assistant" \in T
    OBVIOUS
  <2> HIDE DEF T
  <2>2. <<"user">> \in Seq(T) /\ <<"user", "assistant", "user">> \in Seq(T)
    BY <2>1
  <2> QED
    BY <2>2 DEF T, C!Histories
<1>2. turns \in [C!Index -> Nat] /\ counter \in Nat
  BY DEF C!Init
<1> QED
  BY <1>1, <1>2 DEF C!Init, C!ChatType

\* The next number.
LEMMA OneMore == \A n \in Nat : n + 1 \in Nat
  OBVIOUS

LEMMA ChatTypeStep == C!ChatConstants /\ C!ChatType /\ [C!Next]_(C!chatVars) => C!ChatType'
<1> SUFFICES ASSUME C!ChatConstants, C!ChatType, [C!Next]_(C!chatVars) PROVE C!ChatType'
  OBVIOUS
<1> USE DEF C!ChatType, C!Move
<1>1. ASSUME NEW r \in Chats, C!Start(r) PROVE C!ChatType'
  BY <1>1 DEF C!Start
<1>2. ASSUME NEW r \in Chats, C!Stop(r) PROVE C!ChatType'
  BY <1>2 DEF C!Stop
<1>3. ASSUME NEW r \in Chats, C!SelectNext(r) PROVE C!ChatType'
  <2>1. PICK i \in C!Index : turns' = [turns EXCEPT ![i] = turns[i] + 1]
    BY <1>3, SelectFacts
  <2>2. /\ counter' = counter + 1 /\ C!Move(r, "speaking") /\ spoke' = [spoke EXCEPT ![r] = ""]
        /\ UNCHANGED <<selector, termination, history>>
    BY <1>3, SelectFacts
  <2>3. turns' \in [C!Index -> Nat] /\ counter' \in Nat
    <3>1. turns \in [C!Index -> Nat] /\ counter \in Nat
      BY DEF C!ChatType
    <3>2. turns[i] + 1 \in Nat
      BY <3>1, OneMore, Zenon
    <3>3. turns' \in [C!Index -> Nat]
      BY <2>1, <3>1, <3>2, Zenon
    <3> QED
      BY <2>2, <3>1, <3>3, OneMore, Zenon
  <2>4. /\ chat' \in [Chats -> {"idle", "choosing", "speaking", "stopped", "failed", "left"}]
        /\ spoke' \in [Chats -> {"", "assistant", "keyword"}]
    BY <2>2
  <2> QED
    BY <2>2, <2>3, <2>4
<1>4. ASSUME NEW r \in Chats, C!Chunk(r) PROVE C!ChatType'
  BY <1>4 DEF C!Chunk
<1>5. ASSUME NEW r \in Chats, C!Fails(r) PROVE C!ChatType'
  BY <1>5 DEF C!Fails
<1>6. ASSUME NEW r \in Chats, C!EndTurn(r) PROVE C!ChatType'
  <2>1. spoke[r] # "" => Append(history[r], spoke[r]) \in Seq({"user", "assistant", "keyword"})
    BY RoundFacts
  <2> QED
    BY <1>6, <2>1 DEF C!EndTurn
<1>7. CASE UNCHANGED C!chatVars
  BY <1>7 DEF C!chatVars
<1> QED
  BY <1>1, <1>2, <1>3, <1>4, <1>5, <1>6, <1>7 DEF C!Next, C!Rest

\* No more rounds than asked for: who speaks was chosen while one was left.
LEMMA RoundsStep == C!ChatConstants /\ C!ChatType /\ C!RoundsLeft /\ [C!Next]_(C!chatVars) => C!RoundsLeft'
<1> SUFFICES ASSUME C!ChatConstants, C!ChatType, C!RoundsLeft, [C!Next]_(C!chatVars), termination = "rounds"
             PROVE  C!RoundsLeft'
  BY ChatSizes DEF C!RoundsLeft, C!Next, C!Start, C!Stop, C!SelectNext, C!Chunk, C!Fails, C!EndTurn, C!Rest,
        C!chatVars
<1> USE DEF C!RoundsLeft, C!Move
<1>0. /\ MaxRounds \in Nat /\ \A q \in Chats : C!Rounds(history[q]) \in Nat
  BY RoundFacts DEF C!ChatConstants, C!ChatType
<1>t. chat \in [Chats -> {"idle", "choosing", "speaking", "stopped", "failed", "left"}]
  BY DEF C!ChatType
<1>1. ASSUME NEW r \in Chats, C!Start(r) PROVE C!RoundsLeft'
  BY <1>0, <1>t, <1>1 DEF C!Start, C!ShouldTerminate
<1>2. ASSUME NEW r \in Chats, C!Stop(r) PROVE C!RoundsLeft'
  BY <1>0, <1>t, <1>2 DEF C!Stop, C!ShouldTerminate
<1>3. ASSUME NEW r \in Chats, C!SelectNext(r) PROVE C!RoundsLeft'
  <2>1. /\ C!Move(r, "speaking") /\ ~C!ShouldTerminate(history[r])
        /\ UNCHANGED <<selector, termination, history>>
    BY <1>3, SelectFacts
  <2> QED
    BY <1>0, <1>t, <2>1 DEF C!ShouldTerminate
<1>4. ASSUME NEW r \in Chats, C!Chunk(r) PROVE C!RoundsLeft'
  BY <1>0, <1>t, <1>4 DEF C!Chunk
<1>5. ASSUME NEW r \in Chats, C!Fails(r) PROVE C!RoundsLeft'
  BY <1>0, <1>t, <1>5 DEF C!Fails
<1>6. ASSUME NEW r \in Chats, C!EndTurn(r) PROVE C!RoundsLeft'
  <2>1. CASE spoke[r] = ""
    BY <1>0, <1>t, <1>6, <2>1 DEF C!EndTurn
  <2>2. CASE spoke[r] # ""
    <3>1. C!Rounds(Append(history[r], spoke[r])) = C!Rounds(history[r]) + 1
      BY <2>2, RoundFacts DEF C!ChatType
    <3>2. history' = [history EXCEPT ![r] = Append(history[r], spoke[r])]
             /\ history \in [Chats -> Seq({"user", "assistant", "keyword"})]
      BY <1>6, <2>2 DEF C!EndTurn, C!ChatType
    <3>3. C!Rounds(history[r]) < MaxRounds
      BY <1>6 DEF C!EndTurn
    <3>4. chat' = [chat EXCEPT ![r] = "choosing"]
      BY <1>6 DEF C!EndTurn
    <3>5. ASSUME NEW q \in Chats
          PROVE  /\ C!Rounds(history[q])' <= MaxRounds
                 /\ chat'[q] = "speaking" => C!Rounds(history[q])' < MaxRounds
                 /\ chat'[q] = "stopped" => C!Rounds(history[q])' = MaxRounds
      <4>1. CASE q = r
        <5>1. C!Rounds(history[q])' = C!Rounds(history[r]) + 1
          BY ChatSizes, <3>1, <3>2, <4>1 DEF C!Rounds
        <5> QED
          BY <1>0, <1>t, <3>3, <3>4, <4>1, <5>1
      <4>2. CASE q # r
        <5>1. C!Rounds(history[q])' = C!Rounds(history[q]) /\ chat'[q] = chat[q]
          BY ChatSizes, <1>t, <3>2, <3>4, <4>2 DEF C!Rounds
        <5> QED
          BY <5>1
      <4> QED
        BY <4>1, <4>2
    <3> QED
      BY <3>5
  <2> QED
    BY <2>1, <2>2
<1>7. CASE UNCHANGED C!chatVars
  BY <1>7 DEF C!chatVars
<1> QED
  BY <1>1, <1>2, <1>3, <1>4, <1>5, <1>6, <1>7 DEF C!Next, C!Rest

LEMMA ShareOf ==
  ASSUME NEW n \in Nat \ {0}, NEW q \in Nat, NEW r \in Nat, r < n
  PROVE  (q * n + r) % n = r
<1>1. q * n = n * q
  OBVIOUS
<1> QED
  BY <1>1

\* The shared counter gives one turn after the other.
LEMMA TurnsStep == C!ChatConstants /\ C!ChatType /\ C!TurnsCounted /\ [C!Next]_(C!chatVars) => C!TurnsCounted'
<1> SUFFICES ASSUME C!ChatConstants, C!ChatType, C!TurnsCounted, [C!Next]_(C!chatVars), selector = "round_robin"
             PROVE  C!TurnsCounted'
  BY DEF C!TurnsCounted, C!Next, C!Start, C!Stop, C!SelectNext, C!Chunk, C!Fails, C!EndTurn, C!Rest, C!chatVars
<1>1. ASSUME NEW r \in Chats, C!SelectNext(r) PROVE C!TurnsCounted'
  <2>0. Participants \in Nat \ {0} /\ C!Index = 0..Participants - 1
    BY DEF C!ChatConstants, C!Index
  <2>1. PICK full \in Nat, next \in C!Index :
          /\ counter = full * Participants + next
          /\ \A i \in C!Index : turns[i] = IF i < next THEN full + 1 ELSE full
    BY DEF C!TurnsCounted
  <2>2. counter % Participants = next
    BY <2>0, <2>1, ShareOf
  <2>3. /\ counter' = counter + 1 /\ turns' = [turns EXCEPT ![next] = turns[next] + 1]
        /\ turns \in [C!Index -> Nat]
    BY <1>1, <2>2, SelectFacts DEF C!ChatType
  <2>4. CASE next + 1 = Participants
    <3>1. full + 1 \in Nat /\ 0 \in C!Index /\ \A i \in C!Index : i # next => i < next
      BY <2>0, <2>1, <2>4
    <3>2. (full + 1) * Participants + 0 = full * Participants + next + 1
      BY <2>0, <2>1, <2>4
    <3>3. \A i \in C!Index : turns'[i] = full + 1
      BY <2>0, <2>1, <2>3, <3>1
    <3>4. \A i \in C!Index : turns'[i] = IF i < 0 THEN full + 2 ELSE full + 1
      BY <2>0, <3>3
    <3> QED
      BY <2>1, <2>3, <3>1, <3>2, <3>4 DEF C!TurnsCounted
  <2>5. CASE next + 1 # Participants
    <3>1. next + 1 \in C!Index
      BY <2>0, <2>1, <2>5
    <3>2. full * Participants + (next + 1) = counter'
      BY <2>0, <2>1, <2>3
    <3>3. \A i \in C!Index : turns'[i] = IF i < next + 1 THEN full + 1 ELSE full
      BY <2>0, <2>1, <2>3
    <3> QED
      BY <2>1, <3>1, <3>2, <3>3 DEF C!TurnsCounted
  <2> QED
    BY <2>4, <2>5
<1>2. CASE UNCHANGED <<counter, turns, selector>>
  BY <1>2 DEF C!TurnsCounted
<1> QED
  BY <1>1, <1>2 DEF C!Next, C!Start, C!Stop, C!Chunk, C!Fails, C!EndTurn, C!Rest, C!chatVars

\* Whoever ends a turn had not heard the keyword when it began.
LEMMA KeywordStep ==
  C!ChatType /\ C!KeywordUnheard /\ C!KeywordLast /\ [C!Next]_(C!chatVars) => C!KeywordUnheard' /\ C!KeywordLast'
<1> SUFFICES ASSUME C!ChatType, C!KeywordUnheard, C!KeywordLast, [C!Next]_(C!chatVars), termination = "keyword"
             PROVE  C!KeywordUnheard' /\ C!KeywordLast'
  BY DEF C!KeywordUnheard, C!KeywordLast, C!Next, C!Start, C!Stop, C!SelectNext, C!Chunk, C!Fails, C!EndTurn,
        C!Rest, C!chatVars
<1> USE DEF C!KeywordUnheard, C!KeywordLast, C!Move
<1>t. chat \in [Chats -> {"idle", "choosing", "speaking", "stopped", "failed", "left"}]
  BY DEF C!ChatType
<1>1. ASSUME NEW r \in Chats, C!Start(r) \/ C!Stop(r) \/ C!Chunk(r) \/ C!Fails(r)
      PROVE  C!KeywordUnheard' /\ C!KeywordLast'
  BY <1>t, <1>1 DEF C!Start, C!Stop, C!Chunk, C!Fails
<1>2. ASSUME NEW r \in Chats, C!SelectNext(r) PROVE C!KeywordUnheard' /\ C!KeywordLast'
  <2>1. /\ C!Move(r, "speaking") /\ ~C!ShouldTerminate(history[r])
        /\ UNCHANGED <<selector, termination, history>>
    BY <1>2, SelectFacts
  <2> QED
    BY <1>t, <2>1 DEF C!ShouldTerminate
<1>3. ASSUME NEW r \in Chats, C!EndTurn(r) PROVE C!KeywordUnheard' /\ C!KeywordLast'
  <2>1. CASE spoke[r] = ""
    BY <1>t, <1>3, <2>1 DEF C!EndTurn
  <2>2. CASE spoke[r] # ""
    <3> DEFINE g == Append(history[r], spoke[r])
               n == Len(history[r])
    <3>1. history' = [history EXCEPT ![r] = g] /\ history \in [Chats -> Seq({"user", "assistant", "keyword"})]
      BY <1>3, <2>2 DEF C!EndTurn, C!ChatType
    <3>2. n \in Nat /\ DOMAIN history[r] = 1..n
      BY <3>1, LenProperties
    <3>a. spoke[r] \in {"user", "assistant", "keyword"} /\ history[r] \in Seq({"user", "assistant", "keyword"})
      BY <2>2, <3>1 DEF C!ChatType
    <3>3. Len(g) = n + 1 /\ DOMAIN g = 1..n + 1 /\ \A i \in 1..n : g[i] = history[r][i]
      BY <3>a, AppendProperties, LenProperties
    <3>4. \A i \in 1..n : history[r][i] # "keyword"
      BY <1>3, <3>2 DEF C!EndTurn
    <3>5. \A i \in DOMAIN g : g[i] = "keyword" => i = Len(g)
      BY <3>2, <3>3, <3>4
    <3>6. C!KeywordLast'
      BY <1>3, <3>1, <3>5 DEF C!EndTurn
    <3>7. C!KeywordUnheard'
      BY <1>t, <1>3, <3>1, ZenonT(30) DEF C!EndTurn
    <3> QED
      BY <3>6, <3>7
  <2> QED
    BY <2>1, <2>2
<1>4. CASE UNCHANGED C!chatVars
  BY <1>4 DEF C!chatVars
<1> QED
  BY <1>1, <1>2, <1>3, <1>4 DEF C!Next, C!Rest

\* The invariant of the group chats.
LEMMA ChatInit == C!ChatConstants /\ C!Init => C!ChatInv
<1> SUFFICES ASSUME C!ChatConstants, C!Init PROVE C!ChatInv
  OBVIOUS
<1>1. C!ChatType
  BY ChatTypeInit
<1>2. C!RoundsLeft
  <2>1. history \in [Chats -> C!Histories] /\ chat = [r \in Chats |-> "idle"]
    BY Zenon DEF C!Init
  <2>2. \A r \in Chats : C!Rounds(history[r]) <= 1
    BY <2>1, InputFacts
  <2>3. \A h \in C!Histories : h \in Seq({"user", "assistant", "keyword"})
    <3>1. <<"user">> \in Seq({"user", "assistant", "keyword"})
      OBVIOUS
    <3>2. <<"user", "assistant", "user">> \in Seq({"user", "assistant", "keyword"})
      OBVIOUS
    <3> QED
      BY <3>1, <3>2 DEF C!Histories
  <2>4. \A r \in Chats : C!Rounds(history[r]) \in Nat
    BY <2>1, <2>3, RoundFacts
  <2> QED
    BY <2>1, <2>2, <2>4 DEF C!RoundsLeft, C!ChatConstants
<1>3. C!TurnsCounted
  <2>1. 0 \in Nat /\ 0 \in C!Index /\ 0 = 0 * Participants + 0
    BY DEF C!ChatConstants, C!Index
  <2>2. counter = 0 /\ turns = [i \in C!Index |-> 0]
    BY DEF C!Init
  <2>3. \A i \in C!Index : ~(i < 0)
    BY DEF C!Index, C!ChatConstants
  <2> QED
    BY <2>1, <2>2, <2>3 DEF C!TurnsCounted
<1>4. C!KeywordUnheard
  BY DEF C!Init, C!KeywordUnheard
<1>5. C!KeywordLast
  <2>1. \A h \in C!Histories : \A i \in DOMAIN h : h[i] # "keyword"
    BY DEF C!Histories
  <2> QED
    BY <2>1 DEF C!Init, C!KeywordLast
<1> QED
  BY <1>1, <1>2, <1>3, <1>4, <1>5 DEF C!ChatInv

LEMMA ChatInvStep == C!ChatConstants /\ C!ChatInv /\ [C!Next]_(C!chatVars) => C!ChatInv'
  BY ChatTypeStep, RoundsStep, TurnsStep, KeywordStep DEF C!ChatInv

LEMMA ChatSafe == C!ChatConstants /\ C!ChatInv => C!ChatKeepsRules
<1> SUFFICES ASSUME C!ChatConstants, C!ChatInv PROVE C!ChatKeepsRules
  OBVIOUS
<1>1. C!RoundsHeard
  BY ChatSizes DEF C!ChatInv, C!RoundsHeard, C!RoundsLeft, C!Rounds, C!Assistant
<1>2. C!TurnsShared
  <2> SUFFICES ASSUME selector = "round_robin", NEW i \in C!Index, NEW j \in C!Index
               PROVE  turns[i] <= turns[j] + 1
    BY DEF C!TurnsShared
  <2>1. PICK full \in Nat, next \in C!Index : \A k \in C!Index : turns[k] = IF k < next THEN full + 1 ELSE full
    BY DEF C!ChatInv, C!TurnsCounted
  <2> QED
    BY <2>1
<1> QED
  BY ChatSizes, <1>1, <1>2 DEF C!ChatInv, C!ChatKeepsRules

-----------------------------------------------------------------------------
(* Nodes that wait.                                                       *)

N == INSTANCE NodeHandlers WITH Runs <- NodeRuns

\* The instance's sizes are those of the theorems about finite sets.
LEMMA NodeSizes == \A S : N!Cardinality(S) = Cardinality(S) /\ (N!IsFiniteSet(S) <=> IsFiniteSet(S))
<1>1. \A S : N!Cardinality(S) = Cardinality(S)
  BY DEF N!Cardinality, Cardinality
<1>2. \A S : N!IsFiniteSet(S) <=> IsFiniteSet(S)
  BY DEF N!IsFiniteSet, IsFiniteSet
<1> QED
  BY <1>1, <1>2

\* Messages join and leave an inbox.
LEMMA MessageFacts ==
  /\ \A s \in Seq(N!Messages) : Len(s) \in Nat /\ (s = <<>> <=> Len(s) = 0)
  /\ \A s \in Seq(N!Messages) : s # <<>> => Tail(s) \in Seq(N!Messages) /\ Len(Tail(s)) = Len(s) - 1
  /\ \A s \in Seq(N!Messages), m \in N!Messages :
       Append(s, m) \in Seq(N!Messages) /\ Len(Append(s, m)) = Len(s) + 1
  /\ \A m \in N!Messages : <<m>> \in Seq(N!Messages) /\ Len(<<m>>) = 1
  /\ \A n \in Nat, m \in N!Messages : [i \in 1..n |-> m] \in Seq(N!Messages) /\ Len([i \in 1..n |-> m]) = n
  /\ \A s, t \in Seq(N!Messages) : s \o t \in Seq(N!Messages) /\ Len(s \o t) = Len(s) + Len(t)
<1>1. \A s \in Seq(N!Messages) : Len(s) \in Nat /\ (s = <<>> <=> Len(s) = 0)
  BY EmptySeq, LenProperties
<1>2. \A s \in Seq(N!Messages) : s # <<>> => Tail(s) \in Seq(N!Messages) /\ Len(Tail(s)) = Len(s) - 1
  BY HeadTailProperties
<1>3. \A s \in Seq(N!Messages), m \in N!Messages :
        Append(s, m) \in Seq(N!Messages) /\ Len(Append(s, m)) = Len(s) + 1
  BY AppendProperties
<1>4. \A m \in N!Messages : <<m>> \in Seq(N!Messages) /\ Len(<<m>>) = 1
  OBVIOUS
<1>5. \A n \in Nat, m \in N!Messages : [i \in 1..n |-> m] \in Seq(N!Messages) /\ Len([i \in 1..n |-> m]) = n
  OBVIOUS
<1>6. \A s, t \in Seq(N!Messages) : s \o t \in Seq(N!Messages) /\ Len(s \o t) = Len(s) + Len(t)
  BY ConcatProperties
<1> QED
  BY <1>1, <1>2, <1>3, <1>4, <1>5, <1>6

\* Types.
LEMMA WaitTypeInit == N!WaitConstants /\ N!Init => N!WaitType
<1> SUFFICES ASSUME N!WaitConstants, N!Init PROVE N!WaitType
  OBVIOUS
<1>1. <<>> \in Seq(N!Messages)
  BY EmptySeq
<1>2. \A n \in 0..MaxTraffic : n \in Nat
  BY NodeSizes DEF N!WaitConstants
<1> QED
  BY <1>1, <1>2 DEF N!Init, N!WaitType

LEMMA WaitTypeStep == N!WaitConstants /\ N!WaitType /\ N!HasMessage /\ [N!Next]_(N!waitVars) => N!WaitType'
<1> SUFFICES ASSUME N!WaitConstants, N!WaitType, N!HasMessage, [N!Next]_(N!waitVars) PROVE N!WaitType'
  OBVIOUS
<1>m. /\ "message" \in N!Messages /\ "answer" \in N!Messages /\ "timer" \in N!Messages
  BY DEF N!Messages
<1> USE DEF N!Go, N!WaitType
<1>1. ASSUME NEW r \in NodeRuns, N!Begin(r) PROVE N!WaitType'
  <2>1. <<"message">> \in Seq(N!Messages)
    BY <1>m
  <2> QED
    BY <1>1, <2>1 DEF N!Begin
<1>2. ASSUME NEW r \in NodeRuns, N!LoopHead(r) PROVE N!WaitType'
  <2>1. CASE halting[r] /\ N!Go(r, "halted") /\ UNCHANGED <<inbox, pending, flag>>
    BY <1>2, <2>1 DEF N!LoopHead
  <2>2. CASE ~halting[r]
    <3>1. PICK due \in 0..pending[r] :
            /\ pending' = [pending EXCEPT ![r] = @ - due]
            /\ flag' = (flag \/ due > 0)
            /\ inbox' = [inbox EXCEPT ![r] = @ \o [i \in 1..due |-> "timer"]]
            /\ N!Go(r, IF inbox'[r] = <<>> /\ traffic[r] = 0 THEN "done" ELSE "step")
      BY <1>2, <2>2 DEF N!LoopHead
    <3>2. pending[r] \in Nat /\ due \in Nat /\ pending[r] - due \in Nat
      BY <3>1
    <3>3. inbox[r] \o [i \in 1..due |-> "timer"] \in Seq(N!Messages)
      BY <1>m, <3>2, MessageFacts
    <3> QED
      BY <1>2, <3>1, <3>2, <3>3 DEF N!LoopHead
  <2> QED
    BY <1>2, <2>1, <2>2 DEF N!LoopHead
<1>3. ASSUME NEW r \in NodeRuns, N!ReadFlag(r) PROVE N!WaitType'
  BY <1>3 DEF N!ReadFlag
<1>4. ASSUME NEW r \in NodeRuns, at[r] = "read", Tail(inbox[r]) \in Seq(N!Messages)
      PROVE  N!LetThrough(r) \/ N!Tick(r) => N!WaitType'
  <2>1. asked[r] + 1 \in Nat /\ pending[r] + 1 \in Nat /\ let[r] + 1 \in Nat /\ ticks + 1 \in Nat
    BY OneMore
  <2>2. CASE N!LetThrough(r)
    BY <1>4, <2>1, <2>2 DEF N!LetThrough
  <2>3. CASE N!Tick(r)
    <3>1. flag' = FALSE /\ ticks' = ticks + 1 /\ inbox' = [inbox EXCEPT ![r] = Tail(inbox[r])]
      BY <2>3 DEF N!Tick
    <3>2. UNCHANGED <<kind, careful, seen, halting, traffic, detached>> /\ at' = [at EXCEPT ![r] = "step"]
      BY <2>3 DEF N!Tick
    <3>3. pending' \in [NodeRuns -> Nat] /\ asked' \in [NodeRuns -> Nat] /\ let' \in [NodeRuns -> Nat]
      <4>1. \/ UNCHANGED <<pending, asked, let>>
            \/ /\ pending' = [pending EXCEPT ![r] = pending[r] + 1]
               /\ asked' = [asked EXCEPT ![r] = asked[r] + 1] /\ let' = [let EXCEPT ![r] = let[r] + 1]
        BY <2>3, Zenon DEF N!Tick
      <4>2. pending \in [NodeRuns -> Nat] /\ asked \in [NodeRuns -> Nat] /\ let \in [NodeRuns -> Nat]
        OBVIOUS
      <4>3. [pending EXCEPT ![r] = pending[r] + 1] \in [NodeRuns -> Nat]
        BY <2>1, <4>2
      <4>4. [asked EXCEPT ![r] = asked[r] + 1] \in [NodeRuns -> Nat]
               /\ [let EXCEPT ![r] = let[r] + 1] \in [NodeRuns -> Nat]
        BY <2>1, <4>2
      <4> HIDE DEF N!WaitType
      <4> QED
        BY <4>1, <4>2, <4>3, <4>4, Zenon
    <3> QED
      BY <1>4, <2>1, <3>1, <3>2, <3>3
  <2> QED
    BY <2>2, <2>3
<1>5. ASSUME NEW r \in NodeRuns, N!Wait(r), Tail(inbox[r]) \in Seq(N!Messages) PROVE N!WaitType'
  <2>1. asked[r] + 1 \in Nat /\ pending[r] + 1 \in Nat
    BY OneMore
  <2> QED
    BY <1>5, <2>1 DEF N!Wait
<1>6. ASSUME NEW r \in NodeRuns, N!NoteWaiting(r) PROVE N!WaitType'
  BY <1>6 DEF N!NoteWaiting
<1>7. ASSUME NEW r \in NodeRuns, N!EndStep(r) PROVE N!WaitType'
  <2>1. \A n \in 1..2 : [i \in 1..n |-> "message"] \in Seq(N!Messages)
    BY <1>m, MessageFacts
  <2>2. (IF traffic[r] = 0 THEN 0 ELSE traffic[r] - 1) \in Nat
    OBVIOUS
  <2> QED
    BY <1>7, <2>1, <2>2 DEF N!EndStep
<1>8. ASSUME NEW r \in NodeRuns, N!Resume(r) PROVE N!WaitType'
  <2>1. Append(inbox[r], "answer") \in Seq(N!Messages)
    BY <1>m, MessageFacts
  <2> QED
    BY <1>8, <2>1 DEF N!Resume
<1>9. ASSUME NEW r \in NodeRuns, N!Abandon(r) PROVE N!WaitType'
  BY <1>9 DEF N!Abandon
<1>10. CASE UNCHANGED N!waitVars
  BY <1>10 DEF N!waitVars
<1>11. ASSUME NEW r \in NodeRuns, N!LetThrough(r) \/ N!Tick(r) \/ N!Wait(r)
       PROVE  at[r] = "read" /\ Tail(inbox[r]) \in Seq(N!Messages)
  BY <1>11, MessageFacts DEF N!LetThrough, N!Tick, N!Wait, N!HasMessage
<1> QED
  BY <1>11, <1>1, <1>2, <1>3, <1>4, <1>5, <1>6, <1>7, <1>8, <1>9, <1>10 DEF N!Next, N!Settled

\* The steps of one run leave those of the others alone; a message is read before it is handled.
LEMMA MessageStep == N!WaitType /\ N!HasMessage /\ [N!Next]_(N!waitVars) => N!HasMessage'
<1> SUFFICES ASSUME N!WaitType, N!HasMessage, [N!Next]_(N!waitVars) PROVE N!HasMessage'
  OBVIOUS
<1>1. at \in [NodeRuns -> {"fresh", "top", "step", "read", "set", "halted", "done", "gone"}]
         /\ inbox \in [NodeRuns -> Seq(N!Messages)]
  BY DEF N!WaitType
<1>2. ASSUME NEW r \in NodeRuns, NEW to, to # "read", at' = [at EXCEPT ![r] = to],
             NEW m, inbox' = [inbox EXCEPT ![r] = m]
      PROVE  N!HasMessage'
  BY <1>1, <1>2 DEF N!HasMessage
<1>3. ASSUME NEW r \in NodeRuns, NEW to, to # "read", at' = [at EXCEPT ![r] = to], UNCHANGED inbox
      PROVE  N!HasMessage'
  BY <1>1, <1>3 DEF N!HasMessage
<1> USE DEF N!Go
<1>4. ASSUME NEW r \in NodeRuns, N!Begin(r) PROVE N!HasMessage'
  <2>1. at' = [at EXCEPT ![r] = "top"] /\ inbox' = [inbox EXCEPT ![r] = <<"message">>]
    BY <1>4 DEF N!Begin
  <2> QED
    BY <1>2, <2>1, "top" # "read"
<1>5. ASSUME NEW r \in NodeRuns, N!LoopHead(r) PROVE N!HasMessage'
  <2>1. CASE at' = [at EXCEPT ![r] = "halted"] /\ UNCHANGED inbox
    BY <1>3, <2>1, "halted" # "read"
  <2>2. CASE \E to \in {"done", "step"}, due \in 0..pending[r] :
               at' = [at EXCEPT ![r] = to] /\ inbox' = [inbox EXCEPT ![r] = inbox[r] \o [i \in 1..due |-> "timer"]]
    <3>1. PICK to \in {"done", "step"}, due \in 0..pending[r] :
               at' = [at EXCEPT ![r] = to] /\ inbox' = [inbox EXCEPT ![r] = inbox[r] \o [i \in 1..due |-> "timer"]]
      BY <2>2
    <3>2. to # "read"
      OBVIOUS
    <3> QED
      BY <1>2, <3>1, <3>2
  <2> QED
    BY <1>5, <2>1, <2>2, Zenon DEF N!LoopHead
<1>6. ASSUME NEW r \in NodeRuns, N!ReadFlag(r) PROVE N!HasMessage'
  BY <1>1, <1>6 DEF N!ReadFlag, N!HasMessage
<1>7. ASSUME NEW r \in NodeRuns, N!LetThrough(r) \/ N!Tick(r) PROVE N!HasMessage'
  <2>1. at' = [at EXCEPT ![r] = "step"] /\ inbox' = [inbox EXCEPT ![r] = Tail(inbox[r])]
    BY <1>7, Zenon DEF N!LetThrough, N!Tick
  <2> QED
    BY <1>2, <2>1, "step" # "read"
<1>8. ASSUME NEW r \in NodeRuns, N!Wait(r) PROVE N!HasMessage'
  <2>1. /\ at' = [at EXCEPT ![r] = IF kind = "human" THEN "set" ELSE "step"]
        /\ inbox' = [inbox EXCEPT ![r] = Tail(inbox[r])]
    BY <1>8, Zenon DEF N!Wait
  <2> QED
    BY <1>2, <2>1, (IF kind = "human" THEN "set" ELSE "step") # "read"
<1>9. ASSUME NEW r \in NodeRuns, N!NoteWaiting(r) \/ N!Abandon(r) PROVE N!HasMessage'
  BY <1>1, <1>9 DEF N!NoteWaiting, N!Abandon, N!HasMessage
<1>10. ASSUME NEW r \in NodeRuns, N!EndStep(r) PROVE N!HasMessage'
  <2>1. at' = [at EXCEPT ![r] = IF detached[r] THEN "gone" ELSE "top"]
    BY <1>10 DEF N!EndStep
  <2>2. UNCHANGED inbox \/ \E n \in 1..2 : inbox' = [inbox EXCEPT ![r] = [i \in 1..n |-> "message"]]
    BY <1>10, Zenon DEF N!EndStep
  <2> QED
    BY <1>2, <1>3, <2>1, <2>2, (IF detached[r] THEN "gone" ELSE "top") # "read"
<1>11. ASSUME NEW r \in NodeRuns, N!Resume(r) PROVE N!HasMessage'
  <2>1. at' = [at EXCEPT ![r] = "top"]
    BY <1>11 DEF N!Resume
  <2>2. UNCHANGED inbox \/ inbox' = [inbox EXCEPT ![r] = Append(inbox[r], "answer")]
    BY <1>11, Zenon DEF N!Resume
  <2> QED
    BY <1>2, <1>3, <2>1, <2>2, "top" # "read"
<1>12. CASE UNCHANGED N!waitVars
  BY <1>12 DEF N!waitVars, N!HasMessage
<1> QED
  BY <1>4, <1>5, <1>6, <1>7, <1>8, <1>9, <1>10, <1>11, <1>12 DEF N!Next, N!Settled

LEMMA CronInit == N!WaitConstants /\ N!Init => N!CronCounted
<1> SUFFICES ASSUME N!WaitConstants, N!Init PROVE N!CronCounted
  OBVIOUS
<1>1. N!Passed = {}
  BY DEF N!Passed, N!Init
<1>2. MaxCron \in Nat /\ 0 < MaxCron /\ ticks = 0
  BY NodeSizes DEF N!WaitConstants, N!Init
<1> QED
  BY NodeSizes, <1>1, <1>2, FS_EmptySet DEF N!CronCounted

\* A trigger ticks once for each message it lets pass.
LEMMA CronStep ==
  N!WaitConstants /\ N!WaitType /\ kind = "cron" /\ N!CronCounted /\ [N!Next]_(N!waitVars) =>
     kind' = "cron" /\ N!CronCounted'
<1> SUFFICES ASSUME N!WaitConstants, N!WaitType, kind = "cron", N!CronCounted, [N!Next]_(N!waitVars)
             PROVE  kind' = "cron" /\ N!CronCounted'
  OBVIOUS
<1>0. /\ ticks \in Nat /\ let \in [NodeRuns -> Nat] /\ Cardinality(N!Passed) \in Nat /\ MaxCron \in Nat
  BY NodeSizes, FS_CardinalityType DEF N!WaitType, N!CronCounted, N!WaitConstants
<1>1. ASSUME NEW r \in NodeRuns, N!Tick(r) PROVE kind' = "cron" /\ N!CronCounted'
  <2>1. CASE UNCHANGED let
    <3>1. ticks' = ticks + 1 /\ kind' = "cron"
      BY <1>1 DEF N!Tick
    <3>2. N!Passed' = N!Passed
      BY <2>1 DEF N!Passed
    <3> QED
      BY NodeSizes, <1>0, <3>1, <3>2 DEF N!CronCounted
  <2>2. CASE ~UNCHANGED let
    <3>1. ticks' = ticks + 1 /\ kind' = "cron" /\ ticks' < MaxCron /\ let' = [let EXCEPT ![r] = let[r] + 1]
      BY <1>0, <1>1, <2>2 DEF N!Tick
    <3>2. N!Passed' = N!Passed \cup {<<r, let[r] + 1>>}
      <4>1. let[r] \in Nat /\ \A n \in Nat : 1..n + 1 = (1..n) \cup {n + 1}
        BY <1>0
      <4>2. \A q \in NodeRuns : {q} \X (1..let'[q]) =
               IF q = r THEN ({r} \X (1..let[r])) \cup {<<r, let[r] + 1>>} ELSE {q} \X (1..let[q])
        BY <1>0, <3>1, <4>1
      <4> QED
        BY <4>2 DEF N!Passed
    <3>3. Cardinality(N!Passed \cup {<<r, let[r] + 1>>}) <= Cardinality(N!Passed) + 1
             /\ IsFiniteSet(N!Passed \cup {<<r, let[r] + 1>>})
      BY NodeSizes, <1>0, FS_AddElement DEF N!CronCounted
    <3>4. Cardinality(N!Passed') \in Nat
      BY <3>2, <3>3, FS_CardinalityType
    <3> HIDE DEF N!Passed
    <3>5. IsFiniteSet(N!Passed') /\ Cardinality(N!Passed') <= Cardinality(N!Passed) + 1
      BY <3>2, <3>3
    <3> QED
      BY NodeSizes, <1>0, <3>1, <3>4, <3>5 DEF N!CronCounted
  <2> QED
    BY <2>1, <2>2
<1>2. CASE UNCHANGED <<kind, ticks, let>>
  BY NodeSizes, <1>2 DEF N!CronCounted, N!Passed
<1> QED
  BY <1>1, <1>2 DEF N!Next, N!Begin, N!LoopHead, N!ReadFlag, N!LetThrough, N!Wait, N!NoteWaiting, N!EndStep,
        N!Resume, N!Abandon, N!Settled, N!waitVars

\* What the variables of the run that takes a step hold after it is all there is to show.
CarefulInv == N!OneAtATime /\ N!WaitsForOne /\ N!AsksAhead
Attended == \A r \in NodeRuns : ~detached[r]

\* Where one run at a time is active, it is enough to look at that run.
LEMMA OneRun ==
  ASSUME N!WaitType, CarefulInv, NEW r \in NodeRuns,
         \A q \in NodeRuns : N!Active(q) => q = r,
         \A q \in NodeRuns : q # r =>
           /\ at'[q] = at[q] /\ inbox'[q] = inbox[q] /\ pending'[q] = pending[q] /\ halting'[q] = halting[q]
           /\ asked'[q] = asked[q] /\ let'[q] = let[q],
         kind' = kind, at'[r] \notin {"fresh", "gone"},
         N!Active(r)' => N!WaitsFor(r)', N!AsksOf(r)', ~N!Active(r)' => ~flag'
  PROVE  CarefulInv'
<1>1. \A q \in NodeRuns : q # r => ~N!Active(q) /\ ~N!Active(q)'
  BY DEF N!Active
<1>2. N!OneAtATime'
  <2>1. \A p, q \in NodeRuns : N!Active(p)' /\ N!Active(q)' => p = q
    BY <1>1
  <2>2. (\A q \in NodeRuns : ~N!Active(q)') => ~flag'
    OBVIOUS
  <2>3. \A q \in NodeRuns : at'[q] # "gone"
    BY DEF CarefulInv, N!OneAtATime
  <2>4. \A q \in NodeRuns : at'[q] = "fresh" =>
          inbox'[q] = <<>> /\ pending'[q] = 0 /\ asked'[q] = 0 /\ let'[q] = 0 /\ ~halting'[q]
    BY DEF CarefulInv, N!OneAtATime
  <2> QED
    BY <2>1, <2>2, <2>3, <2>4 DEF N!OneAtATime
<1>3. N!WaitsForOne'
  BY <1>1 DEF N!WaitsForOne
<1>4. N!AsksAhead'
  <2>1. ASSUME NEW q \in NodeRuns, q # r PROVE N!AsksOf(q)'
    BY <1>1, <2>1 DEF N!AsksOf, CarefulInv, N!AsksAhead
  <2> QED
    BY <2>1 DEF N!AsksAhead
<1> QED
  BY <1>2, <1>3, <1>4 DEF CarefulInv

LEMMA CarefulInit == N!WaitConstants /\ N!Init => CarefulInv
<1> SUFFICES ASSUME N!WaitConstants, N!Init PROVE CarefulInv
  OBVIOUS
<1>1. \A r \in NodeRuns : ~N!Active(r) /\ at[r] = "fresh"
  BY DEF N!Init, N!Active
<1> QED
  BY <1>1 DEF N!Init, CarefulInv, N!OneAtATime, N!WaitsForOne, N!AsksAhead, N!AsksOf

\* Where runs follow each other, a run waits for one message and asks first.
LEMMA CarefulStep ==
  N!WaitConstants /\ N!WaitType /\ N!HasMessage /\ careful /\ Attended /\ CarefulInv /\ [N!Next]_(N!waitVars) =>
     careful' /\ CarefulInv'
<1> SUFFICES ASSUME N!WaitConstants, N!WaitType, N!HasMessage, careful, Attended, CarefulInv, [N!Next]_(N!waitVars)
             PROVE  careful' /\ CarefulInv'
  OBVIOUS
<1>0. careful' = careful
  BY DEF N!Next, N!Begin, N!LoopHead, N!ReadFlag, N!LetThrough, N!Tick, N!Wait, N!NoteWaiting, N!EndStep,
        N!Resume, N!Abandon, N!Settled, N!waitVars
<1>t. /\ kind \in {"human", "timer", "signal", "cron"} /\ flag \in BOOLEAN
      /\ at \in [NodeRuns -> {"fresh", "top", "step", "read", "set", "halted", "done", "gone"}]
      /\ pending \in [NodeRuns -> Nat] /\ asked \in [NodeRuns -> Nat]
      /\ let \in [NodeRuns -> Nat] /\ seen \in [NodeRuns -> BOOLEAN] /\ halting \in [NodeRuns -> BOOLEAN]
      /\ detached \in [NodeRuns -> BOOLEAN] /\ inbox \in [NodeRuns -> Seq(N!Messages)]
  BY DEF N!WaitType
<1>m. /\ "message" \in N!Messages /\ "answer" \in N!Messages /\ "timer" \in N!Messages
  BY DEF N!Messages
<1>a. ASSUME NEW r \in NodeRuns, N!Active(r)
      PROVE  /\ \A q \in NodeRuns : N!Active(q) => q = r
             /\ N!WaitsFor(r) /\ N!AsksOf(r)
  BY <1>a DEF CarefulInv, N!OneAtATime, N!WaitsForOne, N!AsksAhead
<1>n. \A r \in NodeRuns : /\ Len(inbox[r]) \in Nat /\ pending[r] \in Nat /\ asked[r] \in Nat /\ let[r] \in Nat
                          /\ inbox[r] = <<>> <=> Len(inbox[r]) = 0
  BY <1>t, MessageFacts
<1> USE DEF N!Go
<1>1. ASSUME NEW r \in NodeRuns, N!Begin(r) PROVE CarefulInv'
  <2>1. /\ at' = [at EXCEPT ![r] = "top"] /\ inbox' = [inbox EXCEPT ![r] = <<"message">>]
        /\ UNCHANGED <<kind, careful, flag, ticks, seen, halting, pending, traffic, asked, let>>
    BY <1>1 DEF N!Begin
  <2>2. /\ \A q \in NodeRuns : ~N!Active(q)
        /\ ~flag /\ pending[r] = 0 /\ asked[r] = 0 /\ let[r] = 0 /\ ~halting[r]
    BY <1>1 DEF N!Begin, N!Active, CarefulInv, N!OneAtATime
  <2>3. at'[r] = "top" /\ inbox'[r] = <<"message">> /\ Len(<<"message">>) = 1
    BY <1>t, <2>1
  <2>4. N!Active(r)'
    BY <2>3 DEF N!Active
  <2>5. ~flag' /\ pending'[r] = 0 /\ ~halting'[r] /\ asked'[r] = 0 /\ let'[r] = 0 /\ Len(inbox'[r]) = 1
    BY <2>1, <2>2, <2>3
  <2>6. N!WaitsFor(r)'
    BY <2>3, <2>5 DEF N!WaitsFor
  <2>7. N!AsksOf(r)'
    BY <2>3, <2>5 DEF N!AsksOf
  <2> QED
    BY <1>t, <2>1, <2>2, <2>3, <2>4, <2>6, <2>7, OneRun
<1>2. ASSUME NEW r \in NodeRuns, N!LoopHead(r) PROVE CarefulInv'
  <2>1. N!Active(r) /\ at[r] = "top"
    BY <1>2 DEF N!LoopHead, N!Active
  <2>2. UNCHANGED <<kind, careful, ticks, seen, halting, traffic, asked, let>>
    BY <1>2 DEF N!LoopHead
  <2>3. CASE halting[r] /\ at' = [at EXCEPT ![r] = "halted"] /\ UNCHANGED <<inbox, pending, flag>>
    <3>1. at'[r] = "halted"
      BY <1>t, <2>3
    <3>2. N!WaitsFor(r)' /\ N!AsksOf(r)' /\ N!Active(r)'
      BY <1>a, <2>1, <2>2, <2>3, <3>1 DEF N!WaitsFor, N!AsksOf, N!Active
    <3> QED
      BY <1>a, <1>t, <2>1, <2>2, <2>3, <3>1, <3>2, OneRun
  <2>4. ASSUME ~halting[r], NEW due \in 0..pending[r],
               pending' = [pending EXCEPT ![r] = pending[r] - due],
               flag' = (flag \/ due > 0),
               inbox' = [inbox EXCEPT ![r] = inbox[r] \o [i \in 1..due |-> "timer"]],
               at' = [at EXCEPT ![r] = IF inbox'[r] = <<>> /\ traffic[r] = 0 THEN "done" ELSE "step"]
        PROVE  CarefulInv'
    <3> DEFINE g == inbox[r] \o [i \in 1..due |-> "timer"]
    <3>1. /\ due \in Nat /\ g \in Seq(N!Messages) /\ Len(g) = Len(inbox[r]) + due
          /\ Len(g) \in Nat /\ (g = <<>> <=> Len(g) = 0)
      <4>1. due \in Nat
        BY <1>n
      <4>2. [i \in 1..due |-> "timer"] \in Seq(N!Messages) /\ Len([i \in 1..due |-> "timer"]) = due
        BY <1>m, <4>1, MessageFacts
      <4>3. g \in Seq(N!Messages) /\ Len(g) = Len(inbox[r]) + due
        BY <1>t, <4>2, MessageFacts
      <4> QED
        BY <4>1, <4>3, MessageFacts
    <3>2. inbox'[r] = g /\ pending'[r] = pending[r] - due /\ at'[r] \in {"done", "step"}
      BY <1>t, <2>4
    <3>3. at'[r] = "done" => g = <<>>
      BY <1>t, <2>4, <3>2
    <3> HIDE DEF g
    <3>4. UNCHANGED <<kind, seen, halting, asked, let>> /\ N!WaitsFor(r) /\ N!AsksOf(r)
             /\ pending[r] + Len(inbox[r]) <= 1
      BY <1>a, <2>1, <2>2 DEF N!WaitsFor
    <3>f. (flag' <=> flag \/ due > 0) /\ (due = 0 \/ due > 0) /\ ~(due = 0 /\ due > 0)
      <4>1. flag' = (flag \/ due > 0)
        BY <2>4
      <4>2. flag' <=> flag \/ due > 0
        BY <1>t, <4>1, Zenon
      <4>3. (due = 0 \/ due > 0) /\ ~(due = 0 /\ due > 0)
        BY <3>1
      <4> QED
        BY <4>2, <4>3, Zenon
    <3>n. due \in 0..pending[r] /\ pending[r] \in Nat /\ Len(inbox[r]) \in Nat /\ asked[r] \in Nat /\ let[r] \in Nat
      BY <1>n
    <3>a. inbox[r] # <<>> => Len(inbox[r]) > 0
      BY <1>n
    <3>5. flag' => inbox'[r] # <<>>
      <4>1. CASE flag
        <5>1. inbox[r] # <<>>
          BY <2>4, <3>4, <4>1 DEF N!WaitsFor
        <5> QED
          BY <3>1, <3>2, <3>a, <3>n, <5>1
      <4>2. CASE ~flag
        BY <3>1, <3>2, <3>f, <3>n, <4>2
      <4> QED
        BY <4>1, <4>2
    <3>b. pending'[r] + Len(inbox'[r]) <= 1 /\ pending'[r] + due = pending[r] /\ pending'[r] \in Nat
      BY <1>n, <3>1, <3>2, <3>4
    <3>c. kind \in {"human", "signal"} => pending'[r] = 0 /\ due = 0 /\ (flag' <=> flag)
      <4>1. kind \in {"human", "signal"} => pending[r] = 0
        BY <3>4 DEF N!WaitsFor
      <4> QED
        BY <3>2, <3>f, <3>n, <4>1
    <3>6. N!WaitsFor(r)'
      <4>1. halting'[r] = halting[r] /\ kind' = kind
        BY <3>4
      <4> QED
        BY <1>t, <2>4, <3>2, <3>4, <3>5, <3>b, <3>c, <4>1 DEF N!WaitsFor
    <3>7. N!AsksOf(r)'
      <4>1. let'[r] = let[r] /\ asked'[r] = asked[r] /\ kind' = kind /\ at'[r] # "set" /\ at[r] # "set"
        BY <2>1, <3>2, <3>4
      <4>2. kind = "timer" => let[r] + pending'[r] + (IF flag' THEN 1 ELSE 0) <= asked[r]
        <5>1. kind = "timer" => let[r] + pending[r] + (IF flag THEN 1 ELSE 0) <= asked[r]
          BY <2>1, <3>4 DEF N!AsksOf
        <5>2. CASE flag'
          <6>1. flag \/ due >= 1
            BY <3>1, <3>f, <5>2
          <6>2. \A a, p, q, d, n \in Nat : q + d = p /\ a + p + 0 <= n /\ d >= 1 => a + q + 1 <= n
            OBVIOUS
          <6>3. \A a, p, q, d, n \in Nat : q + d = p /\ a + p + 1 <= n => a + q + 1 <= n
            OBVIOUS
          <6>4. pending'[r] + due = pending[r] /\ {pending[r], pending'[r], due, let[r], asked[r]} \subseteq Nat
            BY <3>1, <3>b, <3>n
          <6>5. CASE flag
            BY <5>1, <5>2, <6>3, <6>4, <6>5
          <6>6. CASE ~flag
            BY <5>1, <5>2, <6>1, <6>2, <6>4, <6>6
          <6> QED
            BY <6>5, <6>6
        <5>3. CASE ~flag'
          BY <3>1, <3>b, <3>f, <3>n, <5>1, <5>3
        <5> QED
          BY <5>2, <5>3
      <4>3. kind = "human" => let[r] + (IF flag' THEN 1 ELSE 0) <= asked[r]
        <5>1. kind = "human" => let[r] + (IF flag THEN 1 ELSE 0) <= asked[r]
          BY <2>1, <3>4 DEF N!AsksOf
        <5> QED
          BY <3>c, <5>1
      <4> QED
        BY <3>4, <4>1, <4>2, <4>3 DEF N!AsksOf
    <3>8. ~N!Active(r)' => ~flag'
      BY <3>2, <3>3, <3>5 DEF N!Active
    <3> QED
      BY <1>a, <1>t, <2>1, <2>2, <2>4, <3>2, <3>6, <3>7, <3>8, OneRun
  <2> QED
    BY <1>2, <2>3, <2>4 DEF N!LoopHead
<1>3. ASSUME NEW r \in NodeRuns, N!ReadFlag(r) PROVE CarefulInv'
  <2>1. N!Active(r) /\ at[r] = "step" /\ seen' = [seen EXCEPT ![r] = flag] /\ at' = [at EXCEPT ![r] = "read"]
    BY <1>3 DEF N!ReadFlag, N!Active
  <2>2. UNCHANGED <<kind, careful, flag, ticks, inbox, halting, pending, traffic, asked, let>>
    BY <1>3 DEF N!ReadFlag
  <2>3. at'[r] = "read" /\ (seen'[r] <=> flag)
    BY <1>t, <2>1
  <2>4. N!Active(r)'
    BY <2>3 DEF N!Active
  <2>5. N!WaitsFor(r) /\ N!AsksOf(r)
    BY <1>a, <2>1
  <2>6. N!WaitsFor(r)'
    BY <1>t, <2>2, <2>3, <2>5 DEF N!WaitsFor
  <2>7. N!AsksOf(r)'
    BY <1>n, <1>t, <2>1, <2>2, <2>3, <2>5 DEF N!AsksOf
  <2> QED
    BY <1>a, <1>t, <2>1, <2>2, <2>3, <2>4, <2>6, <2>7, OneRun
<1>r. ASSUME NEW r \in NodeRuns, N!LetThrough(r) \/ N!Tick(r) \/ N!Wait(r)
      PROVE  /\ N!Active(r) /\ at[r] = "read" /\ Len(inbox[r]) = 1 /\ pending[r] = 0
             /\ (seen[r] <=> flag) /\ ~halting[r]
             /\ inbox' = [inbox EXCEPT ![r] = Tail(inbox[r])] /\ Tail(inbox[r]) = <<>> /\ Len(<<>>) = 0
  <2>1. at[r] = "read" /\ inbox' = [inbox EXCEPT ![r] = Tail(inbox[r])]
    BY <1>r, Zenon DEF N!LetThrough, N!Tick, N!Wait
  <2>2. N!Active(r)
    BY <2>1 DEF N!Active
  <2>3. inbox[r] # <<>>
    BY <2>1 DEF N!HasMessage
  <2>4. Len(inbox[r]) = 1 /\ pending[r] = 0 /\ (seen[r] <=> flag) /\ ~halting[r]
    <3>1. N!WaitsFor(r)
      BY <1>a, <2>2
    <3>2. Len(inbox[r]) > 0
      BY <1>n, <2>3
    <3>3. Len(inbox[r]) = 1 /\ pending[r] = 0
      <4>1. Len(inbox[r]) \in Nat /\ pending[r] \in Nat
        BY <1>n
      <4>2. pending[r] + Len(inbox[r]) <= 1
        BY <3>1, Zenon DEF N!WaitsFor
      <4> QED
        <5>1. \A m, n \in Nat : m + n <= 1 /\ n > 0 => n = 1 /\ m = 0
          OBVIOUS
        <5> QED
          BY <3>2, <4>1, <4>2, <5>1
    <3> QED
      BY <2>1, <2>3, <3>1, <3>3 DEF N!WaitsFor
  <2>5. Tail(inbox[r]) \in Seq(N!Messages) /\ Len(Tail(inbox[r])) = 0 /\ Len(<<>>) = 0
    BY <1>t, <2>3, <2>4, MessageFacts
  <2>6. Tail(inbox[r]) = <<>>
    BY <2>5, MessageFacts
  <2> QED
    BY <2>1, <2>2, <2>4, <2>5, <2>6
<1>4. ASSUME NEW r \in NodeRuns, N!LetThrough(r) PROVE CarefulInv'
  <2>1. /\ seen[r] /\ kind # "cron" /\ flag' = FALSE /\ let' = [let EXCEPT ![r] = let[r] + 1]
        /\ at' = [at EXCEPT ![r] = "step"]
        /\ UNCHANGED <<kind, careful, ticks, seen, halting, pending, traffic, asked>>
    BY <1>4 DEF N!LetThrough
  <2>r. /\ N!Active(r) /\ at[r] = "read" /\ Len(inbox[r]) = 1 /\ pending[r] = 0 /\ (seen[r] <=> flag) /\ ~halting[r]
        /\ inbox' = [inbox EXCEPT ![r] = Tail(inbox[r])] /\ Tail(inbox[r]) = <<>> /\ Len(<<>>) = 0
    BY <1>r, <1>4
  <2>2. at'[r] = "step" /\ inbox'[r] = <<>> /\ let'[r] = let[r] + 1
    BY <1>t, <2>1, <2>r
  <2>3. N!Active(r)' /\ N!WaitsFor(r)'
    <3>1. /\ ~flag' /\ pending'[r] = 0 /\ Len(inbox'[r]) = 0 /\ ~halting'[r] /\ kind' = kind
          /\ N!Active(r)' /\ at'[r] = "step"
      BY <2>r, <2>1, <2>2 DEF N!Active
    <3> QED
      BY <3>1 DEF N!WaitsFor
  <2>4. N!AsksOf(r)'
    <3>1. /\ let'[r] = let[r] + 1 /\ asked'[r] = asked[r] /\ pending'[r] = 0 /\ ~flag' /\ at'[r] = "step"
          /\ kind' = kind /\ kind \in {"human", "timer"} /\ let[r] \in Nat /\ asked[r] \in Nat
      BY <1>a, <1>n, <1>t, <2>r, <2>1, <2>2 DEF N!WaitsFor
    <3>2. let[r] + 1 <= asked[r]
      BY <1>a, <2>r, <2>1, <3>1 DEF N!AsksOf
    <3> QED
      BY <3>1, <3>2 DEF N!AsksOf
  <2> QED
    BY <1>a, <1>t, <2>r, <2>1, <2>2, <2>3, <2>4, OneRun
<1>5. ASSUME NEW r \in NodeRuns, N!Tick(r) PROVE CarefulInv'
  <2>1. /\ kind = "cron" /\ flag' = FALSE /\ at' = [at EXCEPT ![r] = "step"]
        /\ UNCHANGED <<kind, careful, seen, halting, traffic>>
    BY <1>5 DEF N!Tick
  <2>2. \/ UNCHANGED <<pending, asked, let>>
        \/ /\ pending' = [pending EXCEPT ![r] = pending[r] + 1]
           /\ asked' = [asked EXCEPT ![r] = asked[r] + 1] /\ let' = [let EXCEPT ![r] = let[r] + 1]
    BY <1>5, Zenon DEF N!Tick
  <2>r. /\ N!Active(r) /\ at[r] = "read" /\ Len(inbox[r]) = 1 /\ pending[r] = 0 /\ (seen[r] <=> flag) /\ ~halting[r]
        /\ inbox' = [inbox EXCEPT ![r] = Tail(inbox[r])] /\ Tail(inbox[r]) = <<>> /\ Len(<<>>) = 0
    BY <1>r, <1>5
  <2>3. at'[r] = "step" /\ inbox'[r] = <<>>
    BY <1>t, <2>1, <2>r
  <2>4. /\ pending'[r] \in {0, 1} /\ let'[r] <= asked'[r]
        /\ \A q \in NodeRuns : q # r => pending'[q] = pending[q] /\ asked'[q] = asked[q] /\ let'[q] = let[q]
    BY <1>a, <1>n, <1>t, <2>r, <2>2 DEF N!AsksOf
  <2>5. N!Active(r)' /\ N!WaitsFor(r)'
    BY <2>r, <2>1, <2>3, <2>4 DEF N!WaitsFor, N!Active
  <2>6. N!AsksOf(r)'
    BY <2>1, <2>4 DEF N!AsksOf
  <2> QED
    BY <1>a, <1>t, <2>r, <2>1, <2>3, <2>4, <2>5, <2>6, OneRun
<1>6. ASSUME NEW r \in NodeRuns, N!Wait(r) PROVE CarefulInv'
  <2>1. /\ ~flag /\ asked' = [asked EXCEPT ![r] = asked[r] + 1]
        /\ at' = [at EXCEPT ![r] = IF kind = "human" THEN "set" ELSE "step"]
        /\ UNCHANGED <<kind, careful, flag, ticks, seen, traffic, let>>
    BY <1>r, <1>6 DEF N!Wait
  <2>2. /\ kind \in {"timer", "cron"} => pending' = [pending EXCEPT ![r] = pending[r] + 1] /\ UNCHANGED halting
        /\ kind \notin {"timer", "cron"} => halting' = [halting EXCEPT ![r] = TRUE] /\ UNCHANGED pending
    BY <1>6, Zenon DEF N!Wait
  <2>r. /\ N!Active(r) /\ at[r] = "read" /\ Len(inbox[r]) = 1 /\ pending[r] = 0 /\ (seen[r] <=> flag) /\ ~halting[r]
        /\ inbox' = [inbox EXCEPT ![r] = Tail(inbox[r])] /\ Tail(inbox[r]) = <<>> /\ Len(<<>>) = 0
    BY <1>r, <1>6
  <2>3. /\ at'[r] = IF kind = "human" THEN "set" ELSE "step"
        /\ inbox'[r] = <<>> /\ asked'[r] = asked[r] + 1
    BY <1>t, <2>1, <2>r
  <2>4. /\ kind \in {"timer", "cron"} => pending'[r] = 1 /\ ~halting'[r]
        /\ kind \in {"human", "signal"} => pending'[r] = 0 /\ halting'[r]
        /\ \A q \in NodeRuns : q # r => pending'[q] = pending[q] /\ halting'[q] = halting[q]
    BY <1>t, <2>r, <2>2
  <2>5. N!Active(r)' /\ N!WaitsFor(r)'
    <3>1. /\ ~flag' /\ Len(inbox'[r]) = 0 /\ inbox'[r] = <<>> /\ kind' = kind
          /\ N!Active(r)' /\ at'[r] = IF kind = "human" THEN "set" ELSE "step"
      BY <2>r, <2>1, <2>3 DEF N!Active
    <3>2. pending'[r] \in {0, 1}
      BY <1>t, <2>4
    <3> QED
      BY <1>t, <2>4, <3>1, <3>2 DEF N!WaitsFor
  <2>6. N!AsksOf(r)'
    <3>1. /\ let'[r] = let[r] /\ asked'[r] = asked[r] + 1 /\ kind' = kind /\ ~flag'
          /\ asked[r] \in Nat /\ let[r] \in Nat /\ let[r] <= asked[r]
      BY <1>a, <1>n, <2>1, <2>3, <2>r DEF N!AsksOf
    <3>2. kind = "timer" => pending'[r] = 1
      BY <2>4
    <3>3. kind = "signal" => let[r] = 0
      BY <1>a, <2>r DEF N!AsksOf
    <3> QED
      BY <3>1, <3>2, <3>3 DEF N!AsksOf
  <2> QED
    BY <1>a, <1>t, <2>r, <2>1, <2>3, <2>4, <2>5, <2>6, OneRun
<1>7. ASSUME NEW r \in NodeRuns, N!NoteWaiting(r) PROVE CarefulInv'
  <2>1. /\ N!Active(r) /\ at[r] = "set" /\ flag' = TRUE /\ at' = [at EXCEPT ![r] = "step"]
        /\ UNCHANGED <<kind, careful, ticks, inbox, seen, halting, pending, traffic, asked, let>>
    BY <1>7 DEF N!NoteWaiting, N!Active
  <2>2. at'[r] = "step" /\ kind = "human"
    BY <1>a, <1>t, <2>1 DEF N!WaitsFor
  <2>3. N!WaitsFor(r)' /\ N!AsksOf(r)' /\ N!Active(r)'
    BY <1>a, <2>1, <2>2 DEF N!WaitsFor, N!AsksOf, N!Active
  <2> QED
    BY <1>a, <1>t, <2>1, <2>2, <2>3, OneRun
<1>8. ASSUME NEW r \in NodeRuns, N!EndStep(r) PROVE CarefulInv'
  <2>1. /\ N!Active(r) /\ at[r] = "step" /\ at' = [at EXCEPT ![r] = "top"] /\ UNCHANGED inbox
        /\ UNCHANGED <<kind, careful, flag, ticks, seen, halting, pending, asked, let>>
    BY <1>8 DEF N!EndStep, N!Active, Attended
  <2>2. at'[r] = "top"
    BY <1>t, <2>1
  <2>3. N!WaitsFor(r)' /\ N!AsksOf(r)' /\ N!Active(r)'
    BY <1>a, <2>1, <2>2 DEF N!WaitsFor, N!AsksOf, N!Active
  <2> QED
    BY <1>a, <1>t, <2>1, <2>2, <2>3, OneRun
<1>9. ASSUME NEW r \in NodeRuns, N!Resume(r) PROVE CarefulInv'
  <2>1. /\ N!Active(r) /\ at[r] = "halted" /\ at' = [at EXCEPT ![r] = "top"]
        /\ inbox' = [inbox EXCEPT ![r] = Append(inbox[r], "answer")]
        /\ halting' = [halting EXCEPT ![r] = FALSE]
        /\ UNCHANGED <<kind, careful, flag, ticks, seen, pending, traffic, asked, let>>
    BY <1>9 DEF N!Resume, N!Active
  <2>2. /\ at'[r] = "top" /\ ~halting'[r] /\ inbox'[r] = Append(inbox[r], "answer")
    BY <1>t, <2>1
  <2>3. halting[r] /\ inbox[r] = <<>> /\ kind \in {"human", "signal"} /\ pending[r] = 0
    BY <1>a, <1>t, <2>1 DEF N!WaitsFor
  <2>4. Append(inbox[r], "answer") \in Seq(N!Messages) /\ Len(Append(inbox[r], "answer")) = 1
    BY <1>m, <1>n, <1>t, <2>3, MessageFacts
  <2>5. inbox'[r] # <<>> /\ Len(inbox'[r]) = 1
    BY <2>2, <2>4, MessageFacts
  <2>6. N!WaitsFor(r)' /\ N!AsksOf(r)' /\ N!Active(r)'
    BY <1>a, <2>1, <2>2, <2>3, <2>5 DEF N!WaitsFor, N!AsksOf, N!Active
  <2> QED
    BY <1>a, <1>t, <2>1, <2>2, <2>6, OneRun
<1>10. CASE UNCHANGED N!waitVars
  BY <1>10 DEF N!waitVars, CarefulInv, N!OneAtATime, N!WaitsForOne, N!AsksAhead, N!WaitsFor, N!AsksOf, N!Active
<1> QED
  BY <1>0, <1>1, <1>2, <1>3, <1>4, <1>5, <1>6, <1>7, <1>8, <1>9, <1>10 DEF N!Next, N!Settled, N!Abandon

\* Where every run is answered, none is left by its loop.
LEMMA AttendedStep == N!WaitType /\ careful /\ Attended /\ [N!Next]_(N!waitVars) => Attended'
<1> SUFFICES ASSUME N!WaitType, careful, Attended, [N!Next]_(N!waitVars) PROVE Attended'
  OBVIOUS
<1>1. detached' = detached
  BY DEF N!Next, N!Begin, N!LoopHead, N!ReadFlag, N!LetThrough, N!Tick, N!Wait, N!NoteWaiting, N!EndStep,
        N!Resume, N!Abandon, N!Settled, N!waitVars
<1> QED
  BY <1>1 DEF Attended

\* What has come is a finite set, that grows with what has come of each run.
LEMMA CameFacts ==
  ASSUME N!WaitConstants, N!WaitType, N!FlagsCounted
  PROVE  /\ IsFiniteSet(N!Came) /\ Cardinality(N!Came) \in Nat
         /\ \A r \in NodeRuns : N!Come(r) \in Nat
<1>1. \A r \in NodeRuns : N!Come(r) \in Nat /\ N!Come(r) <= asked[r] /\ asked[r] <= MaxAsks
  <2> SUFFICES ASSUME NEW r \in NodeRuns
               PROVE  N!Come(r) \in Nat /\ N!Come(r) <= asked[r] /\ asked[r] <= MaxAsks
    OBVIOUS
  <2>1. asked[r] \in Nat /\ pending[r] \in Nat
    BY DEF N!WaitType
  <2>2. N!Come(r) >= 0 /\ asked[r] <= MaxAsks
    BY DEF N!FlagsCounted
  <2> QED
    BY <2>1, <2>2 DEF N!Come
<1>2. MaxAsks \in Nat /\ IsFiniteSet(NodeRuns)
  BY NodeSizes DEF N!WaitConstants
<1>3. N!Came \subseteq NodeRuns \X (1..MaxAsks)
  <2> SUFFICES ASSUME NEW c \in N!Came PROVE c \in NodeRuns \X (1..MaxAsks)
    OBVIOUS
  <2>1. PICK r \in NodeRuns : c \in {r} \X (1..N!Come(r))
    BY DEF N!Came
  <2>2. asked[r] \in Nat /\ N!Come(r) \in Nat /\ N!Come(r) <= asked[r] /\ asked[r] <= MaxAsks
    BY <1>1 DEF N!WaitType
  <2>3. 1..N!Come(r) \subseteq 1..MaxAsks
    BY <1>2, <2>2
  <2> QED
    BY <2>1, <2>3
<1>4. IsFiniteSet(1..MaxAsks)
  BY <1>2, FS_Interval
<1>5. IsFiniteSet(NodeRuns \X (1..MaxAsks))
  BY <1>2, <1>4, FS_Product
<1>6. IsFiniteSet(N!Came)
  BY <1>3, <1>5, FS_Subset
<1> QED
  BY <1>1, <1>6, FS_CardinalityType

LEMMA CameGrows ==
  ASSUME IsFiniteSet(N!Came), IsFiniteSet(N!Came'),
         \A q \in NodeRuns : N!Come(q) \in Nat /\ N!Come(q)' \in Nat /\ N!Come(q) <= N!Come(q)'
  PROVE  /\ Cardinality(N!Came) <= Cardinality(N!Came')
         /\ \A r \in NodeRuns : N!Come(r) < N!Come(r)' => Cardinality(N!Came) + 1 <= Cardinality(N!Came')
<1>1. N!Came \subseteq N!Came'
  <2> SUFFICES ASSUME NEW c \in N!Came PROVE c \in N!Came'
    OBVIOUS
  <2>1. PICK r \in NodeRuns : c \in {r} \X (1..N!Come(r))
    BY DEF N!Came
  <2>2. 1..N!Come(r) \subseteq 1..N!Come(r)'
    OBVIOUS
  <2>3. c \in {r} \X (1..N!Come(r)')
    BY <2>1, <2>2
  <2> QED
    BY <2>3 DEF N!Came
<1>2. /\ Cardinality(N!Came) \in Nat /\ Cardinality(N!Came') \in Nat
      /\ Cardinality(N!Came) <= Cardinality(N!Came')
      /\ Cardinality(N!Came) = Cardinality(N!Came') => N!Came = N!Came'
  BY <1>1, FS_Subset, FS_CardinalityType
<1>3. ASSUME NEW r \in NodeRuns, N!Come(r) < N!Come(r)' PROVE N!Came # N!Came'
  <2> DEFINE c == <<r, N!Come(r) + 1>>
  <2>1. N!Come(r) + 1 \in 1..N!Come(r)' /\ N!Come(r) + 1 \notin 1..N!Come(r)
    BY <1>3
  <2>2. c \in N!Came'
    BY <2>1 DEF N!Came
  <2>3. c \notin N!Came
    BY <2>1 DEF N!Came
  <2> QED
    BY <2>2, <2>3
<1> QED
  BY <1>2, <1>3

\* What a run may let through next is covered by what has come.
LEMMA FlagsKept ==
  ASSUME N!WaitConstants, N!WaitType, N!WaitType', N!FlagsCounted,
         \A q \in NodeRuns : N!Come(q) <= N!Come(q)' /\ asked'[q] <= MaxAsks,
         \/ \A q \in NodeRuns : \/ let'[q] = let[q] /\ (N!LetsNext(q)' => N!LetsNext(q))
                                \/ let'[q] = let[q] + 1 /\ N!LetsNext(q) /\ ~N!LetsNext(q)'
         \/ /\ \E r \in NodeRuns : N!Come(r) < N!Come(r)'
            /\ \A q \in NodeRuns : let'[q] = let[q]
  PROVE  N!FlagsCounted'
<1>1. \A q \in NodeRuns : N!Come(q) \in Nat /\ N!Come(q)' \in Int
  <2>1. \A q \in NodeRuns : N!Come(q) \in Nat
    BY CameFacts
  <2>2. \A q \in NodeRuns : asked'[q] \in Int /\ pending'[q] \in Int
    BY DEF N!WaitType
  <2> QED
    BY <2>1, <2>2 DEF N!Come
<1>2. \A q \in NodeRuns : N!Come(q)' >= 0 /\ N!Come(q)' \in Nat
  BY <1>1
<1>3. IsFiniteSet(N!Came) /\ Cardinality(N!Came) \in Nat
  BY CameFacts
<1>4. IsFiniteSet(N!Came') /\ Cardinality(N!Came') \in Nat
  <2>1. MaxAsks \in Nat /\ IsFiniteSet(NodeRuns)
    BY NodeSizes DEF N!WaitConstants
  <2>2. N!Came' \subseteq NodeRuns \X (1..MaxAsks)
    <3> SUFFICES ASSUME NEW c \in N!Came' PROVE c \in NodeRuns \X (1..MaxAsks)
      OBVIOUS
    <3>1. PICK r \in NodeRuns : c \in {r} \X (1..N!Come(r)')
      BY DEF N!Came
    <3>2. N!Come(r)' <= asked'[r] /\ asked'[r] \in Nat
      BY <1>2 DEF N!Come, N!WaitType
    <3>3. 1..N!Come(r)' \subseteq 1..MaxAsks
      BY <1>2, <2>1, <3>2
    <3> QED
      BY <3>1, <3>3
  <2>3. IsFiniteSet(NodeRuns \X (1..MaxAsks))
    <3>1. IsFiniteSet(1..MaxAsks)
      BY <2>1, FS_Interval
    <3> QED
      BY <2>1, <3>1, FS_Product
  <2> QED
    BY <2>2, <2>3, FS_Subset, FS_CardinalityType
<1>5. /\ Cardinality(N!Came) <= Cardinality(N!Came')
      /\ \A r \in NodeRuns : N!Come(r) < N!Come(r)' => Cardinality(N!Came) + 1 <= Cardinality(N!Came')
  BY <1>1, <1>2, <1>3, <1>4, CameGrows
<1> DEFINE c == Cardinality(N!Came)
<1> DEFINE d == Cardinality(N!Came')
<1>6. ASSUME NEW q \in NodeRuns PROVE let'[q] + (IF N!LetsNext(q)' THEN 1 ELSE 0) <= d
  <2>1. let[q] \in Nat /\ let[q] + (IF N!LetsNext(q) THEN 1 ELSE 0) <= c /\ c \in Nat /\ d \in Nat /\ c <= d
    BY <1>3, <1>4, <1>5, NodeSizes DEF N!WaitType, N!FlagsCounted
  <2> HIDE DEF c, d
  <2>2. CASE let'[q] = let[q] /\ (N!LetsNext(q)' => N!LetsNext(q))
    BY <2>1, <2>2
  <2>3. CASE let'[q] = let[q] + 1 /\ N!LetsNext(q) /\ ~N!LetsNext(q)'
    BY <2>1, <2>3
  <2>4. CASE let'[q] = let[q] /\ c + 1 <= d
    BY <2>1, <2>4
  <2> QED
    BY <1>5, <2>2, <2>3, <2>4 DEF c, d
<1> QED
  BY <1>2, <1>6, NodeSizes DEF N!FlagsCounted

LEMMA FlagsInit == N!WaitConstants /\ N!Init => N!FlagsCounted
<1> SUFFICES ASSUME N!WaitConstants, N!Init PROVE N!FlagsCounted
  OBVIOUS
<1>1. MaxAsks \in Nat /\ IsFiniteSet(NodeRuns)
  BY NodeSizes DEF N!WaitConstants
<1>2. \A r \in NodeRuns : N!Come(r) = 0 /\ asked[r] = 0 /\ let[r] = 0 /\ ~N!LetsNext(r)
  BY DEF N!Init, N!Come, N!LetsNext
<1>3. N!Came = {}
  BY <1>2 DEF N!Came
<1>4. Cardinality(N!Came) = 0
  BY <1>3, FS_EmptySet
<1> QED
  BY <1>1, <1>2, <1>4, NodeSizes DEF N!FlagsCounted

LEMMA FlagsStep ==
  N!WaitConstants /\ N!WaitType /\ N!WaitType' /\ N!FlagsCounted /\ [N!Next]_(N!waitVars) => N!FlagsCounted'
<1> SUFFICES ASSUME N!WaitConstants, N!WaitType, N!WaitType', N!FlagsCounted, [N!Next]_(N!waitVars)
             PROVE  N!FlagsCounted'
  OBVIOUS
<1>t. /\ flag \in BOOLEAN /\ seen \in [NodeRuns -> BOOLEAN]
      /\ at \in [NodeRuns -> {"fresh", "top", "step", "read", "set", "halted", "done", "gone"}]
      /\ pending \in [NodeRuns -> Nat] /\ asked \in [NodeRuns -> Nat] /\ let \in [NodeRuns -> Nat]
      /\ MaxAsks \in Nat /\ \A q \in NodeRuns : asked[q] <= MaxAsks
  BY NodeSizes DEF N!WaitType, N!FlagsCounted, N!WaitConstants
<1> USE DEF N!Go, N!Come, N!LetsNext
<1>1. ASSUME NEW r \in NodeRuns, N!Begin(r) PROVE N!FlagsCounted'
  <2>1. /\ at[r] = "fresh" /\ at' = [at EXCEPT ![r] = "top"]
        /\ UNCHANGED <<flag, seen, pending, asked, let>>
    BY <1>1 DEF N!Begin
  <2> QED
    BY <1>t, <2>1, FlagsKept
<1>2. ASSUME NEW r \in NodeRuns, N!LoopHead(r) PROVE N!FlagsCounted'
  <2>1. at[r] = "top" /\ UNCHANGED <<seen, asked, let>>
    BY <1>2 DEF N!LoopHead
  <2>2. CASE at' = [at EXCEPT ![r] = "halted"] /\ UNCHANGED <<pending, flag>>
    BY <1>t, <2>1, <2>2, FlagsKept
  <2>3. ASSUME NEW due \in 0..pending[r], NEW to \in {"done", "step"},
               pending' = [pending EXCEPT ![r] = pending[r] - due],
               flag' = (flag \/ due > 0), at' = [at EXCEPT ![r] = to]
        PROVE  N!FlagsCounted'
    <3>1. pending[r] \in Nat /\ due \in Nat
      BY <1>t
    <3>2. /\ pending'[r] = pending[r] - due /\ at'[r] = to
          /\ \A q \in NodeRuns : q # r => pending'[q] = pending[q] /\ at'[q] = at[q]
      BY <1>t, <2>3
    <3>3. \A q \in NodeRuns : N!Come(q)' = IF q = r THEN N!Come(q) + due ELSE N!Come(q)
      BY <1>t, <2>1, <3>1, <3>2
    <3>4. CASE due = 0
      <4>1. flag' = flag
        BY <1>t, <2>3, <3>4
      <4>2. \A q \in NodeRuns : let'[q] = let[q] /\ (N!LetsNext(q)' => N!LetsNext(q))
        BY <1>t, <2>1, <2>3, <3>2, <4>1
      <4> QED
        <5>1. \A q \in NodeRuns : N!Come(q) <= N!Come(q)' /\ asked'[q] <= MaxAsks
          BY <1>t, <2>1, <3>3, <3>4
        <5> HIDE DEF N!Come, N!LetsNext
        <5> QED
          BY <4>2, <5>1, FlagsKept
    <3>5. CASE due # 0
      <4>1. N!Come(r) < N!Come(r)'
        BY <1>t, <3>1, <3>3, <3>5
      <4> QED
        <5>1. \A q \in NodeRuns : N!Come(q) <= N!Come(q)' /\ asked'[q] <= MaxAsks /\ let'[q] = let[q]
          BY <1>t, <2>1, <3>1, <3>3
        <5> HIDE DEF N!Come, N!LetsNext
        <5> QED
          BY <4>1, <5>1, FlagsKept
    <3> QED
      BY <3>4, <3>5
  <2> QED
    BY <1>2, <2>2, <2>3 DEF N!LoopHead
<1>3. ASSUME NEW r \in NodeRuns, N!ReadFlag(r) PROVE N!FlagsCounted'
  <2>1. /\ at[r] = "step" /\ at' = [at EXCEPT ![r] = "read"] /\ seen' = [seen EXCEPT ![r] = flag]
        /\ UNCHANGED <<flag, pending, asked, let>>
    BY <1>3 DEF N!ReadFlag
  <2> QED
    BY <1>t, <2>1, FlagsKept
<1>4. ASSUME NEW r \in NodeRuns, N!LetThrough(r) \/ N!Tick(r) PROVE N!FlagsCounted'
  <2>1. at[r] = "read" /\ seen[r] /\ flag' = FALSE /\ at' = [at EXCEPT ![r] = "step"] /\ UNCHANGED seen
    BY <1>4, Zenon DEF N!LetThrough, N!Tick
  <2>2. \/ UNCHANGED <<pending, asked, let>>
        \/ let' = [let EXCEPT ![r] = let[r] + 1] /\ UNCHANGED <<pending, asked>>
        \/ /\ let' = [let EXCEPT ![r] = let[r] + 1] /\ asked[r] < MaxAsks
           /\ pending' = [pending EXCEPT ![r] = pending[r] + 1] /\ asked' = [asked EXCEPT ![r] = asked[r] + 1]
    BY <1>4, Zenon DEF N!LetThrough, N!Tick
  <2>3. \A q \in NodeRuns : N!Come(q)' = N!Come(q) /\ asked'[q] <= MaxAsks
    BY <1>t, <2>1, <2>2
  <2>4. \A q \in NodeRuns : \/ let'[q] = let[q] /\ (N!LetsNext(q)' => N!LetsNext(q))
                            \/ let'[q] = let[q] + 1 /\ N!LetsNext(q) /\ ~N!LetsNext(q)'
    BY <1>t, <2>1, <2>2
  <2>5. \A q \in NodeRuns : N!Come(q) <= N!Come(q)'
    BY <1>t, <2>3
  <2> QED
    BY <2>3, <2>4, <2>5, FlagsKept
<1>5. ASSUME NEW r \in NodeRuns, N!Wait(r) PROVE N!FlagsCounted'
  <2>1. /\ at[r] = "read" /\ ~seen[r] /\ asked[r] < MaxAsks /\ asked' = [asked EXCEPT ![r] = asked[r] + 1]
        /\ at' = [at EXCEPT ![r] = IF kind = "human" THEN "set" ELSE "step"]
        /\ UNCHANGED <<kind, flag, seen, let>>
    BY <1>5 DEF N!Wait
  <2>2. /\ kind \in {"timer", "cron"} => pending' = [pending EXCEPT ![r] = pending[r] + 1]
        /\ kind \notin {"timer", "cron"} => UNCHANGED pending
    BY <1>5, Zenon DEF N!Wait
  <2>3. \A q \in NodeRuns : N!Come(q) <= N!Come(q)' /\ asked'[q] <= MaxAsks
    <3>1. \A q \in NodeRuns : q # r => N!Come(q)' = N!Come(q) /\ asked'[q] = asked[q]
      BY <1>t, <2>1, <2>2
    <3>2. asked'[r] = asked[r] + 1 /\ at'[r] = IF kind = "human" THEN "set" ELSE "step"
      BY <1>t, <2>1
    <3>3. pending'[r] = IF kind \in {"timer", "cron"} THEN pending[r] + 1 ELSE pending[r]
      BY <1>t, <2>2
    <3>4. N!Come(r) <= N!Come(r)' /\ asked'[r] <= MaxAsks
      BY <1>t, <2>1, <3>2, <3>3
    <3> QED
      BY <1>t, <3>1, <3>4
  <2>4. \A q \in NodeRuns : let'[q] = let[q] /\ (N!LetsNext(q)' => N!LetsNext(q))
    BY <1>t, <2>1
  <2> QED
    BY <2>3, <2>4, FlagsKept
<1>6. ASSUME NEW r \in NodeRuns, N!NoteWaiting(r) PROVE N!FlagsCounted'
  <2>1. /\ at[r] = "set" /\ at' = [at EXCEPT ![r] = "step"]
        /\ UNCHANGED <<seen, pending, asked, let>>
    BY <1>6 DEF N!NoteWaiting
  <2>2. \A q \in NodeRuns : N!Come(q)' = IF q = r THEN N!Come(q) + 1 ELSE N!Come(q)
    BY <1>t, <2>1
  <2>3. N!Come(r) < N!Come(r)' /\ \A q \in NodeRuns : N!Come(q) <= N!Come(q)'
    BY <1>t, <2>2
  <2> QED
    BY <1>t, <2>1, <2>3, FlagsKept
<1>7. ASSUME NEW r \in NodeRuns, N!EndStep(r) \/ N!Resume(r) \/ N!Abandon(r) PROVE N!FlagsCounted'
  <2>1. UNCHANGED <<flag, seen, pending, asked, let>>
    BY <1>7 DEF N!EndStep, N!Resume, N!Abandon
  <2>2. \A q \in NodeRuns : at'[q] = at[q] \/ (at[q] # "set" /\ at'[q] \in {"top", "gone"})
    BY <1>7, <1>t DEF N!EndStep, N!Resume, N!Abandon
  <2> QED
    BY <1>t, <2>1, <2>2, FlagsKept
<1>8. CASE UNCHANGED N!waitVars
  <2>1. UNCHANGED <<flag, seen, pending, asked, let, at>>
    BY <1>8 DEF N!waitVars
  <2> QED
    BY <1>t, <2>1, FlagsKept
<1> QED
  BY <1>1, <1>2, <1>3, <1>4, <1>5, <1>6, <1>7, <1>8 DEF N!Next, N!Settled

\* The invariant of the nodes that wait.
LEMMA WaitInit == N!WaitConstants /\ N!Init => N!WaitInv
<1> SUFFICES ASSUME N!WaitConstants, N!Init PROVE N!WaitInv
  OBVIOUS
<1>1. N!HasMessage /\ Attended
  BY DEF N!HasMessage, N!Init, Attended
<1> QED
  BY <1>1, WaitTypeInit, FlagsInit, CarefulInit, CronInit DEF N!WaitInv, CarefulInv, Attended

LEMMA WaitStep == N!WaitConstants /\ N!WaitInv /\ [N!Next]_(N!waitVars) => N!WaitInv'
<1> SUFFICES ASSUME N!WaitConstants, N!WaitInv, [N!Next]_(N!waitVars) PROVE N!WaitInv'
  OBVIOUS
<1>1. /\ N!WaitType /\ N!HasMessage /\ N!FlagsCounted /\ (careful => Attended /\ CarefulInv)
      /\ (kind = "cron" => N!CronCounted)
  BY DEF N!WaitInv, CarefulInv, Attended
<1>2. careful' = careful /\ kind' = kind
  BY DEF N!Next, N!Begin, N!LoopHead, N!ReadFlag, N!LetThrough, N!Tick, N!Wait, N!NoteWaiting, N!EndStep,
        N!Resume, N!Abandon, N!Settled, N!waitVars
<1>3. N!WaitType' /\ N!HasMessage'
  BY <1>1, WaitTypeStep, MessageStep
<1>4. careful' => Attended' /\ CarefulInv'
  BY <1>1, <1>2, AttendedStep, CarefulStep
<1>5. kind' = "cron" => N!CronCounted'
  BY <1>1, <1>2, CronStep
<1>6. N!FlagsCounted'
  BY <1>1, <1>3, FlagsStep
<1> QED
  BY <1>3, <1>4, <1>5, <1>6 DEF N!WaitInv, CarefulInv, Attended

LEMMA WaitSafe == N!WaitConstants /\ N!WaitInv => N!NodesWait
<1> SUFFICES ASSUME N!WaitConstants, N!WaitInv PROVE N!NodesWait
  OBVIOUS
<1>1. N!WaitingIsOwn
  BY DEF N!WaitInv, N!WaitingIsOwn, N!AsksAhead, N!AsksOf, N!OneAtATime, N!Active
<1>2. N!FlagsAreAsked
  <2>1. N!WaitType /\ N!FlagsCounted
    BY DEF N!WaitInv
  <2>2. \A r \in NodeRuns : N!Come(r) \in Nat /\ N!Come(r) <= asked[r] /\ asked[r] \in Nat
    <3> SUFFICES ASSUME NEW r \in NodeRuns
                 PROVE  N!Come(r) \in Nat /\ N!Come(r) <= asked[r] /\ asked[r] \in Nat
      OBVIOUS
    <3>1. N!Come(r) \in Nat
      BY <2>1, CameFacts
    <3>2. asked[r] \in Nat /\ pending[r] \in Nat
      BY <2>1 DEF N!WaitType
    <3> QED
      BY <3>1, <3>2 DEF N!Come
  <2>3. N!Came \subseteq N!Asked
    <3> SUFFICES ASSUME NEW c \in N!Came PROVE c \in N!Asked
      OBVIOUS
    <3>1. PICK r \in NodeRuns : c \in {r} \X (1..N!Come(r))
      BY DEF N!Came
    <3>2. 1..N!Come(r) \subseteq 1..asked[r]
      BY <2>2
    <3>3. c \in {r} \X (1..asked[r])
      BY <3>1, <3>2
    <3> QED
      BY <3>3 DEF N!Asked
  <2>4. N!Asked \subseteq NodeRuns \X (1..MaxAsks) /\ MaxAsks \in Nat /\ IsFiniteSet(NodeRuns)
    <3>1. MaxAsks \in Nat /\ IsFiniteSet(NodeRuns) /\ \A r \in NodeRuns : asked[r] <= MaxAsks
      BY <2>1, NodeSizes DEF N!WaitConstants, N!FlagsCounted
    <3> SUFFICES ASSUME NEW c \in N!Asked PROVE c \in NodeRuns \X (1..MaxAsks)
      BY <3>1
    <3>2. PICK r \in NodeRuns : c \in {r} \X (1..asked[r])
      BY DEF N!Asked
    <3>3. 1..asked[r] \subseteq 1..MaxAsks
      BY <2>2, <3>1
    <3> QED
      BY <3>2, <3>3
  <2>5. IsFiniteSet(N!Asked)
    <3>1. IsFiniteSet(1..MaxAsks)
      BY <2>4, FS_Interval
    <3>2. IsFiniteSet(NodeRuns \X (1..MaxAsks))
      BY <2>4, <3>1, FS_Product
    <3> QED
      BY <2>4, <3>2, FS_Subset
  <2>6. /\ Cardinality(N!Came) <= Cardinality(N!Asked)
        /\ Cardinality(N!Came) \in Nat /\ Cardinality(N!Asked) \in Nat
    BY <2>3, <2>5, FS_Subset, FS_CardinalityType
  <2>7. \A r \in NodeRuns : let[r] \in Nat /\ let[r] <= Cardinality(N!Came)
    <3>1. \A r \in NodeRuns : let[r] + (IF N!LetsNext(r) THEN 1 ELSE 0) <= Cardinality(N!Came)
      BY <2>1, NodeSizes DEF N!FlagsCounted
    <3>2. \A r \in NodeRuns : let[r] \in Nat
      BY <2>1 DEF N!WaitType
    <3> SUFFICES ASSUME NEW r \in NodeRuns PROVE let[r] <= Cardinality(N!Came)
      BY <3>2
    <3> DEFINE more == IF N!LetsNext(r) THEN 1 ELSE 0
    <3>3. let[r] + more <= Cardinality(N!Came) /\ more \in {0, 1}
      BY <3>1
    <3> HIDE DEF more
    <3> QED
      BY <2>6, <3>2, <3>3
  <2> QED
    BY <2>6, <2>7, NodeSizes DEF N!FlagsAreAsked
<1> QED
  BY NodeSizes, <1>1, <1>2 DEF N!WaitInv, N!NodesWait, N!CronBounded, N!CronCounted

-----------------------------------------------------------------------------
(* The services.                                                          *)

P == INSTANCE WorkflowPro WITH MaxSteps <- MaxSagaSteps, at <- stepAt, results <- stepResults

\* The instance's sizes are those of the theorems about finite sets.
LEMMA ReceiverSizes == \A S : P!Cardinality(S) = Cardinality(S) /\ (P!IsFiniteSet(S) <=> IsFiniteSet(S))
<1>1. \A S : P!Cardinality(S) = Cardinality(S)
  BY DEF P!Cardinality, Cardinality
<1>2. \A S : P!IsFiniteSet(S) <=> IsFiniteSet(S)
  BY DEF P!IsFiniteSet, IsFiniteSet
<1> QED
  BY <1>1, <1>2

\* A sequence and one element more.
LEMMA GrownBy ==
  ASSUME NEW S, NEW s \in Seq(S), NEW x \in S
  PROVE  /\ Append(s, x) \in Seq(S) /\ Len(s) \in Nat /\ Len(Append(s, x)) = Len(s) + 1 /\ Append(s, x) # <<>>
         /\ DOMAIN s = 1..Len(s) /\ DOMAIN Append(s, x) = 1..Len(s) + 1
         /\ \A i \in 1..Len(s) : Append(s, x)[i] = s[i] /\ s[i] \in S
         /\ Append(s, x)[Len(s) + 1] = x
<1>1. Append(s, x) \in Seq(S) /\ Len(Append(s, x)) = Len(s) + 1 /\ Append(s, x)[Len(s) + 1] = x
      /\ \A i \in 1..Len(s) : Append(s, x)[i] = s[i]
  BY AppendProperties
<1>2. Len(s) \in Nat /\ DOMAIN s = 1..Len(s) /\ \A i \in 1..Len(s) : s[i] \in S
  BY LenProperties, ElementOfSeq
<1>3. DOMAIN Append(s, x) = 1..Len(s) + 1
  BY <1>1, LenProperties
<1>4. Append(s, x) # <<>>
  BY <1>1, <1>2, EmptySeq
<1> QED
  BY <1>1, <1>2, <1>3, <1>4

\* A sequence of what it holds.
LEMMA SeqOfElements ==
  ASSUME NEW S, NEW n \in Nat, NEW f \in [1..n -> S]
  PROVE  f \in Seq(S)
  BY SeqDef

\* The last element and those before it.
LEMMA LastAndFront ==
  ASSUME NEW S, NEW s \in Seq(S), s # <<>>
  PROVE  /\ Len(s) \in Nat \ {0} /\ DOMAIN s = 1..Len(s)
         /\ P!Last(s) = s[Len(s)] /\ P!Last(s) \in S
         /\ P!Front(s) \in Seq(S) /\ Len(P!Front(s)) = Len(s) - 1 /\ DOMAIN P!Front(s) = 1..Len(s) - 1
         /\ \A i \in 1..Len(s) - 1 : P!Front(s)[i] = s[i]
         /\ P!Front(s) = <<>> <=> Len(s) = 1
<1>1. Len(s) \in Nat \ {0} /\ DOMAIN s = 1..Len(s) /\ \A i \in 1..Len(s) : s[i] \in S
  BY EmptySeq, LenProperties, ElementOfSeq
<1>2. P!Last(s) = s[Len(s)] /\ P!Last(s) \in S
  BY <1>1 DEF P!Last
<1> DEFINE n == Len(s) - 1
<1>3. n \in Nat /\ \A i \in 1..n : s[i] \in S
  BY <1>1
<1>4. SubSeq(s, 1, n) \in Seq(S) /\ Len(SubSeq(s, 1, n)) = n /\ \A i \in 1..n : SubSeq(s, 1, n)[i] = s[i]
  <2>1. CASE n = 0
    <3>1. SubSeq(s, 1, n) = <<>>
      BY <2>1, <1>1
    <3> QED
      BY <2>1, <3>1, EmptySeq
  <2>2. CASE n # 0
    <3>1. 1 \in 1..Len(s) /\ n \in 1..Len(s) /\ n - 1 + 1 = n /\ \A i \in 1..n : 1 + i - 1 = i
      BY <1>1, <1>3, <2>2
    <3> HIDE DEF n
    <3> QED
      BY <1>1, <1>3, <2>2, <3>1, SubSeqProperties
  <2> QED
    BY <2>1, <2>2
<1>5. P!Front(s) = SubSeq(s, 1, n)
  BY DEF P!Front
<1> HIDE DEF n
<1>6. DOMAIN P!Front(s) = 1..n /\ (P!Front(s) = <<>> <=> n = 0)
  BY <1>3, <1>4, <1>5, LenProperties, EmptySeq
<1> QED
  BY <1>1, <1>2, <1>4, <1>5, <1>6 DEF n

(* Sagas.                                                                   *)

SagaInv == P!SagaType /\ P!StepsInOrder /\ P!SagaProgress

\* What the invariant says of the lengths that its steps depend on.
LEMMA SagaFacts ==
  ASSUME P!ProConstants, SagaInv
  PROVE  /\ MaxSagaSteps \in Nat /\ P!SagaOver = MaxSagaSteps + 2 /\ P!SagaOver \in Nat
         /\ Len(undoable) \in Nat /\ DOMAIN undoable = 1..Len(undoable) /\ Len(undoable) <= MaxSagaSteps
         /\ Len(ran) \in Nat /\ DOMAIN ran = 1..Len(ran) /\ Len(completed) \in Nat /\ stepAt \in Nat
         /\ DOMAIN completed = 1..Len(completed) /\ (completed = <<>> <=> Len(completed) = 0)
         /\ (ran = <<>> <=> Len(ran) = 0) /\ DOMAIN stepResults = 1..Len(stepResults) /\ Len(stepResults) \in Nat
         /\ (stepResults = <<>> <=> Len(stepResults) = 0)
<1> USE DEF SagaInv, P!SagaType
<1>1. MaxSagaSteps \in Nat /\ P!SagaOver = MaxSagaSteps + 2
  BY DEF P!ProConstants, P!SagaOver
<1>2. /\ Len(undoable) \in Nat /\ DOMAIN undoable = 1..Len(undoable)
      /\ Len(ran) \in Nat /\ DOMAIN ran = 1..Len(ran) /\ Len(completed) \in Nat
      /\ DOMAIN completed = 1..Len(completed) /\ DOMAIN stepResults = 1..Len(stepResults) /\ Len(stepResults) \in Nat
  BY LenProperties
<1>3. /\ (completed = <<>> <=> Len(completed) = 0) /\ (ran = <<>> <=> Len(ran) = 0)
      /\ (stepResults = <<>> <=> Len(stepResults) = 0)
  BY EmptySeq
<1> QED
  BY <1>1, <1>2, <1>3

\* A step that runs is fed by one before it.
LEMMA FedFacts ==
  ASSUME P!ProConstants, SagaInv, stepAt \in DOMAIN undoable
  PROVE  /\ Len(ran) = stepAt - 1 /\ undone = <<>> /\ stepAt \in 1..Len(undoable) /\ stepAt \in Nat
         /\ (IF stepResults = <<>> THEN 0 ELSE P!Last(stepResults)) \in 0..stepAt - 1
<1>1. stepAt \in 1..Len(undoable) /\ stepAt \in 1..Len(undoable) + 1 /\ stepAt \in Nat
  BY SagaFacts
<1>2. Len(ran) = stepAt - 1 /\ undone = <<>>
  BY <1>1 DEF SagaInv, P!SagaProgress
<1>3. stepResults # <<>> => P!Last(stepResults) \in 1..Len(ran)
  <2>1. stepResults # <<>> => Len(stepResults) \in DOMAIN stepResults
    BY SagaFacts
  <2> QED
    BY <2>1 DEF SagaInv, P!StepsInOrder, P!Last
<1> QED
  BY <1>1, <1>2, <1>3

\* Steps run in order.
LEMMA OrderStep == P!ProConstants /\ SagaInv /\ (P!RunStep \/ P!StepFails) => P!StepsInOrder' /\ P!SagaType'
<1> SUFFICES ASSUME P!ProConstants, SagaInv, P!RunStep \/ P!StepFails PROVE P!StepsInOrder' /\ P!SagaType'
  OBVIOUS
<1> DEFINE fed == IF stepResults = <<>> THEN 0 ELSE P!Last(stepResults)
<1>1. stepAt \in DOMAIN undoable /\ ran' = Append(ran, <<stepAt, fed>>) /\ UNCHANGED <<policy, undoable, undone>>
  BY DEF P!RunStep, P!StepFails
<1>2. Len(ran) = stepAt - 1 /\ stepAt \in 1..Len(undoable) /\ stepAt \in Nat /\ fed \in 0..stepAt - 1 /\ fed \in Nat
  BY <1>1, FedFacts
<1> HIDE DEF fed
<1>3. <<stepAt, fed>> \in Nat \X Nat /\ <<stepAt, fed>>[1] = stepAt /\ <<stepAt, fed>>[2] = fed
  BY <1>2
<1>4. /\ ran' \in Seq(Nat \X Nat) /\ Len(ran)' = stepAt /\ DOMAIN ran' = 1..stepAt
      /\ \A i \in 1..stepAt - 1 : ran'[i] = ran[i]
      /\ ran'[stepAt] = <<stepAt, fed>>
  <2>1. ran \in Seq(Nat \X Nat) /\ Len(ran) + 1 = stepAt
    BY <1>2 DEF SagaInv, P!SagaType
  <2>2. /\ Append(ran, <<stepAt, fed>>) \in Seq(Nat \X Nat) /\ Len(Append(ran, <<stepAt, fed>>)) = Len(ran) + 1
        /\ DOMAIN Append(ran, <<stepAt, fed>>) = 1..Len(ran) + 1
        /\ \A i \in 1..Len(ran) : Append(ran, <<stepAt, fed>>)[i] = ran[i]
        /\ Append(ran, <<stepAt, fed>>)[Len(ran) + 1] = <<stepAt, fed>>
    BY <1>3, <2>1, GrownBy
  <2> QED
    BY <1>1, <1>2, <2>1, <2>2
<1>5. \A i \in DOMAIN ran' : ran'[i][1] = i /\ ran'[i][2] < i
  <2> TAKE i \in DOMAIN ran'
  <2>1. CASE i = stepAt
    BY <1>2, <1>3, <1>4, <2>1
  <2>2. CASE i # stepAt
    <3>1. i \in 1..stepAt - 1 /\ i \in DOMAIN ran
      BY <1>2, <1>4, <2>2, SagaFacts
    <3> QED
      BY <1>4, <3>1 DEF SagaInv, P!StepsInOrder
  <2> QED
    BY <2>1, <2>2
<1>6. stepResults' \in Seq(Nat) /\ \A i \in DOMAIN stepResults' : stepResults'[i] \in 1..stepAt
  <2>1. stepResults \in Seq(Nat) /\ \A i \in DOMAIN stepResults : stepResults[i] \in 1..stepAt - 1
    BY <1>2 DEF SagaInv, P!StepsInOrder, P!SagaType
  <2>2. CASE stepResults' = stepResults
    BY <1>2, <2>1, <2>2
  <2>3. CASE stepResults' = Append(stepResults, stepAt)
    <3>1. /\ Append(stepResults, stepAt) \in Seq(Nat) /\ DOMAIN stepResults = 1..Len(stepResults)
             /\ Len(stepResults) \in Nat
          /\ DOMAIN Append(stepResults, stepAt) = 1..Len(stepResults) + 1
          /\ \A i \in 1..Len(stepResults) : Append(stepResults, stepAt)[i] = stepResults[i]
          /\ Append(stepResults, stepAt)[Len(stepResults) + 1] = stepAt
      BY <1>2, <2>1, GrownBy
    <3> QED
      BY <1>2, <2>1, <2>3, <3>1
  <2> QED
    BY <2>2, <2>3 DEF P!RunStep, P!StepFails
<1>7. completed' \in Seq(Nat) /\ stepAt' \in Nat
  <2>1. completed \in Seq(Nat) /\ Append(completed, stepAt) \in Seq(Nat)
    BY <1>2, AppendProperties DEF SagaInv, P!SagaType
  <2>2. stepAt + 1 \in Nat /\ 0 \in Nat
    BY <1>2
  <2> QED
    BY <2>1, <2>2 DEF P!RunStep, P!StepFails, P!UndoFrom
<1>8. P!StepsInOrder'
  BY <1>4, <1>5, <1>6 DEF P!StepsInOrder
<1>9. P!SagaType'
  BY <1>1, <1>4, <1>6, <1>7 DEF SagaInv, P!SagaType
<1> QED
  BY <1>8, <1>9

\* A step that completes is the last of those to undo.
LEMMA RunProgress == P!ProConstants /\ SagaInv /\ P!RunStep => P!SagaProgress'
<1> SUFFICES ASSUME P!ProConstants, SagaInv, P!RunStep PROVE P!SagaProgress'
  OBVIOUS
<1>1. /\ stepAt \in DOMAIN undoable /\ completed' = Append(completed, stepAt) /\ stepAt' = stepAt + 1
      /\ UNCHANGED <<policy, undoable, undone>> /\ \E x : ran' = Append(ran, <<stepAt, x>>)
  BY DEF P!RunStep
<1>2. /\ Len(ran) = stepAt - 1 /\ undone = <<>> /\ stepAt \in 1..Len(undoable) /\ stepAt \in Nat
      /\ stepAt \in 1..Len(undoable) + 1 /\ stepAt + 1 # 0 /\ stepAt + 1 # P!SagaOver
         /\ stepAt + 1 \in 1..Len(undoable) + 1
  BY <1>1, FedFacts, SagaFacts, SMTT(30)
<1>3. Len(ran)' = stepAt
  <2>1. Len(ran) \in Nat /\ \A x : Len(Append(ran, x)) = Len(ran) + 1
    BY SagaFacts, AppendProperties DEF SagaInv, P!SagaType
  <2> QED
    BY <1>1, <1>2, <2>1
<1>4. policy = "backward" => Len(completed)' = stepAt /\ \A i \in DOMAIN completed' : completed'[i] = i
  <2> SUFFICES ASSUME policy = "backward"
               PROVE  Len(completed)' = stepAt /\ \A i \in DOMAIN completed' : completed'[i] = i
    OBVIOUS
  <2>1. completed \in Seq(Nat) /\ Len(completed) + 1 = stepAt /\ \A i \in 1..Len(completed) : completed[i] = i
    <3>1. Len(completed) = stepAt - 1 /\ \A i \in DOMAIN completed : completed[i] = i
      BY <1>2 DEF SagaInv, P!SagaProgress
    <3>2. completed \in Seq(Nat) /\ DOMAIN completed = 1..Len(completed)
      BY SagaFacts DEF SagaInv, P!SagaType
    <3> QED
      BY <1>2, <3>1, <3>2, SMTT(30)
  <2>2. /\ Len(completed) \in Nat /\ Len(Append(completed, stepAt)) = Len(completed) + 1
        /\ DOMAIN Append(completed, stepAt) = 1..Len(completed) + 1
        /\ \A i \in 1..Len(completed) : Append(completed, stepAt)[i] = completed[i]
        /\ Append(completed, stepAt)[Len(completed) + 1] = stepAt
    BY <1>2, <2>1, GrownBy
  <2> QED
    BY <1>1, <2>1, <2>2
<1>5. /\ stepAt' # 0 /\ stepAt' # P!SagaOver' /\ stepAt' \in 1..Len(undoable)' + 1
         /\ Len(ran)' = stepAt' - 1 /\ undone' = <<>>
      /\ policy' = "backward" => Len(completed)' = stepAt' - 1 /\ \A i \in DOMAIN completed' : completed'[i] = i
  BY <1>1, <1>2, <1>3, <1>4 DEF P!SagaOver
<1>6. stepAt' \in (0..Len(undoable) + 1 \cup {P!SagaOver})'
  BY <1>1, <1>2, SagaFacts DEF P!SagaOver
<1> QED
  BY <1>5, <1>6 DEF P!SagaProgress

\* A failed step is passed over or begins the way back.
LEMMA FailProgress == P!ProConstants /\ SagaInv /\ P!StepFails => P!SagaProgress'
<1> SUFFICES ASSUME P!ProConstants, SagaInv, P!StepFails PROVE P!SagaProgress'
  OBVIOUS
<1>1. /\ stepAt \in DOMAIN undoable /\ UNCHANGED <<policy, undoable, undone, stepResults>>
      /\ completed' = completed /\ \E x : ran' = Append(ran, <<stepAt, x>>)
      /\ stepAt' = IF policy = "forward" THEN stepAt + 1 ELSE 0
  BY DEF P!StepFails, P!UndoFrom
<1>2. /\ Len(ran) = stepAt - 1 /\ undone = <<>> /\ stepAt \in 1..Len(undoable) /\ stepAt \in Nat
      /\ stepAt \in 1..Len(undoable) + 1 /\ stepAt + 1 # 0 /\ stepAt + 1 # P!SagaOver
         /\ stepAt + 1 \in 1..Len(undoable) + 1
      /\ P!SagaOver # 0
  BY <1>1, FedFacts, SagaFacts, SMTT(30)
<1>3. Len(ran)' = stepAt /\ ran' # <<>>
  <2>1. Len(ran) \in Nat /\ \A x : Len(Append(ran, x)) = Len(ran) + 1
    BY SagaFacts, AppendProperties DEF SagaInv, P!SagaType
  <2>2. Len(ran)' = stepAt /\ Len(<<>>) = 0
    BY <1>1, <1>2, <2>1
  <2> QED
    BY <1>2, <2>2
<1>4. CASE policy = "forward"
  <2>1. /\ policy' = "forward" /\ stepAt' # 0 /\ Len(ran)' = stepAt' - 1 /\ undone' = <<>> /\ policy' # "backward"
    BY <1>1, <1>2, <1>3, <1>4
  <2>2. stepAt' \in (0..Len(undoable) + 1 \cup {P!SagaOver})'
    BY <1>1, <1>2, <1>4, SagaFacts DEF P!SagaOver
  <2> QED
    BY <2>1, <2>2 DEF P!SagaProgress
<1>5. CASE policy = "backward"
  <2>1. Len(completed) = stepAt - 1 /\ \A i \in DOMAIN completed : completed[i] = i
    BY <1>2, <1>5 DEF SagaInv, P!SagaProgress
  <2>2. /\ stepAt' = 0 /\ policy' = "backward" /\ 0 \notin 1..Len(undoable)' + 1
           /\ 0 \in (0..Len(undoable) + 1 \cup {P!SagaOver})'
    BY <1>1, <1>2, <1>5, SagaFacts
  <2>3. ran' # <<>> /\ Len(ran)' <= Len(undoable)' /\ Len(completed)' < Len(ran)'
    BY <1>1, <1>2, <1>3, <2>1
  <2>4. P!ToSet(undone)' = {i \in Len(completed)' + 1..Len(ran)' - 1 : undoable'[i]}
    <3>1. DOMAIN <<>> = {}
      OBVIOUS
    <3>2. P!ToSet(undone)' = {}
      BY <1>1, <1>2, <3>1 DEF P!ToSet
    <3>3. \A i \in Len(completed)' + 1..Len(ran)' - 1 : FALSE
      BY <1>1, <1>2, <1>3, <2>1
    <3> QED
      BY <3>2, <3>3
  <2>5. \A i, j \in DOMAIN undone' : i < j => undone'[j] < undone'[i]
    BY <1>1, <1>2
  <2>6. \A i \in DOMAIN completed' : completed'[i] = i
    BY <1>1, <2>1
  <2> QED
    BY <2>2, <2>3, <2>4, <2>5, <2>6 DEF P!SagaProgress
<1> QED
  BY <1>4, <1>5 DEF SagaInv, P!SagaType

\* On the way back the next step to undo comes before all that were undone.
LEMMA UndoProgress == P!ProConstants /\ SagaInv /\ P!Undo => SagaInv'
<1> SUFFICES ASSUME P!ProConstants, SagaInv, P!Undo PROVE SagaInv'
  OBVIOUS
<1> DEFINE c == Len(completed)
<1>1. /\ stepAt = 0 /\ completed # <<>> /\ completed' = P!Front(completed)
      /\ undone' = IF undoable[P!Last(completed)] THEN Append(undone, P!Last(completed)) ELSE undone
      /\ UNCHANGED <<policy, undoable, stepAt, stepResults, ran>>
  BY DEF P!Undo
<1>2. /\ policy = "backward" /\ \A i \in DOMAIN completed : completed[i] = i
      /\ ran # <<>> /\ Len(ran) <= Len(undoable) /\ c < Len(ran)
      /\ P!ToSet(undone) = {i \in c + 1..Len(ran) - 1 : undoable[i]}
      /\ \A i, j \in DOMAIN undone : i < j => undone[j] < undone[i]
  BY <1>1 DEF SagaInv, P!SagaProgress
<1>3. completed \in Seq(Nat) /\ undone \in Seq(Nat) /\ undoable \in Seq(BOOLEAN)
  BY DEF SagaInv, P!SagaType
<1>4. /\ c \in Nat \ {0} /\ P!Last(completed) = c /\ completed' \in Seq(Nat) /\ Len(completed)' = c - 1
      /\ DOMAIN completed' = 1..c - 1 /\ \A i \in 1..c - 1 : completed'[i] = i
  <2>1. /\ c \in Nat \ {0} /\ DOMAIN completed = 1..c /\ P!Last(completed) = completed[c]
        /\ P!Front(completed) \in Seq(Nat) /\ Len(P!Front(completed)) = c - 1 /\ DOMAIN P!Front(completed) = 1..c - 1
        /\ \A i \in 1..c - 1 : P!Front(completed)[i] = completed[i]
    BY <1>1, <1>3, LastAndFront
  <2>2. \A i \in 1..c : completed[i] = i
    BY <1>2, <2>1
  <2> HIDE DEF c
  <2>3. c \in 1..c /\ \A i \in 1..c - 1 : i \in 1..c
    BY <2>1
  <2> QED
    BY <1>1, <2>1, <2>2, <2>3 DEF c
<1>5. Len(ran) \in Nat /\ Len(undone) \in Nat /\ DOMAIN undone = 1..Len(undone)
  BY <1>3, SagaFacts, LenProperties
<1> HIDE DEF c
<1>6. /\ undone' \in Seq(Nat)
      /\ P!ToSet(undone)' = {i \in c..Len(ran) - 1 : undoable[i]}
      /\ \A i, j \in DOMAIN undone' : i < j => undone'[j] < undone'[i]
  <2>0. c \in c..Len(ran) - 1 /\ c..Len(ran) - 1 = {c} \cup (c + 1..Len(ran) - 1) /\ c \in Nat
    BY <1>2, <1>4, <1>5
  <2>1. CASE undoable[c]
    <3>1. undone' = Append(undone, c)
      BY <1>1, <1>4, <2>1
    <3>2. /\ Append(undone, c) \in Seq(Nat) /\ DOMAIN Append(undone, c) = 1..Len(undone) + 1
          /\ \A i \in 1..Len(undone) : Append(undone, c)[i] = undone[i]
          /\ Append(undone, c)[Len(undone) + 1] = c
      BY <1>3, <2>0, GrownBy
    <3>3. \A i \in 1..Len(undone) : undone[i] \in c + 1..Len(ran) - 1
      <4>1. \A i \in 1..Len(undone) : undone[i] \in P!ToSet(undone)
        BY <1>5 DEF P!ToSet
      <4> QED
        BY <1>2, <4>1
    <3>4. P!ToSet(undone)' = P!ToSet(undone) \cup {c}
      <4>1. 1..Len(undone) + 1 = (1..Len(undone)) \cup {Len(undone) + 1}
        BY <1>5
      <4>2. P!ToSet(undone) = {undone[i] : i \in 1..Len(undone)}
        BY <1>5 DEF P!ToSet
      <4>3. P!ToSet(undone)' = {undone'[i] : i \in (1..Len(undone)) \cup {Len(undone) + 1}}
        BY <3>1, <3>2, <4>1 DEF P!ToSet
      <4> QED
        BY <3>1, <3>2, <4>2, <4>3
    <3>5. P!ToSet(undone)' = {i \in c..Len(ran) - 1 : undoable[i]}
      BY <1>2, <2>0, <2>1, <3>4
    <3>6. \A i, j \in DOMAIN undone' : i < j => undone'[j] < undone'[i]
      <4> SUFFICES ASSUME NEW i \in 1..Len(undone) + 1, NEW j \in 1..Len(undone) + 1, i < j
                   PROVE  undone'[j] < undone'[i]
        BY <3>1, <3>2
      <4>1. i \in 1..Len(undone) /\ undone'[i] = undone[i]
        BY <1>5, <3>1, <3>2
      <4>2. CASE j = Len(undone) + 1
        <5>1. undone'[j] = c /\ undone[i] \in c + 1..Len(ran) - 1 /\ c \in Nat
          BY <1>4, <3>1, <3>2, <3>3, <4>1, <4>2
        <5> QED
          BY <1>5, <4>1, <5>1
      <4>3. CASE j # Len(undone) + 1
        <5>1. j \in 1..Len(undone) /\ undone'[j] = undone[j]
          BY <1>5, <3>1, <3>2, <4>3
        <5> QED
          BY <1>2, <1>5, <4>1, <5>1
      <4> QED
        BY <4>2, <4>3
    <3> QED
      BY <3>1, <3>2, <3>5, <3>6
  <2>2. CASE ~undoable[c]
    <3>1. undone' = undone
      BY <1>1, <1>4, <2>2
    <3>2. P!ToSet(undone)' = P!ToSet(undone)
      BY <3>1 DEF P!ToSet
    <3> QED
      BY <1>2, <1>3, <2>0, <2>2, <3>1, <3>2
  <2> QED
    BY <2>1, <2>2
<1>7. P!SagaType'
  BY <1>1, <1>4, <1>6 DEF SagaInv, P!SagaType
<1>8. P!StepsInOrder'
  BY <1>1 DEF SagaInv, P!StepsInOrder
<1>9. P!SagaProgress'
  <2>1. /\ stepAt' = 0 /\ policy' = "backward" /\ 0 \notin 1..Len(undoable)' + 1
           /\ 0 \in (0..Len(undoable) + 1 \cup {P!SagaOver})'
    BY <1>1, <1>2, SagaFacts
  <2>2. ran' # <<>> /\ Len(ran)' <= Len(undoable)' /\ Len(completed)' < Len(ran)'
    BY <1>1, <1>2, <1>4, <1>5 DEF c
  <2>3. P!ToSet(undone)' = {i \in Len(completed)' + 1..Len(ran)' - 1 : undoable'[i]}
    <3>1. Len(completed)' + 1 = c
      BY <1>4
    <3> QED
      BY <1>1, <1>6, <3>1
  <2>4. \A i \in DOMAIN completed' : completed'[i] = i
    BY <1>4
  <2> QED
    BY <1>6, <2>1, <2>2, <2>3, <2>4 DEF P!SagaProgress
<1> QED
  BY <1>7, <1>8, <1>9 DEF SagaInv

LEMMA ReturnProgress == P!ProConstants /\ SagaInv /\ P!SagaReturns => SagaInv'
<1> SUFFICES ASSUME P!ProConstants, SagaInv, P!SagaReturns PROVE SagaInv'
  OBVIOUS
<1>1. /\ (stepAt = 0 /\ completed = <<>>) \/ stepAt = Len(undoable) + 1
      /\ stepAt' = P!SagaOver /\ UNCHANGED <<policy, undoable, stepResults, completed, ran, undone>>
  BY DEF P!SagaReturns
<1>2. P!SagaType' /\ P!StepsInOrder'
  BY <1>1, SagaFacts DEF SagaInv, P!SagaType, P!StepsInOrder
<1>3. P!SagaProgress'
  <2>1. /\ stepAt' = P!SagaOver /\ P!SagaOver' = P!SagaOver /\ P!SagaOver \notin 1..Len(undoable)' + 1
           /\ P!SagaOver # 0
    BY <1>1, SagaFacts DEF P!SagaOver
  <2>2. policy' = "backward" => \A i \in DOMAIN completed' : completed'[i] = i
    BY <1>1 DEF SagaInv, P!SagaProgress
  <2>3. ASSUME policy' = "backward", completed' = <<>>, ran' # <<>>
        PROVE  /\ Len(ran)' <= Len(undoable)' /\ Len(completed)' < Len(ran)'
               /\ P!ToSet(undone)' = {i \in Len(completed)' + 1..Len(ran)' - 1 : undoable'[i]}
               /\ \A i, j \in DOMAIN undone' : i < j => undone'[j] < undone'[i]
    <3>1. stepAt = 0
      <4> SUFFICES ASSUME stepAt = Len(undoable) + 1 PROVE FALSE
        BY <1>1
      <4>1. stepAt \in 1..Len(undoable) + 1
        BY SagaFacts
      <4>2. Len(ran) = stepAt - 1 /\ Len(completed) = stepAt - 1
        BY <1>1, <2>3, <4>1 DEF SagaInv, P!SagaProgress
      <4> QED
        BY <1>1, <2>3, <4>2, SagaFacts
    <3>2. /\ Len(ran) <= Len(undoable) /\ Len(completed) < Len(ran)
          /\ P!ToSet(undone) = {i \in Len(completed) + 1..Len(ran) - 1 : undoable[i]}
          /\ \A i, j \in DOMAIN undone : i < j => undone[j] < undone[i]
      BY <1>1, <2>3, <3>1 DEF SagaInv, P!SagaProgress
    <3> QED
      BY <1>1, <3>2 DEF P!ToSet
  <2> QED
    BY <2>1, <2>2, <2>3 DEF P!SagaProgress
<1> QED
  BY <1>2, <1>3 DEF SagaInv

LEMMA SagaStep == P!ProConstants /\ SagaInv /\ (P!Saga \/ UNCHANGED P!sagaVars) => SagaInv'
<1> SUFFICES ASSUME P!ProConstants, SagaInv, P!Saga \/ UNCHANGED P!sagaVars PROVE SagaInv'
  OBVIOUS
<1>1. CASE P!RunStep
  BY <1>1, OrderStep, RunProgress DEF SagaInv
<1>2. CASE P!StepFails
  BY <1>2, OrderStep, FailProgress DEF SagaInv
<1>3. CASE P!Undo
  BY <1>3, UndoProgress
<1>4. CASE P!SagaReturns
  BY <1>4, ReturnProgress
<1>5. CASE UNCHANGED P!sagaVars
  <2>1. UNCHANGED <<policy, undoable, stepAt, stepResults, completed, ran, undone>>
    BY <1>5 DEF P!sagaVars
  <2>2. P!SagaType'
    BY <2>1 DEF SagaInv, P!SagaType
  <2>3. P!StepsInOrder'
    BY <2>1 DEF SagaInv, P!StepsInOrder
  <2>4. P!ToSet(undone)' = P!ToSet(undone) /\ P!SagaOver' = P!SagaOver
    BY <2>1 DEF P!ToSet, P!SagaOver
  <2>5. P!SagaProgress'
    BY <2>1, <2>4 DEF SagaInv, P!SagaProgress
  <2> QED
    BY <2>2, <2>3, <2>5 DEF SagaInv
<1> QED
  BY <1>1, <1>2, <1>3, <1>4, <1>5 DEF P!Saga

(* Process instances.                                                       *)

LEMMA InstanceStep ==
  P!InstanceType /\ P!InstanceEndsOnce /\ (P!Transition \/ UNCHANGED P!instanceVars) =>
     P!InstanceType' /\ P!InstanceEndsOnce'
<1> SUFFICES ASSUME P!InstanceType, P!InstanceEndsOnce, P!Transition \/ UNCHANGED P!instanceVars
             PROVE  P!InstanceType' /\ P!InstanceEndsOnce'
  OBVIOUS
<1>1. CASE P!Transition
  <2>1. PICK to \in {"running", "suspended"} \cup P!Final :
          P!Allowed(process, to) /\ process' = to /\ updates' = Append(updates, to)
    BY <1>1 DEF P!Transition
  <2>2. process \notin P!Final
    BY <2>1 DEF P!Allowed, P!Ends, P!Final
  <2>3. \A i \in DOMAIN updates : updates[i] \notin P!Final
    BY <2>2 DEF P!InstanceEndsOnce
  <2> DEFINE S == {"running", "suspended"} \cup P!Final
  <2>4. updates \in Seq(S) /\ to \in S
    BY DEF P!InstanceType
  <2> HIDE DEF S
  <2>5. /\ Append(updates, to) \in Seq(S) /\ Len(updates) \in Nat /\ DOMAIN updates = 1..Len(updates)
        /\ DOMAIN Append(updates, to) = 1..Len(updates) + 1 /\ Len(Append(updates, to)) = Len(updates) + 1
        /\ \A i \in 1..Len(updates) : Append(updates, to)[i] = updates[i]
        /\ Append(updates, to)[Len(updates) + 1] = to
    BY <2>4, GrownBy
  <2>6. \A i \in DOMAIN updates' : updates'[i] \in P!Final => i = Len(updates)' /\ process' = updates'[i]
    BY <2>1, <2>3, <2>5
  <2>7. updates' \in Seq(S) /\ process' \in S
    BY <2>1, <2>4, <2>5
  <2> QED
    BY <2>6, <2>7 DEF S, P!InstanceType, P!InstanceEndsOnce
<1>2. CASE UNCHANGED P!instanceVars
  BY <1>2 DEF P!instanceVars, P!InstanceType, P!InstanceEndsOnce
<1> QED
  BY <1>1, <1>2

(* Deadlines.                                                               *)

LEMMA SlaStep ==
  ASSUME P!ProConstants, clock \in Nat, P!SlaType, P!BreachKept,
         \/ P!Sla /\ clock' = clock
         \/ UNCHANGED P!slaVars /\ clock' \in {clock, clock + 1}
  PROVE  P!SlaType' /\ P!BreachKept'
<1> DEFINE States == {"pending", "on_track", "at_risk", "breached", "met"}
<1>1. /\ tracked \in [since : Nat, status : States] /\ tracked.since \in Nat /\ told \in {0, 1} /\ Deadline \in Nat
      /\ tracked.since <= clock /\ (told = 1 => tracked.status = "breached" /\ clock - tracked.since > Deadline)
  BY DEF P!SlaType, P!BreachKept, P!ProConstants
<1>2. SUFFICES /\ tracked' \in [since : Nat, status : States] /\ told' \in {0, 1} /\ tracked'.since <= clock'
               /\ (told' = 1 => tracked'.status = "breached" /\ clock' - tracked'.since > Deadline)
  BY DEF P!SlaType, P!BreachKept
<1>3. CASE P!SlaStart /\ clock' = clock
  BY <1>1, <1>3 DEF P!SlaStart
<1>4. CASE P!SlaComplete /\ clock' = clock
  <2>1. /\ told' = told
        /\ tracked' = [tracked EXCEPT !.status = IF clock - tracked.since > Deadline THEN "breached" ELSE "met"]
    BY <1>4 DEF P!SlaComplete
  <2>2. tracked'.since = tracked.since
    BY <1>1, <2>1
  <2>3. CASE clock - tracked.since > Deadline
    <3>1. tracked' = [tracked EXCEPT !.status = "breached"]
      BY <2>1, <2>3
    <3> QED
      BY <1>1, <1>4, <2>1, <2>2, <2>3, <3>1
  <2>4. CASE ~(clock - tracked.since > Deadline)
    <3>1. tracked' = [tracked EXCEPT !.status = "met"] /\ told' # 1
      BY <1>1, <2>1, <2>4
    <3> QED
      BY <1>1, <1>4, <2>1, <2>2, <2>4, <3>1
  <2> QED
    BY <2>3, <2>4
<1>5. CASE P!SlaCheck /\ clock' = clock
  <2>1. CASE clock - tracked.since > Deadline
    <3>1. /\ tracked' = [tracked EXCEPT !.status = "breached"]
          /\ told' = told + (IF P!NewBreach THEN 1 ELSE 0)
      BY <1>5, <2>1 DEF P!SlaCheck
    <3>2. told' \in {0, 1}
      BY <1>1, <3>1 DEF P!NewBreach
    <3> QED
      BY <1>1, <1>5, <2>1, <3>1, <3>2
  <2>2. CASE ~(clock - tracked.since > Deadline)
    <3>1. told' = told /\ \E status \in States : tracked' = [tracked EXCEPT !.status = status]
      BY <1>5, <2>2 DEF P!SlaCheck
    <3> QED
      BY <1>1, <1>5, <2>2, <3>1
  <2> QED
    BY <2>1, <2>2
<1>6. CASE UNCHANGED P!slaVars /\ clock' \in {clock, clock + 1}
  BY <1>1, <1>6 DEF P!slaVars
<1> QED
  BY <1>3, <1>4, <1>5, <1>6 DEF P!Sla

(* The agent pool.                                                          *)

LEMMA PoolStep ==
  ASSUME P!ProConstants, clock \in Nat, P!PoolType, P!PoolInOrder, P!Pool \/ UNCHANGED pool
  PROVE  P!PoolType' /\ P!PoolInOrder'
<1> DEFINE Agents == [healthy : BOOLEAN, used : Nat, requests : Nat]
           n == Len(pool)
<1>1. pool \in Seq(Agents)
  BY DEF P!PoolType
<1>2. n \in Nat /\ DOMAIN pool = 1..n /\ \A i \in 1..n : pool[i] \in Agents
  BY <1>1, LenProperties, ElementOfSeq
<1>3. \A i \in 1..n : pool[i].requests > 0 => \A j \in 1..i - 1 : ~pool[j].healthy
  BY <1>2 DEF P!PoolInOrder
<1> HIDE DEF n
<1>4. CASE P!AddAgent
  <2>1. CASE pool' = pool
    BY <2>1 DEF P!PoolType, P!PoolInOrder
  <2>2. CASE pool' = Append(pool, [healthy |-> TRUE, used |-> clock, requests |-> 0])
    <3> DEFINE a == [healthy |-> TRUE, used |-> clock, requests |-> 0]
    <3>1. a \in Agents /\ a.requests = 0
      OBVIOUS
    <3> HIDE DEF a, Agents
    <3>2. /\ Append(pool, a) \in Seq(Agents) /\ DOMAIN Append(pool, a) = 1..n + 1
          /\ \A i \in 1..n : Append(pool, a)[i] = pool[i]
          /\ Append(pool, a)[n + 1] = a
      BY <1>1, <3>1, GrownBy DEF n
    <3>3. \A i \in DOMAIN pool' : pool'[i].requests > 0 => \A j \in 1..i - 1 : ~pool'[j].healthy
      <4> SUFFICES ASSUME NEW i \in 1..n + 1, pool'[i].requests > 0, NEW j \in 1..i - 1
                   PROVE  ~pool'[j].healthy
        BY <2>2, <3>2 DEF a
      <4>1. pool' = Append(pool, a)
        BY <2>2 DEF a
      <4>2. i # n + 1
        BY <3>1, <3>2, <4>1
      <4>3. i \in 1..n /\ j \in 1..n
        BY <1>2, <4>2
      <4> QED
        BY <1>3, <3>2, <4>1, <4>3
    <3> QED
      BY <2>2, <3>2, <3>3 DEF a, Agents, P!PoolType, P!PoolInOrder
  <2> QED
    BY <1>4, <2>1, <2>2 DEF P!AddAgent
<1>5. CASE P!Acquire
  <2>1. PICK i \in P!Healthy : /\ \A j \in P!Healthy : i <= j
                               /\ pool' = [pool EXCEPT ![i].used = clock, ![i].requests = @ + 1]
    BY <1>5 DEF P!Acquire
  <2>2. i \in 1..n /\ \A j \in 1..n : pool[j].healthy => i <= j
    BY <1>2, <2>1 DEF P!Healthy
  <2>3. pool' = [pool EXCEPT ![i] = [pool[i] EXCEPT !.used = clock, !.requests = pool[i].requests + 1]]
    BY <1>1, <1>2, <2>1, <2>2
  <2> DEFINE a == [pool[i] EXCEPT !.used = clock, !.requests = pool[i].requests + 1]
  <2>4. a \in Agents /\ a.healthy = pool[i].healthy
    <3>1. pool[i] \in Agents /\ pool[i].requests \in Nat
      BY <1>2, <2>2
    <3>2. pool[i].requests + 1 \in Nat
      BY <3>1
    <3> QED
      BY <3>1, <3>2
  <2> HIDE DEF a
  <2>5. /\ DOMAIN pool' = 1..n /\ pool'[i] = a /\ \A j \in 1..n : j # i => pool'[j] = pool[j]
        /\ pool' \in [1..n -> Agents]
    <3>1. pool \in [1..n -> Agents]
      BY <1>1, <1>2
    <3> QED
      BY <2>2, <2>3, <2>4, <3>1 DEF a
  <2>6. pool' \in Seq(Agents)
    BY <1>2, <2>5, SeqOfElements
  <2>7. ASSUME NEW k \in 1..n, pool'[k].requests > 0, NEW j \in 1..k - 1
        PROVE  ~pool'[j].healthy
    <3>0. k \in Int /\ j \in Int /\ j < k /\ j \in 1..n /\ i \in Int
      BY <1>2, <2>2, <2>7
    <3>1. ~pool[j].healthy
      <4>1. CASE k = i
        BY <2>2, <3>0, <4>1
      <4>2. CASE k # i
        BY <1>3, <2>5, <2>7, <4>2
      <4> QED
        BY <4>1, <4>2
    <3> QED
      BY <2>4, <2>5, <3>0, <3>1
  <2> QED
    BY <2>5, <2>6, <2>7 DEF P!PoolType, P!PoolInOrder
<1>6. CASE P!Heartbeat
  <2>1. DOMAIN pool' = 1..n /\ \A i \in 1..n :
           pool'[i] = [pool[i] EXCEPT !.healthy = @ /\ clock - pool[i].used <= Deadline]
    BY <1>2, <1>6 DEF P!Heartbeat
  <2>2. \A i \in 1..n : pool'[i] \in Agents /\ pool'[i].requests = pool[i].requests
           /\ (pool'[i].healthy => pool[i].healthy)
    BY <1>2, <2>1, ZenonT(30)
  <2>3. pool' \in Seq(Agents)
    <3>1. pool' \in [1..n -> Agents]
      BY <1>2, <1>6, <2>1, <2>2 DEF P!Heartbeat
    <3> QED
      BY <1>2, <3>1, SeqOfElements
  <2>4. \A i \in 1..n : \A j \in 1..i - 1 : j \in 1..n
    BY <1>2
  <2> QED
    BY <1>3, <2>1, <2>2, <2>3, <2>4 DEF P!PoolType, P!PoolInOrder
<1>7. CASE UNCHANGED pool
  BY <1>7 DEF P!PoolType, P!PoolInOrder
<1> QED
  BY <1>4, <1>5, <1>6, <1>7 DEF P!Pool

(* The broker.                                                              *)

LEMMA BrokerStep ==
  P!BrokerType /\ P!QueuesInOrder /\ (P!Broker \/ UNCHANGED P!brokerVars) => P!BrokerType' /\ P!QueuesInOrder'
<1> SUFFICES ASSUME P!BrokerType, P!QueuesInOrder, P!Broker \/ UNCHANGED P!brokerVars
             PROVE  P!BrokerType' /\ P!QueuesInOrder'
  OBVIOUS
<1> DEFINE Receivers == [id : Nat, queue : Seq(Nat), got : Seq(Nat)]
           Served(r, n) ==
                        /\ r \in Receivers
                        /\ Len(r.queue) <= n /\ \A i \in DOMAIN r.queue : r.queue[i] = i
                        /\ Len(r.got) <= Len(r.queue) /\ \A i \in DOMAIN r.got : r.got[i] = i
<1>1. /\ topic \in Seq(Nat) /\ Len(topic) \in Nat /\ DOMAIN topic = 1..Len(topic)
      /\ \A i \in 1..Len(topic) : topic[i] = i
  BY ReceiverSizes, LenProperties DEF P!BrokerType, P!QueuesInOrder
<1>2. \A r \in receivers : Served(r, Len(topic))
  BY ReceiverSizes DEF P!BrokerType, P!QueuesInOrder
<1>3. ASSUME topic' \in Seq(Nat), \A i \in DOMAIN topic' : topic'[i] = i, \A r \in receivers' : Served(r, Len(topic')),
             IsFiniteSet(receivers')
      PROVE  P!BrokerType' /\ P!QueuesInOrder'
  BY ReceiverSizes, <1>3 DEF P!BrokerType, P!QueuesInOrder
<1>f. IsFiniteSet(receivers)
  BY ReceiverSizes DEF P!BrokerType
<1>4. CASE P!Publish
  <2> DEFINE x == Len(topic) + 1
  <2>1. topic' = Append(topic, x) /\ receivers' = receivers /\ x \in Nat
    BY <1>1, <1>4 DEF P!Publish
  <2>2. /\ Append(topic, x) \in Seq(Nat) /\ DOMAIN Append(topic, x) = 1..Len(topic) + 1
        /\ \A i \in 1..Len(topic) : Append(topic, x)[i] = topic[i]
        /\ Append(topic, x)[Len(topic) + 1] = x
    BY <1>1, <2>1, GrownBy
  <2>4. Len(topic') = Len(topic) + 1
    BY <1>1, <2>1, <2>2, LenProperties
  <2>5. \A r \in receivers' : Served(r, Len(topic'))
    <3> SUFFICES ASSUME NEW r \in receivers PROVE Served(r, Len(topic'))
      BY <2>1
    <3>1. Served(r, Len(topic)) /\ Len(r.queue) \in Nat
      BY <1>2, LenProperties
    <3> QED
      BY <1>1, <2>4, <3>1
  <2> HIDE DEF Served
  <2>3. \A i \in DOMAIN topic' : topic'[i] = i
    BY <1>1, <2>1, <2>2
  <2> QED
    BY <1>3, <1>f, <2>1, <2>2, <2>3, <2>5
<1>5. CASE P!Subscribe
  <2>1. PICK k : /\ k = Cardinality(receivers) /\ k < 2
                 /\ receivers' = receivers \cup {[id |-> k, queue |-> topic, got |-> <<>>]}
                 /\ topic' = topic
    BY ReceiverSizes, <1>5 DEF P!Subscribe, P!Backlog
  <2>2. k \in Nat
    BY <1>f, <2>1, FS_CardinalityType
  <2> DEFINE r0 == [id |-> k, queue |-> topic, got |-> <<>>]
  <2>3. Served(r0, Len(topic))
    <3>1. <<>> \in Seq(Nat) /\ Len(<<>>) = 0 /\ DOMAIN <<>> = {}
      BY EmptySeq
    <3>2. r0 \in Receivers /\ r0.queue = topic /\ r0.got = <<>>
      BY <1>1, <2>1, <2>2, <3>1
    <3> HIDE DEF r0, Receivers
    <3> QED
      BY <1>1, <3>1, <3>2
  <2> HIDE DEF Served, r0
  <2>4. \A r \in receivers' : Served(r, Len(topic'))
    BY <1>2, <2>1, <2>3 DEF r0
  <2>5. IsFiniteSet(receivers')
    BY <1>f, <2>1, FS_AddElement
  <2> QED
    BY <1>1, <1>3, <2>1, <2>4, <2>5
<1>6. CASE P!Receive
  <2>1. PICK r \in receivers :
          /\ Len(r.got) < Len(r.queue)
          /\ receivers' = (receivers \ {r}) \cup {[r EXCEPT !.got = Append(@, r.queue[Len(r.got) + 1])]}
          /\ topic' = topic
    BY <1>6 DEF P!Receive
  <2> DEFINE x == r.queue[Len(r.got) + 1]
             g == Append(r.got, x)
             r0 == [r EXCEPT !.got = g]
  <2>2. Served(r, Len(topic)) /\ r.got \in Seq(Nat) /\ r.queue \in Seq(Nat)
    BY <1>2, <2>1
  <2>3. /\ Len(r.got) \in Nat /\ Len(r.queue) \in Nat /\ DOMAIN r.got = 1..Len(r.got)
        /\ DOMAIN r.queue = 1..Len(r.queue)
    BY <2>2, LenProperties
  <2>4. x = Len(r.got) + 1 /\ x \in Nat
    <3>1. Len(r.got) + 1 \in 1..Len(r.queue) /\ Len(r.got) + 1 \in Nat
      BY <2>1, <2>3
    <3>2. \A i \in 1..Len(r.queue) : r.queue[i] = i
      BY <2>2, <2>3
    <3> QED
      BY <3>1, <3>2
  <2>5. /\ g \in Seq(Nat) /\ Len(g) = Len(r.got) + 1 /\ DOMAIN g = 1..Len(r.got) + 1
        /\ \A i \in 1..Len(r.got) : g[i] = r.got[i]
        /\ g[Len(r.got) + 1] = x
    BY <2>2, <2>4, GrownBy
  <2> HIDE DEF x, g
  <2>6. \A i \in DOMAIN g : g[i] = i
    BY <2>2, <2>3, <2>4, <2>5, SMTT(30)
  <2>7. r0 \in Receivers /\ r0.queue = r.queue /\ r0.got = g
    BY <2>2, <2>5
  <2>8. Len(g) <= Len(r.queue)
    BY <2>1, <2>3, <2>5
  <2>9. Served(r0, Len(topic))
    <3> HIDE DEF r0, Receivers
    <3> QED
      BY <2>2, <2>6, <2>7, <2>8
  <2> HIDE DEF Served
  <2>10. \A q \in receivers' : Served(q, Len(topic'))
    BY <1>2, <2>1, <2>9 DEF g, x
  <2>11. IsFiniteSet(receivers')
    BY <1>f, <2>1, FS_AddElement, FS_RemoveElement
  <2> QED
    BY <1>1, <1>3, <2>1, <2>10, <2>11
<1>7. CASE UNCHANGED P!brokerVars
  BY ReceiverSizes, <1>7 DEF P!brokerVars, P!BrokerType, P!QueuesInOrder
<1> QED
  BY <1>4, <1>5, <1>6, <1>7 DEF P!Broker

(* The audit trail.                                                         *)

LEMMA AuditStep ==
  P!ProConstants /\ P!TrailType /\ P!TrailKept /\ (P!Audit \/ UNCHANGED P!trailVars) => P!TrailType' /\ P!TrailKept'
<1> SUFFICES ASSUME P!ProConstants, P!TrailType, P!TrailKept, P!Audit \/ UNCHANGED P!trailVars
             PROVE  P!TrailType' /\ P!TrailKept'
  OBVIOUS
<1> DEFINE n == Len(trail)
<1>1. /\ trail \in Seq(Nat) /\ recorded \in Nat /\ n \in Nat /\ DOMAIN trail = 1..n
      /\ MaxEntries \in Nat \ {0} /\ n <= MaxEntries /\ n <= recorded
      /\ \A i \in 1..n : trail[i] = recorded - n + i
  BY LenProperties DEF P!TrailType, P!TrailKept, P!TrailNewest, P!ProConstants
<1> HIDE DEF n
<1>2. CASE P!Record
  <2> DEFINE kept == IF P!Full THEN Tail(trail) ELSE trail
             m == IF P!Full THEN n - 1 ELSE n
  <2>1. recorded' = recorded + 1 /\ trail' = Append(kept, recorded + 1) /\ (P!Full <=> n >= MaxEntries)
    BY <1>2 DEF P!Record, P!Full, n
  <2>2. /\ kept \in Seq(Nat) /\ Len(kept) = m /\ m \in Nat /\ m < MaxEntries /\ m <= recorded
        /\ \A i \in 1..m : kept[i] = recorded - m + i
    <3>1. CASE P!Full
      <4>1. trail # <<>> /\ n # 0
        BY <1>1, <2>1, <3>1, EmptySeq DEF n
      <4>2. /\ Tail(trail) \in Seq(Nat) /\ Len(Tail(trail)) = n - 1
            /\ \A i \in 1..n - 1 : Tail(trail)[i] = trail[i + 1]
        BY <1>1, <4>1, HeadTailProperties DEF n
      <4>3. \A i \in 1..n - 1 : i + 1 \in 1..n /\ recorded - n + (i + 1) = recorded - (n - 1) + i
        BY <1>1
      <4> QED
        BY <1>1, <2>1, <3>1, <4>1, <4>2, <4>3
    <3>2. CASE ~P!Full
      BY <1>1, <2>1, <3>2 DEF n
    <3> QED
      BY <3>1, <3>2
  <2> HIDE DEF kept, m
  <2>3. recorded + 1 \in Nat
    BY <1>1
  <2>4. /\ trail' \in Seq(Nat) /\ Len(trail)' = m + 1 /\ DOMAIN trail' = 1..m + 1
        /\ \A i \in 1..m : trail'[i] = kept[i]
        /\ trail'[m + 1] = recorded + 1
    <3>1. /\ Append(kept, recorded + 1) \in Seq(Nat) /\ Len(Append(kept, recorded + 1)) = Len(kept) + 1
          /\ DOMAIN Append(kept, recorded + 1) = 1..Len(kept) + 1
          /\ \A i \in 1..Len(kept) : Append(kept, recorded + 1)[i] = kept[i]
          /\ Append(kept, recorded + 1)[Len(kept) + 1] = recorded + 1
      BY <2>2, <2>3, GrownBy
    <3> QED
      BY <2>1, <2>2, <3>1
  <2>5. \A i \in 1..m + 1 : trail'[i] = recorded + 1 - (m + 1) + i
    <3> TAKE i \in 1..m + 1
    <3>1. CASE i = m + 1
      BY <1>1, <2>2, <2>4, <3>1
    <3>2. CASE i # m + 1
      <4>1. i \in 1..m
        BY <2>2, <3>2
      <4> QED
        BY <1>1, <2>2, <2>4, <4>1
    <3> QED
      BY <3>1, <3>2
  <2>6. m + 1 <= MaxEntries /\ m + 1 <= recorded'
    BY <1>1, <2>1, <2>2
  <2> QED
    BY <2>1, <2>3, <2>4, <2>5, <2>6 DEF P!TrailType, P!TrailKept, P!TrailNewest
<1>3. CASE P!ClearTrail
  <2>1. trail' = <<>> /\ recorded' = recorded /\ <<>> \in Seq(Nat) /\ Len(<<>>) = 0 /\ DOMAIN <<>> = {}
    BY <1>3, EmptySeq DEF P!ClearTrail
  <2> QED
    BY <1>1, <2>1 DEF P!TrailType, P!TrailKept, P!TrailNewest
<1>4. CASE UNCHANGED P!trailVars
  BY <1>4 DEF P!trailVars, P!TrailType, P!TrailKept, P!TrailNewest
<1> QED
  BY <1>2, <1>3, <1>4 DEF P!Audit

(* All services.                                                            *)

LEMMA ProInit == P!ProConstants /\ P!Init => P!ProInv
<1> SUFFICES ASSUME P!ProConstants, P!Init PROVE P!ProInv
  OBVIOUS
<1>e. <<>> \in Seq(Nat) /\ Len(<<>>) = 0 /\ DOMAIN <<>> = {} /\ \A S : <<>> \in Seq(S)
  BY EmptySeq
<1>1. P!SagaType /\ Len(undoable) \in Nat
  <2>1. PICK n \in 0..MaxSagaSteps : undoable \in [1..n -> BOOLEAN]
    BY DEF P!Init
  <2>2. n \in Nat /\ n <= MaxSagaSteps
    BY <2>1 DEF P!ProConstants
  <2>3. undoable \in Seq(BOOLEAN)
    BY <2>1, <2>2, SeqOfElements
  <2>4. Len(undoable) = n
    BY <2>1, <2>2, <2>3, LenProperties
  <2> QED
    BY <1>e, <2>2, <2>3, <2>4 DEF P!Init, P!SagaType
<1>2. P!StepsInOrder
  BY <1>e DEF P!Init, P!StepsInOrder
<1>3. P!SagaProgress
  <2>1. stepAt = 1 /\ completed = <<>> /\ ran = <<>> /\ undone = <<>> /\ MaxSagaSteps \in Nat
           /\ P!SagaOver = MaxSagaSteps + 2
    BY DEF P!Init, P!ProConstants, P!SagaOver
  <2>2. /\ 1 \in 1..Len(undoable) + 1 /\ 1 \in 0..Len(undoable) + 1 \cup {P!SagaOver} /\ P!SagaOver # 1
    BY <1>1, <2>1
  <2> HIDE DEF P!SagaOver
  <2> QED
    BY <1>e, <2>1, <2>2 DEF P!SagaProgress
<1>4. P!InstanceType /\ P!InstanceEndsOnce
  BY <1>e DEF P!Init, P!InstanceType, P!InstanceEndsOnce
<1>5. P!SlaType /\ P!BreachKept
  BY DEF P!Init, P!SlaType, P!BreachKept
<1>6. P!PoolType /\ P!PoolInOrder
  BY <1>e DEF P!Init, P!PoolType, P!PoolInOrder
<1>7. P!BrokerType /\ P!QueuesInOrder
  BY ReceiverSizes, <1>e, FS_EmptySet DEF P!Init, P!BrokerType, P!QueuesInOrder
<1>8. P!TrailType /\ P!TrailKept
  BY <1>e DEF P!Init, P!TrailType, P!TrailKept, P!TrailNewest, P!ProConstants
<1>9. unit \in P!Units /\ clock \in Nat
  BY DEF P!Init
<1> QED
  BY <1>1, <1>2, <1>3, <1>4, <1>5, <1>6, <1>7, <1>8, <1>9 DEF P!ProInv, P!ProType

LEMMA ProInvStep == P!ProConstants /\ P!ProInv /\ [P!Next]_(P!proVars) => P!ProInv'
<1> SUFFICES ASSUME P!ProConstants, P!ProInv, [P!Next]_(P!proVars) PROVE P!ProInv'
  OBVIOUS
<1>1. /\ unit' = unit /\ (P!Saga \/ UNCHANGED P!sagaVars) /\ (P!Transition \/ UNCHANGED P!instanceVars)
      /\ (P!Pool \/ UNCHANGED pool) /\ (P!Broker \/ UNCHANGED P!brokerVars) /\ (P!Audit \/ UNCHANGED P!trailVars)
  BY DEF P!Next, P!ProNext, P!proVars
<1>2. /\ clock \in Nat /\ clock' \in {clock, clock + 1}
      /\ \/ P!Sla /\ clock' = clock
         \/ UNCHANGED P!slaVars /\ clock' \in {clock, clock + 1}
  BY DEF P!Next, P!ProNext, P!proVars, P!Tick, P!ProInv, P!ProType
<1>3. SagaInv'
  BY <1>1, SagaStep DEF P!ProInv, P!ProType, SagaInv
<1>4. P!InstanceType' /\ P!InstanceEndsOnce'
  BY <1>1, InstanceStep DEF P!ProInv, P!ProType
<1>5. P!SlaType' /\ P!BreachKept'
  BY <1>2, SlaStep DEF P!ProInv, P!ProType
<1>6. P!PoolType' /\ P!PoolInOrder'
  BY <1>1, <1>2, PoolStep DEF P!ProInv, P!ProType
<1>7. P!BrokerType' /\ P!QueuesInOrder'
  BY <1>1, BrokerStep DEF P!ProInv, P!ProType
<1>8. P!TrailType' /\ P!TrailKept'
  BY <1>1, AuditStep DEF P!ProInv, P!ProType
<1>9. unit' \in P!Units /\ clock' \in Nat
  BY <1>1, <1>2 DEF P!ProInv, P!ProType
<1> QED
  BY <1>3, <1>4, <1>5, <1>6, <1>7, <1>8, <1>9 DEF P!ProInv, P!ProType, SagaInv

LEMMA ProSafe == P!ProConstants /\ P!ProInv => P!ServicesKeepRules
<1> SUFFICES ASSUME P!ProConstants, P!ProInv PROVE P!ServicesKeepRules
  OBVIOUS
<1>1. P!SagaUndone
  <2>1. ASSUME ran # <<>>, policy = "backward", completed = <<>>, stepAt = P!SagaOver
        PROVE  /\ {i \in 1..Len(ran) - 1 : undoable[i]} \subseteq P!ToSet(undone)
               /\ P!ToSet(undone) \subseteq {i \in 1..Len(ran) : undoable[i]}
               /\ \A i, j \in DOMAIN undone : i < j => undone[j] < undone[i]
    <3>1. /\ P!ToSet(undone) = {i \in Len(completed) + 1..Len(ran) - 1 : undoable[i]}
          /\ \A i, j \in DOMAIN undone : i < j => undone[j] < undone[i]
      BY <2>1 DEF P!ProInv, P!SagaProgress
    <3>2. Len(completed) + 1 = 1
      BY <2>1
    <3>3. 1..Len(ran) - 1 \subseteq 1..Len(ran)
      BY LenProperties DEF P!ProInv, P!ProType, P!SagaType
    <3> QED
      BY <3>1, <3>2, <3>3
  <2> QED
    BY <2>1 DEF P!SagaUndone, P!ProInv, P!StepsInOrder
<1>2. P!BreachOnce
  BY DEF P!BreachOnce, P!ProInv, P!BreachKept
<1>3. P!ReceivedInOrder
  <2> SUFFICES ASSUME NEW r \in receivers
               PROVE  Len(r.got) <= Len(topic) /\ \A i \in DOMAIN r.got : r.got[i] = topic[i]
    BY DEF P!ReceivedInOrder
  <2>1. /\ topic \in Seq(Nat) /\ r.got \in Seq(Nat) /\ r.queue \in Seq(Nat)
        /\ \A i \in DOMAIN topic : topic[i] = i
        /\ Len(r.queue) <= Len(topic) /\ Len(r.got) <= Len(r.queue) /\ \A i \in DOMAIN r.got : r.got[i] = i
    BY DEF P!ProInv, P!ProType, P!BrokerType, P!QueuesInOrder
  <2>2. /\ Len(r.got) \in Nat /\ Len(r.queue) \in Nat /\ Len(topic) \in Nat
        /\ DOMAIN r.got = 1..Len(r.got) /\ DOMAIN topic = 1..Len(topic)
    BY <2>1, LenProperties
  <2>3. Len(r.got) <= Len(topic) /\ DOMAIN r.got \subseteq DOMAIN topic
    BY <2>1, <2>2
  <2> QED
    BY <2>1, <2>3
<1> QED
  BY <1>1, <1>2, <1>3 DEF P!ServicesKeepRules, P!ProInv, P!TrailKept

==============================================================================
