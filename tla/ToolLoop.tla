-------------------------------- MODULE ToolLoop --------------------------------
(***************************************************************************)
(* FunctionInvokingChatClient::run of crates/framework: the stream that    *)
(* consults the model, runs the tools it calls and consults it again.      *)
(*                                                                         *)
(* Three actors meet here.  The loop is an unfold that advances only when  *)
(* its consumer polls it.  In each round it spawns a worker task, which    *)
(* reads the stream of the model, runs the tools and reports through a     *)
(* bounded channel, tx; the messages of the round travel through a second  *)
(* channel, box.  The consumer may drop the stream at any time, and anyone *)
(* may raise the cancel flag.                                              *)
(*                                                                         *)
(* Texts, arguments and results are left out: an argument string is empty  *)
(* or not, and whether it passes validation is a free choice.  The model,  *)
(* its client and the tools are external; call ids are never reused.       *)
(***************************************************************************)
EXTENDS Naturals, Sequences, FiniteSets

CONSTANTS
  Ids,        \* the call ids the model may use
  NoId,       \* no call
  ToolOf,     \* the name of the tool each call asks for
  Static,     \* tools registered with the client
  Provided,   \* tools injected by context providers
  Gated,      \* tools wrapped by ApprovalRequiredTool, static or provided
  MaxRounds,  \* max_rounds
  Capacity,   \* of tx
  Styles,     \* how the model's client announces a call, see Announce
  TextBlocks, \* blocks before the first call in a "both" stream
  Pending,    \* sequences of calls a resumed conversation may wait for; a
              \* client that uses "both" styles lists a call twice
  MayFail,    \* whether the model's client may fail
  MayPanic,   \* whether a tool, or the preview of a call, may panic
  MayCancel,  \* whether the cancel flag may be raised
  MayDrop     \* whether the consumer may drop the stream

Known == Static \cup Provided
NoCall == [id |-> NoId, args |-> FALSE]
Call == [id : Ids \cup {NoId}, args : BOOLEAN]
Reasons == {"stop", "approval", "rounds", "tools", "cancelled", "error"}
Update == [kind : {"start", "chunk", "request", "called", "finish"},
           of : Ids \cup {NoId} \cup Reasons]
Message == [kind : {"asks", "answer"}, ids : Seq(Ids)]

ASSUME LoopAssumption ==
  /\ IsFiniteSet(Ids) /\ NoId \notin Ids
  /\ Ids \cap Reasons = {}
  /\ MaxRounds \in Nat
  /\ Capacity \in Nat \ {0}
  /\ Styles \subseteq {"lifecycle", "delta", "both"} /\ Styles # {}
  /\ TextBlocks \in Nat
  /\ <<>> \in Pending /\ Pending \subseteq Seq(Ids)
  /\ {MayFail, MayPanic, MayCancel, MayDrop} \subseteq BOOLEAN

VARIABLES
  \* ------------------------------------------------ the loop (unfold state)
  phase,     \* "looping", "resuming", "streaming" or "over"
  round,
  messages,  \* messages with tool calls and their answers
  responses, \* options.tool_approval_responses: the calls that have one
  todo,      \* pending calls a resume has not resolved yet
  answers,   \* next_messages of a resume
  cancelled, \* the cancel flag
  open,      \* the consumer holds the stream
  style,     \* how the streams of the client announce calls; it never changes
  \* ------------------------------------------------ the worker of the round
  worker,    \* "none", "reading", "asking", "paused", "executing",
             \* "reporting" or "ended"
  announced, \* the calls the stream has announced, in order
  current,   \* current_tool_args
  calls,     \* tool_calls
  working,   \* indices of calls whose tool has not returned
  at,        \* index of the next call to report
  tx,        \* updates not yet received
  box,       \* the messages of the round, once sent
  \* ------------------------------------------------ read by properties only
  granted,   \* calls the caller approved
  executed,  \* per call: how often its tool was run
  requested, \* calls whose approval was requested
  reported,  \* calls whose result the consumer has received
  verdict,   \* the last finish reason or error the consumer has received
  crossed,   \* calls dropped because another call was ended in their place
  panicked   \* the worker has panicked

loopVars == <<phase, round, messages, responses, todo, answers>>
callerVars == <<cancelled, open, style>>
workerVars == <<worker, announced, current, calls, working, at>>
channelVars == <<tx, box>>
historyVars == <<granted, executed, requested, reported, verdict, crossed, panicked>>
vars == <<loopVars, callerVars, workerVars, channelVars, historyVars>>

IdsOf(cs) == [i \in DOMAIN cs |-> cs[i].id]
Asks(ids) == <<[kind |-> "asks", ids |-> ids]>>
Answer(c) == [kind |-> "answer", ids |-> <<c>>]
Answers(ids) == [i \in DOMAIN ids |-> Answer(ids[i])]
Elements(s) == {s[i] : i \in DOMAIN s}
Distinct(s) == \A i, j \in DOMAIN s : s[i] = s[j] => i = j
MentionedIn(ms) == UNION {Elements(ms[i].ids) : i \in DOMAIN ms}
Mentioned == MentionedIn(messages)
Answered ==
  UNION {Elements(messages[i].ids) :
           i \in {j \in DOMAIN messages : messages[j].kind = "answer"}}

LoopType ==
  /\ phase \in {"looping", "resuming", "streaming", "over"}
  /\ round \in Nat
  /\ messages \in Seq(Message) /\ answers \in Seq(Message)
  /\ responses \subseteq Ids /\ todo \in Seq(Ids)

CallerType == cancelled \in BOOLEAN /\ open \in BOOLEAN /\ style \in Styles

WorkerType ==
  /\ worker \in {"none", "reading", "asking", "paused", "executing", "reporting", "ended"}
  /\ announced \in Seq(Ids)
  /\ current \in Call /\ calls \in Seq(Call)
  /\ working \subseteq DOMAIN calls /\ at \in Nat \ {0}

ChannelType ==
  /\ tx \in Seq(Update) /\ Len(tx) <= Capacity
  /\ box \in Seq(Message)

HistoryType ==
  /\ granted \subseteq Ids /\ executed \in [Ids -> Nat]
  /\ requested \subseteq Ids /\ reported \subseteq Ids
  /\ verdict \in Reasons \cup {"none"}
  /\ crossed \subseteq Ids \cup {NoId} /\ panicked \in BOOLEAN

\* Every variable keeps its type; the channel never holds more than its capacity.
TypeOK == LoopType /\ CallerType /\ WorkerType /\ ChannelType /\ HistoryType

Init ==
  /\ phase = "looping" /\ round = 0 /\ todo = <<>> /\ answers = <<>>
  /\ \E p \in Pending :
       /\ messages = IF p = <<>> THEN <<>> ELSE Asks(p)
       /\ responses \in SUBSET Elements(p) /\ (p # <<>> => responses # {})
       /\ granted \in SUBSET responses
       /\ style \in Styles /\ (style # "both" => Distinct(p))
  /\ cancelled = FALSE /\ open = TRUE
  /\ worker = "none" /\ announced = <<>>
  /\ current = NoCall /\ calls = <<>> /\ working = {} /\ at = 1
  /\ tx = <<>> /\ box = <<>>
  /\ executed = [c \in Ids |-> 0]
  /\ requested = {} /\ reported = {} /\ verdict = "none"
  /\ crossed = {} /\ panicked = FALSE

-----------------------------------------------------------------------------
(* The loop, polled by its consumer.  At its top it looks at the cancel     *)
(* flag first, then at approval responses, then at the round limit.         *)

AtTop == open /\ phase = "looping"

Stop(v) ==
  /\ phase' = "over" /\ verdict' = v
  /\ UNCHANGED <<round, messages, responses, todo, answers, callerVars, workerVars,
                 channelVars, granted, executed, requested, reported, crossed, panicked>>

StopCancelled == AtTop /\ cancelled /\ Stop("cancelled")

StopAtLimit ==
  /\ AtTop /\ ~cancelled /\ responses = {} /\ round >= MaxRounds
  /\ Stop("rounds")

\* The calls to resolve are those of the last message that has any.
BeginResume ==
  /\ AtTop /\ ~cancelled /\ responses # {}
  /\ \E i \in DOMAIN messages :
       /\ messages[i].kind = "asks"
       /\ \A j \in i + 1 .. Len(messages) : messages[j].kind # "asks"
       /\ todo' = messages[i].ids
  /\ phase' = "resuming" /\ answers' = <<>>
  /\ UNCHANGED <<round, messages, responses, callerVars, workerVars, channelVars,
                 historyVars>>

\* Mutant of ResumeCall: an approved call meets the gate again.
ResumeCallGated ==
  /\ open /\ phase = "resuming" /\ todo # <<>>
  /\ LET c == Head(todo) IN
       /\ executed' = IF c \in granted /\ ToolOf[c] \in Static \ Gated
                      THEN [executed EXCEPT ![c] = @ + 1] ELSE executed
       /\ answers' = Append(answers, Answer(c))
  /\ todo' = Tail(todo)
  /\ UNCHANGED <<phase, round, messages, responses, callerVars, workerVars,
                 channelVars, granted, requested, reported, verdict, crossed, panicked>>

\* One await per call.  A tool that panics here unwinds through the consumer,
\* which leaves what dropping the stream after the call leaves.
ResumeCall ==
  /\ open /\ phase = "resuming" /\ todo # <<>>
  /\ LET c == Head(todo) IN
       /\ executed' = IF c \in granted /\ ToolOf[c] \in Static
                      THEN [executed EXCEPT ![c] = @ + 1] ELSE executed
       /\ answers' = Append(answers, Answer(c))
  /\ todo' = Tail(todo)
  /\ UNCHANGED <<phase, round, messages, responses, callerVars, workerVars,
                 channelVars, granted, requested, reported, verdict, crossed, panicked>>

\* Mutant of ResumeDone: the responses are not cleared.
ResumeDoneKeeps ==
  /\ open /\ phase = "resuming" /\ todo = <<>>
  /\ phase' = "looping" /\ round' = round + 1
  /\ messages' = messages \o answers
  /\ answers' = <<>>
  /\ UNCHANGED <<responses, todo, callerVars, workerVars, channelVars, historyVars>>

ResumeDone ==
  /\ open /\ phase = "resuming" /\ todo = <<>>
  /\ phase' = "looping" /\ round' = round + 1
  /\ messages' = messages \o answers
  /\ responses' = {} /\ answers' = <<>>
  /\ UNCHANGED <<todo, callerVars, workerVars, channelVars, historyVars>>

Consult == AtTop /\ ~cancelled /\ responses = {} /\ round < MaxRounds

ConsultFails == Consult /\ MayFail /\ Stop("error")

\* inner.run returned a stream: the worker is spawned, the loop waits for it.
StartRound ==
  /\ Consult
  /\ phase' = "streaming"
  /\ worker' = "reading" /\ announced' = <<>> /\ current' = NoCall /\ calls' = <<>>
  /\ working' = {} /\ at' = 1
  /\ tx' = <<>> /\ box' = <<>>
  /\ UNCHANGED <<round, messages, responses, todo, answers, callerVars, historyVars>>

\* The receivers live in the Streaming state: they are gone when it is left.
Receiving == open /\ phase = "streaming"

Received(u) ==
  /\ reported' = IF u.kind = "called" THEN reported \cup {u.of} ELSE reported
  /\ requested' = IF u.kind = "request" THEN requested \cup {u.of} ELSE requested
  /\ verdict' = IF u.kind = "finish" THEN u.of ELSE verdict

\* An update passes through; an error ends the loop.
PollUpdate ==
  /\ Receiving /\ tx # <<>> /\ Head(tx) # [kind |-> "finish", of |-> "tools"]
  /\ tx' = Tail(tx) /\ Received(Head(tx))
  /\ phase' = IF Head(tx) = [kind |-> "finish", of |-> "error"] THEN "over" ELSE phase
  /\ UNCHANGED <<round, messages, responses, todo, answers, callerVars, workerVars, box,
                 granted, executed, crossed, panicked>>

\* Mutant of PollToolCalls: the loop goes on without reading the message channel.
PollToolCallsForgets ==
  /\ Receiving /\ tx # <<>> /\ Head(tx) = [kind |-> "finish", of |-> "tools"]
  /\ phase' = "looping" /\ round' = round + 1
  /\ tx' = <<>> /\ box' = <<>>
  /\ UNCHANGED <<messages, responses, todo, answers, callerVars, workerVars, historyVars>>

\* Finish(ToolCalls): the messages of the round join the conversation.  The
\* update itself is filtered out of the stream.
PollToolCalls ==
  /\ Receiving /\ tx # <<>> /\ Head(tx) = [kind |-> "finish", of |-> "tools"]
  /\ phase' = "looping" /\ round' = round + 1
  /\ messages' = messages \o box
  /\ tx' = <<>> /\ box' = <<>>
  /\ UNCHANGED <<responses, todo, answers, callerVars, workerVars, historyVars>>

\* Mutant of PollEnd: a closed channel is polled again.
PollEndAgain ==
  /\ Receiving /\ tx = <<>> /\ worker = "ended"
  /\ UNCHANGED vars

PollEnd ==
  /\ Receiving /\ tx = <<>> /\ worker = "ended"
  /\ phase' = "over"
  /\ UNCHANGED <<round, messages, responses, todo, answers, callerVars, workerVars,
                 channelVars, historyVars>>

-----------------------------------------------------------------------------
(* The worker.  A send waits for room; when the receiver is gone it fails   *)
(* and the worker returns.                                                  *)

\* Mutant of Send: an unbounded channel.
SendUnbounded(u, after) ==
  \/ Receiving /\ tx' = Append(tx, u) /\ worker' = after
  \/ ~Receiving /\ worker' = "ended" /\ UNCHANGED tx

Send(u, after) ==
  \/ /\ Receiving /\ Len(tx) < Capacity
     /\ tx' = Append(tx, u) /\ worker' = after
  \/ /\ ~Receiving
     /\ worker' = "ended" /\ UNCHANGED tx

Chunk == [kind |-> "chunk", of |-> NoId]
Finish(reason) == [kind |-> "finish", of |-> reason]

readOnly == <<loopVars, callerVars, working, at, box, historyVars>>

\* ToolCallStart: a call that has begun and not ended is complete.
CallStart(c) ==
  /\ calls' = IF current = NoCall THEN calls ELSE Append(calls, current)
  /\ current' = [id |-> c, args |-> FALSE]

\* ToolCallDelta writes to the slot of its index; slots below it are made up.
CallDelta(c, index) ==
  LET slots == [i \in 1 .. (IF index > Len(calls) THEN index ELSE Len(calls)) |->
                  IF i <= Len(calls) THEN calls[i] ELSE NoCall]
  IN  /\ calls' = [slots EXCEPT ![index] = [id |-> c, args |-> TRUE]]
      /\ UNCHANGED current

\* The stream announces a call: by ToolCallStart ("lifecycle", and "both", the
\* Anthropic client) or by the first ToolCallDelta that names it ("delta", the
\* OpenAI transport).
Announce(c) ==
  /\ worker = "reading"
  /\ c \notin Mentioned \cup Elements(announced) \cup crossed
  /\ announced' = Append(announced, c)
  /\ IF style = "delta" THEN CallDelta(c, Len(announced) + 1) ELSE CallStart(c)
  /\ Send([kind |-> "start", of |-> c], "reading")
  /\ UNCHANGED readOnly

\* ToolCallArgs, for the call that has begun.  Those of another call are ignored
\* and only pass through, as texts do: they are left out with the texts.
CallArgs ==
  /\ worker = "reading" /\ style = "lifecycle" /\ current # NoCall /\ ~current.args
  /\ current' = [current EXCEPT !.args = TRUE]
  /\ Send(Chunk, "reading")
  /\ UNCHANGED <<announced, calls, readOnly>>

\* ToolCallEnd takes the call that has begun; it is dropped when the end is of
\* another call.  With no call begun an end only passes through.
CallEnd(c) ==
  /\ worker = "reading" /\ style = "lifecycle" /\ current # NoCall
  /\ calls' = IF c = current.id THEN Append(calls, current) ELSE calls
  /\ crossed' = IF c = current.id THEN crossed ELSE crossed \cup {current.id}
  /\ current' = NoCall
  /\ Send(Chunk, "reading")
  /\ UNCHANGED <<announced, loopVars, callerVars, working, at, box, granted, executed,
                 requested, reported, verdict, panicked>>

\* The Anthropic client sends the arguments of a call it has started as
\* ToolCallDelta, at the index of the content block, with the id of the call.
BlockDelta ==
  /\ worker = "reading" /\ style = "both"
  /\ current # NoCall /\ ~ \E i \in DOMAIN calls : calls[i] = [id |-> current.id, args |-> TRUE]
  /\ CallDelta(current.id, TextBlocks + Len(announced))
  /\ Send(Chunk, "reading")
  /\ UNCHANGED <<announced, readOnly>>

StreamFails ==
  /\ worker = "reading" /\ MayFail
  /\ Send(Finish("error"), "ended")
  /\ UNCHANGED <<announced, current, calls, readOnly>>

\* Mutant of Taken: a call without an end is forgotten.
TakenEnded == calls

\* A call left without an end is taken with the others.
Taken == IF current = NoCall THEN calls ELSE Append(calls, current)

\* Slots without an id are not kept: the set has one member, the rest in order.
Retained(s) ==
  LET slots == {i \in DOMAIN s : s[i].id # NoId}
      Rising(f) == \A i, j \in DOMAIN f : i < j => f[i] < f[j]
  IN  {[k \in DOMAIN f |-> s[f[k]]] :
         f \in {g \in [1 .. Cardinality(slots) -> slots] : Rising(g)}}

\* Mutant of NeedsApproval: only the first call is looked at.
NeedsApprovalFirst(cs) == ToolOf[cs[1].id] \in Gated

NeedsApproval(cs) == \E i \in DOMAIN cs : ToolOf[cs[i].id] \in Gated

\* The preview of a call left without an end is cut at byte 200 of its arguments,
\* which panics inside a character.
PreviewPanics ==
  /\ MayPanic /\ worker = "reading" /\ current # NoCall /\ current.args
  /\ worker' = "ended" /\ panicked' = TRUE
  /\ UNCHANGED <<loopVars, callerVars, announced, current, calls, working, at,
                 channelVars, granted, executed, requested, reported, verdict, crossed>>

FinishStop ==
  /\ worker = "reading" /\ <<>> \in Retained(Taken)
  /\ Send(Finish("stop"), "ended")
  /\ UNCHANGED <<announced, current, calls, readOnly>>

\* One gated call holds back all the calls of the response.
AskApproval ==
  /\ worker = "reading" /\ worker' = "asking"
  /\ calls' \in Retained(Taken) \ {<<>>} /\ NeedsApproval(calls')
  /\ current' = NoCall
  /\ UNCHANGED <<loopVars, callerVars, announced, working, at, channelVars,
                 historyVars>>

RequestApproval ==
  /\ worker = "asking" /\ at <= Len(calls)
  /\ Send([kind |-> "request", of |-> calls[at].id], "asking")
  /\ at' = at + 1
  /\ UNCHANGED <<loopVars, callerVars, announced, current, calls, working, box,
                 historyVars>>

\* The calls are sent to the loop, which leaves them where they are.
HandOver ==
  /\ worker = "asking" /\ at > Len(calls)
  /\ worker' = "paused"
  /\ box' = IF Receiving THEN Asks(IdsOf(calls)) ELSE box
  /\ UNCHANGED <<loopVars, callerVars, announced, current, calls, working, at, tx,
                 historyVars>>

\* Mutant of Pause: the worker returns without a finish reason.
PauseSilent ==
  /\ worker = "paused" /\ worker' = "ended"
  /\ UNCHANGED <<loopVars, callerVars, announced, current, calls, working, at,
                 channelVars, historyVars>>

Pause ==
  /\ worker = "paused"
  /\ Send(Finish("approval"), "ended")
  /\ UNCHANGED <<loopVars, callerVars, announced, current, calls, working, at, box,
                 historyVars>>

\* Calls without arguments, with arguments that do not parse or do not fit the
\* schema, or of unknown tools are answered with an error; all others start.
RunTools ==
  /\ worker = "reading" /\ worker' = "executing"
  /\ calls' \in Retained(Taken) \ {<<>>} /\ ~NeedsApproval(calls')
  /\ current' = NoCall
  /\ working' \in SUBSET {i \in DOMAIN calls' : calls'[i].args /\ ToolOf[calls'[i].id] \in Known}
  /\ executed' = [c \in Ids |->
                    executed[c] + Cardinality({i \in working' : calls'[i].id = c})]
  /\ UNCHANGED <<loopVars, callerVars, announced, at, channelVars, granted,
                 requested, reported, verdict, crossed, panicked>>

ToolReturns(i) ==
  /\ worker = "executing" /\ i \in working
  /\ working' = working \ {i}
  /\ UNCHANGED <<loopVars, callerVars, worker, announced, current, calls, at,
                 channelVars, historyVars>>

\* A panic ends the worker; its channels close.
ToolPanics ==
  /\ MayPanic /\ worker = "executing" /\ working # {}
  /\ worker' = "ended" /\ panicked' = TRUE
  /\ UNCHANGED <<loopVars, callerVars, announced, current, calls, working, at,
                 channelVars, granted, executed, requested, reported, verdict, crossed>>

\* join_all is done: first the messages, then one update per result.
ToolsDone ==
  /\ worker = "executing" /\ working = {}
  /\ worker' = "reporting"
  /\ box' = IF Receiving THEN Asks(IdsOf(calls)) \o Answers(IdsOf(calls)) ELSE box
  /\ UNCHANGED <<loopVars, callerVars, announced, current, calls, working, at, tx,
                 historyVars>>

ReportResult ==
  /\ worker = "reporting" /\ at <= Len(calls)
  /\ Send([kind |-> "called", of |-> calls[at].id], "reporting")
  /\ at' = at + 1
  /\ UNCHANGED <<loopVars, callerVars, announced, current, calls, working, box,
                 historyVars>>

FinishTools ==
  /\ worker = "reporting" /\ at > Len(calls)
  /\ Send(Finish("tools"), "ended")
  /\ UNCHANGED <<loopVars, callerVars, announced, current, calls, working, at, box,
                 historyVars>>

-----------------------------------------------------------------------------
(* The caller.                                                              *)

Cancel ==
  /\ MayCancel /\ ~cancelled /\ cancelled' = TRUE
  /\ UNCHANGED <<loopVars, open, style, workerVars, channelVars, historyVars>>

DropStream ==
  /\ MayDrop /\ open /\ open' = FALSE
  /\ UNCHANGED <<loopVars, cancelled, style, workerVars, channelVars, historyVars>>

LoopStep ==
  \/ StopCancelled \/ StopAtLimit \/ BeginResume \/ ResumeCall \/ ResumeDone
  \/ ConsultFails \/ StartRound \/ PollUpdate \/ PollToolCalls \/ PollEnd

\* What the model's stream does next is not up to the worker.
StreamItem == CallArgs \/ BlockDelta \/ \E c \in Ids : Announce(c) \/ CallEnd(c)
StreamOver == FinishStop \/ AskApproval \/ RunTools \/ PreviewPanics

WorkerStep ==
  \/ StreamItem \/ StreamFails \/ StreamOver
  \/ RequestApproval \/ HandOver \/ Pause
  \/ (\E i \in DOMAIN calls : ToolReturns(i)) \/ ToolPanics
  \/ ToolsDone \/ ReportResult \/ FinishTools

Idle == (phase = "over" \/ ~open) /\ worker \in {"none", "ended"}
Done == Idle /\ UNCHANGED vars

Next == LoopStep \/ WorkerStep \/ Cancel \/ DropStream \/ Done

Spec == Init /\ [][Next]_vars

\* The consumer polls the stream it holds, tokio runs the worker, the streams
\* of the model are finite and end, and tools return.
Fairness == WF_vars(LoopStep) /\ WF_vars(WorkerStep)
FairSpec == Spec /\ Fairness

-----------------------------------------------------------------------------
(* Safety                                                                   *)

\* Approval holds: a call of a gated tool runs only if the caller approved it,
\* and so does every call it was held with (README.md:371-372).
GateHolds ==
  \A c \in Ids : executed[c] > 0 =>
    /\ ToolOf[c] \in Gated => c \in granted
    /\ c \in requested => c \in granted

\* A call runs at most once, whatever rounds, resumes and drops do, with a client
\* that keeps to one of the two ways to announce calls.  (One that uses both
\* pauses with the call listed twice, and the resume runs it twice.)
AtMostOnce == style # "both" => \A c \in Ids : executed[c] <= 1

\* No call is lost, with or without its end (invoke.rs:560-562): when the loop is
\* about to consult the model again, every call its streams have announced is in
\* the conversation with its answer and its result has been reported to the
\* consumer.  The one way to lose a call is to end another while it is open.
EveryCallKept ==
  (phase = "looping" /\ responses = {} /\ worker = "ended") =>
    /\ Elements(announced) \ crossed \subseteq Answered \cap reported
    /\ Mentioned \subseteq Answered

\* So it is with a client that keeps to one of the two ways to announce calls.
NoCallLost == style # "both" => EveryCallKept

\* A stream does not end without a word: its consumer has got a finish reason
\* or an error, unless its worker panicked, in a tool or in the preview of a call;
\* and it is told that approval is awaited only when each call of the round was
\* announced to it.
EndsWithVerdict ==
  phase = "over" =>
    /\ verdict \in Reasons \/ panicked
    /\ verdict = "approval" => requested = Elements(IdsOf(calls))

\* A resume resolves what was approved: once the responses are used up each
\* approved call is answered, and it has run if its tool is registered with the
\* client.  README.md:373 says so of every approved call; one of an injected tool
\* is answered with an error (invoke.rs:333 looks at the registered tools only).
ApprovedRun ==
  responses = {} =>
    \A c \in granted : c \in Answered /\ (ToolOf[c] \in Static => executed[c] >= 1)

-----------------------------------------------------------------------------
(* Refinement and liveness                                                  *)

\* The conversation grows by whole turns: the worker, the channels, approvals,
\* cancellation and dropping cannot make the model see a call without its answer.
T == INSTANCE Turns WITH log <- messages, turns <- round, twice <- style = "both",
                         over <- phase = "over" \/ ~open
ImplementsTurns == T!Spec

\* A stream that is held ends, and the worker of each round returns even when
\* the stream is dropped.
Terminates == <>(phase = "over" \/ ~open) /\ []<>(worker \in {"none", "ended"})
===============================================================================
