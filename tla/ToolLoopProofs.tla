---------------------------- MODULE ToolLoopProofs ----------------------------
(***************************************************************************)
(* Invariants of ToolLoop for every set of calls and tools, every capacity *)
(* of the channel and every way clients announce calls; then what a round  *)
(* comes to and what it makes of a conversation: the calls that were       *)
(* approved run, the stream ends with a verdict, no announced call is lost *)
(* on its way from the stream to the messages, and the messages grow by    *)
(* the whole turns of Turns.                                               *)
(***************************************************************************)
EXTENDS ToolLoop, FiniteSetTheorems, SequenceTheorems, TLAPS

\* An update that names a call names one of Ids, a finish names a reason.
UpdatesNamed ==
  \A i \in DOMAIN tx :
    /\ tx[i].kind = "finish" => tx[i].of \in Reasons
    /\ tx[i].kind \in {"request", "called"} => tx[i].of \in Ids

\* The calls that are taken have ids.
CallsNamed ==
  worker \in {"asking", "paused", "executing", "reporting"} =>
    \A i \in DOMAIN calls : calls[i].id \in Ids

\* No tool runs while the stream is read.
ReadingIdle == worker = "reading" => working = {}

TypeInv == TypeOK /\ UpdatesNamed /\ CallsNamed /\ ReadingIdle

-----------------------------------------------------------------------------
(* The operators ToolLoop is built from.                                   *)

LEMMA MessageTypes ==
  ASSUME NEW ids \in Seq(Ids)
  PROVE  /\ Asks(ids) \in Seq(Message)
         /\ Answers(ids) \in Seq(Message)
         /\ \A c \in Ids : Answer(c) \in Message
<1>1. \A c \in Ids : Answer(c) \in Message
  BY DEF Answer, Message
<1>2. Asks(ids) \in Seq(Message)
  BY DEF Asks, Message
<1>3. Answers(ids) \in Seq(Message)
  BY <1>1, LenProperties, ElementOfSeq, IsASeq DEF Answers
<1> QED
  BY <1>1, <1>2, <1>3

LEMMA IdsOfType ==
  ASSUME NEW cs \in Seq(Call), \A i \in DOMAIN cs : cs[i].id \in Ids
  PROVE  IdsOf(cs) \in Seq(Ids) /\ Elements(IdsOf(cs)) = {cs[i].id : i \in DOMAIN cs}
<1>1. IdsOf(cs) \in Seq(Ids)
  BY LenProperties, IsASeq DEF IdsOf
<1> QED
  BY <1>1 DEF IdsOf, Elements

LEMMA TakenType == TypeOK => Taken \in Seq(Call)
  BY AppendProperties DEF TypeOK, WorkerType, Taken

CallIds(cs) == {cs[i].id : i \in DOMAIN cs}

\* No id is in two slots.
OneEach(s) == \A i, j \in DOMAIN s : s[i].id # NoId /\ s[i].id = s[j].id => i = j

\* What is retained is a selection, in order, of the slots that have an id.
LEMMA RetainedSlots ==
  ASSUME NEW s \in Seq(Call), NEW r \in Retained(s)
  PROVE  /\ r \in Seq(Call)
         /\ \A k \in DOMAIN r : r[k].id \in Ids /\ \E i \in DOMAIN s : r[k] = s[i]
         /\ OneEach(s) => Distinct(IdsOf(r))
<1> DEFINE slots == {i \in DOMAIN s : s[i].id # NoId}
           n == Cardinality(slots)
<1>1. n \in Nat
  <2>1. IsFiniteSet(DOMAIN s)
    BY LenProperties, FS_Interval
  <2> QED
    BY <2>1, FS_Subset, FS_CardinalityType
<1>2. PICK f \in [1 .. n -> slots] :
        /\ \A i, j \in DOMAIN f : i < j => f[i] < f[j]
        /\ r = [k \in DOMAIN f |-> s[f[k]]]
  BY DEF Retained
<1>3. DOMAIN f = 1 .. n /\ DOMAIN r = 1 .. n
  BY <1>2
<1>4. \A k \in 1 .. n : f[k] \in slots /\ r[k] = s[f[k]]
  BY <1>2
<1>5. \A i \in slots : s[i] \in Call /\ s[i].id \in Ids
  <2>1. \A i \in DOMAIN s : s[i] \in Call
    OBVIOUS
  <2> QED
    BY <2>1 DEF Call
<1>6. r \in Seq(Call)
  BY <1>1, <1>2, <1>3, <1>4, <1>5, IsASeq
<1>7. \A k, l \in 1 .. n : f[k] = f[l] => k = l
  <2> SUFFICES ASSUME NEW k \in 1 .. n, NEW l \in 1 .. n, f[k] = f[l], k # l PROVE FALSE
    OBVIOUS
  <2>1. f[k] \in Nat /\ f[l] \in Nat
    BY <1>4, LenProperties
  <2>2. k < l \/ l < k
    BY <1>1
  <2> QED
    BY <1>2, <1>3, <2>1, <2>2
<1>8. ASSUME OneEach(s) PROVE Distinct(IdsOf(r))
  <2> SUFFICES ASSUME NEW k \in 1 .. n, NEW l \in 1 .. n, r[k].id = r[l].id PROVE k = l
    BY <1>3 DEF Distinct, IdsOf
  <2> QED
    BY <1>4, <1>7, <1>8 DEF OneEach
<1> QED
  BY <1>3, <1>4, <1>5, <1>6, <1>8

\* ToolCallDelta extends the slots up to its index.
LEMMA CallDeltaType ==
  ASSUME TypeOK, NEW c \in Ids \cup {NoId}, NEW index \in Nat, CallDelta(c, index)
  PROVE  /\ calls' \in Seq(Call) /\ current' = current
         /\ \A i \in DOMAIN calls' :
              \/ i = index /\ calls'[i] = [id |-> c, args |-> TRUE]
              \/ i # index /\ i \in DOMAIN calls /\ calls'[i] = calls[i]
              \/ i # index /\ calls'[i] = NoCall
<1> DEFINE m == IF index > Len(calls) THEN index ELSE Len(calls)
           slots == [i \in 1 .. m |-> IF i <= Len(calls) THEN calls[i] ELSE NoCall]
<1>1. calls \in Seq(Call) /\ Len(calls) \in Nat /\ DOMAIN calls = 1 .. Len(calls)
  BY LenProperties DEF TypeOK, WorkerType
<1>2. m \in Nat
  BY <1>1
<1>3. [id |-> c, args |-> TRUE] \in Call /\ NoCall \in Call
  BY DEF Call, NoCall
<1>4. \A i \in 1 .. m : slots[i] \in Call
  BY <1>1, <1>3, ElementOfSeq
<1>5. calls' = [slots EXCEPT ![index] = [id |-> c, args |-> TRUE]] /\ current' = current
  BY DEF CallDelta
<1>6. DOMAIN calls' = 1 .. m
  BY <1>5
<1>7. \A i \in 1 .. m : calls'[i] = IF i = index THEN [id |-> c, args |-> TRUE] ELSE slots[i]
  BY <1>5
<1>8. calls' \in Seq(Call)
  <2>1. calls' = [i \in 1 .. m |-> calls'[i]]
    BY <1>5
  <2>2. \A i \in 1 .. m : calls'[i] \in Call
    BY <1>3, <1>4, <1>7
  <2> QED
    BY <1>2, <2>1, <2>2, IsASeq
<1>9. ASSUME NEW i \in 1 .. m, i # index
      PROVE  (i \in DOMAIN calls /\ calls'[i] = calls[i]) \/ calls'[i] = NoCall
  <2>1. calls'[i] = IF i <= Len(calls) THEN calls[i] ELSE NoCall
    BY <1>7, <1>9
  <2> QED
    BY <1>1, <1>2, <2>1
<1> QED
  BY <1>5, <1>6, <1>7, <1>8, <1>9

LEMMA CallStartType ==
  ASSUME TypeOK, NEW c \in Ids, CallStart(c)
  PROVE  calls' \in Seq(Call) /\ current' \in Call
  BY AppendProperties DEF TypeOK, WorkerType, CallStart, Call

-----------------------------------------------------------------------------
(* Type correctness, action by action.                                     *)

LEMMA TypeInvInit == Init => TypeInv
<1> SUFFICES ASSUME Init PROVE TypeInv
  OBVIOUS
<1>1. LoopType
  <2>1. PICK p \in Pending : /\ messages = IF p = <<>> THEN <<>> ELSE Asks(p)
                             /\ responses \in SUBSET Elements(p)
    BY DEF Init
  <2>2. p \in Seq(Ids) /\ <<>> \in Seq(Message) /\ <<>> \in Seq(Ids)
    BY <2>1, LoopAssumption, EmptySeq
  <2>3. messages \in Seq(Message)
    BY <2>1, <2>2, MessageTypes
  <2>4. responses \subseteq Ids
    BY <2>1, <2>2, LenProperties, ElementOfSeq DEF Elements
  <2> QED
    BY <2>2, <2>3, <2>4 DEF Init, LoopType
<1>2. CallerType
  BY DEF Init, CallerType
<1>3. WorkerType
  BY EmptySeq DEF Init, WorkerType, Call, NoCall
<1>4. ChannelType
  BY EmptySeq, LoopAssumption DEF Init, ChannelType
<1>5. HistoryType
  BY <1>1 DEF Init, HistoryType, LoopType
<1>6. UpdatesNamed /\ CallsNamed /\ ReadingIdle
  BY DEF Init, UpdatesNamed, CallsNamed, ReadingIdle
<1> QED
  BY <1>1, <1>2, <1>3, <1>4, <1>5, <1>6 DEF TypeInv, TypeOK

\* A group of variables that a step leaves alone keeps its type.
LEMMA Frame ==
  ASSUME TypeInv
  PROVE  /\ UNCHANGED loopVars => LoopType'
         /\ UNCHANGED callerVars => CallerType'
         /\ UNCHANGED workerVars => WorkerType' /\ CallsNamed' /\ ReadingIdle'
         /\ UNCHANGED channelVars => ChannelType' /\ UpdatesNamed'
         /\ UNCHANGED historyVars => HistoryType'
<1>1. UNCHANGED loopVars => LoopType'
  BY DEF TypeInv, TypeOK, LoopType, loopVars
<1>2. UNCHANGED callerVars => CallerType'
  BY DEF TypeInv, TypeOK, CallerType, callerVars
<1>3. UNCHANGED workerVars => WorkerType' /\ CallsNamed' /\ ReadingIdle'
  BY DEF TypeInv, TypeOK, WorkerType, CallsNamed, ReadingIdle, workerVars
<1>4. UNCHANGED channelVars => ChannelType' /\ UpdatesNamed'
  BY DEF TypeInv, TypeOK, ChannelType, UpdatesNamed, channelVars
<1>5. UNCHANGED historyVars => HistoryType'
  BY DEF TypeInv, TypeOK, HistoryType, historyVars
<1> QED
  BY <1>1, <1>2, <1>3, <1>4, <1>5

LEMMA StopType ==
  ASSUME TypeInv, NEW v \in Reasons, Stop(v)
  PROVE  TypeInv'
<1>1. LoopType'
  BY DEF Stop, TypeInv, TypeOK, LoopType
<1>2. HistoryType'
  BY DEF Stop, TypeInv, TypeOK, HistoryType
<1> QED
  BY <1>1, <1>2, Frame DEF Stop, TypeInv, TypeOK

LEMMA BeginResumeType == ASSUME TypeInv, BeginResume PROVE TypeInv'
<1>1. PICK i \in DOMAIN messages : todo' = messages[i].ids
  BY DEF BeginResume
<1>2. todo' \in Seq(Ids)
  <2>1. messages[i] \in Message
    BY DEF TypeInv, TypeOK, LoopType
  <2> QED
    BY <1>1, <2>1 DEF Message
<1>3. LoopType'
  BY <1>2, EmptySeq DEF BeginResume, TypeInv, TypeOK, LoopType
<1> QED
  BY <1>3, Frame DEF BeginResume, TypeInv, TypeOK

LEMMA ResumeCallType == ASSUME TypeInv, ResumeCall PROVE TypeInv'
<1>1. Head(todo) \in Ids /\ Tail(todo) \in Seq(Ids)
  BY HeadTailProperties DEF ResumeCall, TypeInv, TypeOK, LoopType
<1>2. answers' \in Seq(Message)
  BY <1>1, MessageTypes, EmptySeq, AppendProperties DEF ResumeCall, TypeInv, TypeOK, LoopType
<1>3. LoopType'
  BY <1>1, <1>2 DEF ResumeCall, TypeInv, TypeOK, LoopType
<1>4. HistoryType'
  BY <1>1 DEF ResumeCall, TypeInv, TypeOK, HistoryType
<1> QED
  BY <1>3, <1>4, Frame DEF ResumeCall, TypeInv, TypeOK

LEMMA ResumeDoneType == ASSUME TypeInv, ResumeDone PROVE TypeInv'
<1>1. messages' \in Seq(Message)
  BY ConcatProperties DEF ResumeDone, TypeInv, TypeOK, LoopType
<1>2. LoopType'
  BY <1>1, EmptySeq DEF ResumeDone, TypeInv, TypeOK, LoopType
<1> QED
  BY <1>2, Frame DEF ResumeDone, TypeInv, TypeOK

LEMMA StartRoundType == ASSUME TypeInv, StartRound PROVE TypeInv'
<1>1. LoopType'
  BY DEF StartRound, TypeInv, TypeOK, LoopType
<1>2. WorkerType' /\ CallsNamed' /\ ReadingIdle'
  BY EmptySeq DEF StartRound, WorkerType, CallsNamed, ReadingIdle, Call, NoCall
<1>3. ChannelType' /\ UpdatesNamed'
  BY EmptySeq, LoopAssumption DEF StartRound, ChannelType, UpdatesNamed
<1> QED
  BY <1>1, <1>2, <1>3, Frame DEF StartRound, TypeInv, TypeOK

\* Taking the first update leaves the others typed and named.
LEMMA ReceiveType ==
  ASSUME TypeInv, tx # <<>>, tx' = Tail(tx)
  PROVE  /\ tx' \in Seq(Update) /\ Len(tx') <= Capacity /\ UpdatesNamed'
         /\ Head(tx) = tx[1] /\ 1 \in DOMAIN tx
         /\ \A i \in DOMAIN tx' : i + 1 \in DOMAIN tx /\ tx'[i] = tx[i + 1]
<1>1. tx \in Seq(Update) /\ Len(tx) \in Nat /\ Len(tx) <= Capacity /\ Capacity \in Nat
  BY LenProperties, LoopAssumption DEF TypeInv, TypeOK, ChannelType
<1>2. tx' \in Seq(Update) /\ Len(tx') = Len(tx) - 1 /\ Head(tx) = tx[1] /\ 1 \in DOMAIN tx
  BY <1>1, HeadTailProperties, LenProperties
<1>3. \A i \in DOMAIN tx' : i + 1 \in DOMAIN tx /\ tx'[i] = tx[i + 1]
  BY <1>1, <1>2, LenProperties
<1>4. UpdatesNamed'
  BY <1>3 DEF TypeInv, UpdatesNamed
<1> QED
  BY <1>1, <1>2, <1>3, <1>4

LEMMA PollUpdateType == ASSUME TypeInv, PollUpdate PROVE TypeInv'
<1>1. /\ tx' \in Seq(Update) /\ Len(tx') <= Capacity /\ UpdatesNamed'
      /\ Head(tx) = tx[1] /\ 1 \in DOMAIN tx
  BY ReceiveType DEF PollUpdate
<1>2. /\ Head(tx).kind = "finish" => Head(tx).of \in Reasons
      /\ Head(tx).kind \in {"request", "called"} => Head(tx).of \in Ids
  BY <1>1 DEF TypeInv, UpdatesNamed
<1>3. ChannelType'
  BY <1>1 DEF PollUpdate, TypeInv, TypeOK, ChannelType
<1>4. HistoryType'
  BY <1>2 DEF PollUpdate, Received, TypeInv, TypeOK, HistoryType
<1>5. LoopType'
  BY DEF PollUpdate, TypeInv, TypeOK, LoopType
<1> QED
  BY <1>1, <1>3, <1>4, <1>5, Frame DEF PollUpdate, TypeInv, TypeOK

LEMMA PollToolCallsType == ASSUME TypeInv, PollToolCalls PROVE TypeInv'
<1>1. messages' \in Seq(Message)
  BY ConcatProperties DEF PollToolCalls, TypeInv, TypeOK, LoopType, ChannelType
<1>2. LoopType'
  BY <1>1 DEF PollToolCalls, TypeInv, TypeOK, LoopType
<1>3. ChannelType' /\ UpdatesNamed'
  BY EmptySeq, LoopAssumption DEF PollToolCalls, ChannelType, UpdatesNamed
<1> QED
  BY <1>2, <1>3, Frame DEF PollToolCalls, TypeInv, TypeOK

LEMMA PollEndType == ASSUME TypeInv, PollEnd PROVE TypeInv'
<1>1. LoopType'
  BY DEF PollEnd, TypeInv, TypeOK, LoopType
<1> QED
  BY <1>1, Frame DEF PollEnd, TypeInv, TypeOK

LEMMA LoopStepType == ASSUME TypeInv, LoopStep PROVE TypeInv'
<1>1. CASE StopCancelled \/ StopAtLimit \/ ConsultFails
  BY <1>1, StopType DEF StopCancelled, StopAtLimit, ConsultFails, Reasons
<1> QED
  BY <1>1, BeginResumeType, ResumeCallType, ResumeDoneType, StartRoundType,
     PollUpdateType, PollToolCallsType, PollEndType
  DEF LoopStep

\* A send appends one update, if there is room, or ends the worker.
LEMMA SendType ==
  ASSUME TypeInv, NEW u \in Update, NEW after, Send(u, after), UNCHANGED box,
         u.kind = "finish" => u.of \in Reasons,
         u.kind \in {"request", "called"} => u.of \in Ids
  PROVE  /\ ChannelType' /\ UpdatesNamed'
         /\ worker' \in {after, "ended"}
         /\ \A i \in DOMAIN tx' : (i \in DOMAIN tx /\ tx'[i] = tx[i]) \/ tx'[i] = u
<1>1. tx \in Seq(Update) /\ Len(tx) \in Nat /\ Len(tx) <= Capacity /\ Capacity \in Nat
  BY LenProperties, LoopAssumption DEF TypeInv, TypeOK, ChannelType
<1>2. CASE Receiving /\ Len(tx) < Capacity /\ tx' = Append(tx, u) /\ worker' = after
  <2>1. tx' \in Seq(Update) /\ Len(tx') <= Capacity
    BY <1>1, <1>2, AppendProperties
  <2>2. \A i \in DOMAIN tx' : (i \in DOMAIN tx /\ tx'[i] = tx[i]) \/ tx'[i] = u
    BY <1>1, <1>2, AppendProperties, LenProperties
  <2>3. UpdatesNamed'
    BY <2>2 DEF TypeInv, UpdatesNamed
  <2> QED
    BY <1>2, <2>1, <2>2, <2>3 DEF TypeInv, TypeOK, ChannelType
<1>3. CASE worker' = "ended" /\ UNCHANGED tx
  BY <1>3 DEF TypeInv, TypeOK, ChannelType, UpdatesNamed
<1> QED
  BY <1>2, <1>3 DEF Send

\* A step that only reads the stream or sends: what is left to check of it.
LEMMA WorkerSendType ==
  ASSUME TypeInv, NEW u \in Update, NEW after \in {"reading", "asking", "reporting", "ended"},
         Send(u, after), UNCHANGED <<loopVars, callerVars, box, historyVars>>,
         u.kind = "finish" => u.of \in Reasons,
         u.kind \in {"request", "called"} => u.of \in Ids,
         announced' \in Seq(Ids), current' \in Call, calls' \in Seq(Call),
         working' \subseteq DOMAIN calls', at' \in Nat \ {0},
         after = "reading" => working' = {},
         after \in {"asking", "reporting"} => \A i \in DOMAIN calls' : calls'[i].id \in Ids
  PROVE  TypeInv'
<1>1. ChannelType' /\ UpdatesNamed' /\ worker' \in {after, "ended"}
  BY SendType
<1>2. WorkerType'
  BY <1>1 DEF WorkerType
<1>3. CallsNamed' /\ ReadingIdle'
  BY <1>1 DEF CallsNamed, ReadingIdle
<1> QED
  BY <1>1, <1>2, <1>3, Frame DEF TypeInv, TypeOK

LEMMA UpdateTypes ==
  /\ Chunk \in Update
  /\ \A r \in Reasons : Finish(r) \in Update
  /\ \A c \in Ids : \A k \in {"start", "request", "called"} : [kind |-> k, of |-> c] \in Update
  BY DEF Chunk, Finish, Update

LEMMA WorkerFacts ==
  ASSUME TypeInv
  PROVE  /\ announced \in Seq(Ids) /\ Len(announced) \in Nat
         /\ current \in Call /\ calls \in Seq(Call) /\ Len(calls) \in Nat
         /\ DOMAIN calls = 1 .. Len(calls)
         /\ working \subseteq DOMAIN calls /\ at \in Nat \ {0}
  BY LenProperties DEF TypeInv, TypeOK, WorkerType

LEMMA AnnounceType == ASSUME TypeInv, NEW c \in Ids, Announce(c) PROVE TypeInv'
<1> DEFINE u == [kind |-> "start", of |-> c]
<1>1. announced' \in Seq(Ids)
  BY WorkerFacts, AppendProperties DEF Announce
<1>2. calls' \in Seq(Call) /\ current' \in Call
  <2>1. CASE style = "delta"
    BY <2>1, WorkerFacts, CallDeltaType DEF Announce, TypeInv
  <2>2. CASE style # "delta"
    BY <2>2, CallStartType DEF Announce, TypeInv
  <2> QED
    BY <2>1, <2>2
<1>3. working = {} /\ worker = "reading"
  BY DEF Announce, TypeInv, ReadingIdle
<1>4. Send(u, "reading") /\ UNCHANGED <<loopVars, callerVars, working, at, box, historyVars>>
  BY DEF Announce, readOnly
<1>5. u \in Update /\ u.kind = "start"
  BY UpdateTypes
<1> QED
  BY <1>1, <1>2, <1>3, <1>4, <1>5, WorkerFacts, WorkerSendType

LEMMA CallArgsType == ASSUME TypeInv, CallArgs PROVE TypeInv'
<1>1. current' \in Call
  BY WorkerFacts DEF CallArgs, Call
<1>2. working = {}
  BY DEF CallArgs, TypeInv, ReadingIdle
<1>3. Chunk \in Update /\ Chunk.kind = "chunk"
  BY UpdateTypes DEF Chunk
<1> QED
  BY <1>1, <1>2, <1>3, WorkerFacts, WorkerSendType DEF CallArgs, readOnly

LEMMA CallEndType == ASSUME TypeInv, NEW c \in Ids, CallEnd(c) PROVE TypeInv'
<1>1. calls' \in Seq(Call) /\ current' \in Call
  BY WorkerFacts, AppendProperties DEF CallEnd, Call, NoCall
<1>2. working = {}
  BY DEF CallEnd, TypeInv, ReadingIdle
<1>3. Chunk \in Update /\ Chunk.kind = "chunk"
  BY UpdateTypes DEF Chunk
<1>4. HistoryType'
  <2>1. current.id \in Ids \cup {NoId}
    BY WorkerFacts DEF Call
  <2> QED
    BY <2>1 DEF CallEnd, TypeInv, TypeOK, HistoryType
<1>5. ChannelType' /\ UpdatesNamed' /\ worker' \in {"reading", "ended"}
  BY <1>3, SendType DEF CallEnd
<1>6. WorkerType' /\ CallsNamed' /\ ReadingIdle'
  BY <1>1, <1>2, <1>5, WorkerFacts DEF CallEnd, WorkerType, CallsNamed, ReadingIdle
<1> QED
  BY <1>4, <1>5, <1>6, Frame DEF CallEnd, TypeInv, TypeOK

LEMMA BlockDeltaType == ASSUME TypeInv, BlockDelta PROVE TypeInv'
<1>1. calls' \in Seq(Call) /\ current' \in Call
  <2>1. current.id \in Ids \cup {NoId}
    BY WorkerFacts DEF Call
  <2> QED
    BY <2>1, WorkerFacts, LoopAssumption, CallDeltaType DEF BlockDelta, TypeInv
<1>2. working = {}
  BY DEF BlockDelta, TypeInv, ReadingIdle
<1>3. Chunk \in Update /\ Chunk.kind = "chunk"
  BY UpdateTypes DEF Chunk
<1> QED
  BY <1>1, <1>2, <1>3, WorkerFacts, WorkerSendType DEF BlockDelta, readOnly

LEMMA FinishTypes ==
  \A r \in Reasons : /\ Finish(r) \in Update /\ Finish(r).kind = "finish"
                     /\ Finish(r).of \in Reasons
  BY UpdateTypes DEF Finish

\* The worker's last send, whichever it is.
LEMMA FinishType ==
  ASSUME TypeInv, NEW r \in Reasons, Send(Finish(r), "ended"),
         UNCHANGED <<loopVars, callerVars, announced, current, calls, working, at, box,
                     historyVars>>
  PROVE  TypeInv'
<1>1. Finish(r) \in Update /\ Finish(r).kind = "finish" /\ Finish(r).of \in Reasons
  BY FinishTypes
<1> QED
  BY <1>1, WorkerFacts, WorkerSendType

\* The calls the worker takes at the end of the stream.
LEMMA TakeType ==
  ASSUME TypeInv, calls' \in Retained(Taken) \ {<<>>}
  PROVE  calls' \in Seq(Call) /\ \A i \in DOMAIN calls' : calls'[i].id \in Ids
  BY TakenType, RetainedSlots DEF TypeInv

LEMMA AskApprovalType == ASSUME TypeInv, AskApproval PROVE TypeInv'
<1>1. calls' \in Seq(Call) /\ \A i \in DOMAIN calls' : calls'[i].id \in Ids
  BY TakeType DEF AskApproval
<1>2. working' = {} /\ worker' = "asking" /\ current' \in Call
  BY DEF AskApproval, TypeInv, ReadingIdle, Call, NoCall
<1>3. WorkerType'
  BY <1>1, <1>2, WorkerFacts DEF AskApproval, WorkerType
<1>4. CallsNamed' /\ ReadingIdle'
  BY <1>1, <1>2 DEF CallsNamed, ReadingIdle
<1> QED
  BY <1>3, <1>4, Frame DEF AskApproval, TypeInv, TypeOK

\* The call the worker is about to report.
LEMMA NextCall ==
  ASSUME TypeInv, worker \in {"asking", "reporting"}, at <= Len(calls)
  PROVE  at \in DOMAIN calls /\ calls[at].id \in Ids
<1>1. at \in DOMAIN calls
  BY WorkerFacts
<1> QED
  BY <1>1 DEF TypeInv, CallsNamed

LEMMA RequestApprovalType == ASSUME TypeInv, RequestApproval PROVE TypeInv'
<1> DEFINE u == [kind |-> "request", of |-> calls[at].id]
<1>1. calls[at].id \in Ids /\ worker = "asking"
  BY NextCall DEF RequestApproval
<1>2. u \in Update /\ u.kind = "request" /\ u.of \in Ids
  BY <1>1, UpdateTypes
<1>3. Send(u, "asking") /\ at' \in Nat \ {0}
  BY WorkerFacts DEF RequestApproval
<1>4. \A i \in DOMAIN calls : calls[i].id \in Ids
  BY <1>1 DEF TypeInv, CallsNamed
<1> QED
  BY <1>2, <1>3, <1>4, WorkerFacts, WorkerSendType DEF RequestApproval

LEMMA ReportResultType == ASSUME TypeInv, ReportResult PROVE TypeInv'
<1> DEFINE u == [kind |-> "called", of |-> calls[at].id]
<1>1. calls[at].id \in Ids /\ worker = "reporting"
  BY NextCall DEF ReportResult
<1>2. u \in Update /\ u.kind = "called" /\ u.of \in Ids
  BY <1>1, UpdateTypes
<1>3. Send(u, "reporting") /\ at' \in Nat \ {0}
  BY WorkerFacts DEF ReportResult
<1>4. \A i \in DOMAIN calls : calls[i].id \in Ids
  BY <1>1 DEF TypeInv, CallsNamed
<1> QED
  BY <1>2, <1>3, <1>4, WorkerFacts, WorkerSendType DEF ReportResult

\* The messages of a round, of a pause or of finished tools.
LEMMA BoxType ==
  ASSUME TypeInv, worker \in {"asking", "executing"},
         box' \in {box, Asks(IdsOf(calls)), Asks(IdsOf(calls)) \o Answers(IdsOf(calls))},
         UNCHANGED tx
  PROVE  ChannelType' /\ UpdatesNamed'
<1>1. \A i \in DOMAIN calls : calls[i].id \in Ids
  BY DEF TypeInv, CallsNamed
<1>2. IdsOf(calls) \in Seq(Ids)
  BY <1>1, WorkerFacts, IdsOfType
<1>3. Asks(IdsOf(calls)) \in Seq(Message) /\ Answers(IdsOf(calls)) \in Seq(Message)
  BY <1>2, MessageTypes
<1>4. box' \in Seq(Message)
  BY <1>3, ConcatProperties DEF TypeInv, TypeOK, ChannelType
<1> QED
  BY <1>4 DEF TypeInv, TypeOK, ChannelType, UpdatesNamed

LEMMA HandOverType == ASSUME TypeInv, HandOver PROVE TypeInv'
<1>1. ChannelType' /\ UpdatesNamed'
  BY BoxType DEF HandOver
<1>2. WorkerType' /\ CallsNamed' /\ ReadingIdle'
  BY DEF HandOver, TypeInv, TypeOK, WorkerType, CallsNamed, ReadingIdle
<1> QED
  BY <1>1, <1>2, Frame DEF HandOver, TypeInv, TypeOK

\* RunTools counts a run for each call that starts.
LEMMA RunToolsType == ASSUME TypeInv, RunTools PROVE TypeInv'
<1>1. calls' \in Seq(Call) /\ \A i \in DOMAIN calls' : calls'[i].id \in Ids
  BY TakeType DEF RunTools
<1>2. working' \subseteq DOMAIN calls' /\ worker' = "executing" /\ current' \in Call
  BY DEF RunTools, Call, NoCall
<1>3. WorkerType'
  BY <1>1, <1>2, WorkerFacts DEF RunTools, WorkerType
<1>4. CallsNamed' /\ ReadingIdle'
  BY <1>1, <1>2 DEF CallsNamed, ReadingIdle
<1>5. IsFiniteSet(working')
  BY <1>1, <1>2, LenProperties, FS_Interval, FS_Subset
<1>6. \A c \in Ids : Cardinality({i \in working' : calls'[i].id = c}) \in Nat
  BY <1>5, FS_Subset, FS_CardinalityType
<1>7. executed' \in [Ids -> Nat]
  BY <1>6 DEF RunTools, TypeInv, TypeOK, HistoryType
<1>8. HistoryType'
  BY <1>7 DEF RunTools, TypeInv, TypeOK, HistoryType
<1> QED
  BY <1>3, <1>4, <1>8, Frame DEF RunTools, TypeInv, TypeOK

LEMMA ToolStepType ==
  ASSUME TypeInv, (\E i \in DOMAIN calls : ToolReturns(i)) \/ ToolPanics \/ PreviewPanics
  PROVE  TypeInv'
<1>1. /\ working' \subseteq working /\ worker' \in {"executing", "ended"}
      /\ worker' = "executing" => worker = "executing"
      /\ UNCHANGED <<loopVars, callerVars, announced, current, calls, at, channelVars>>
  BY DEF ToolReturns, ToolPanics, PreviewPanics
<1>2. WorkerType'
  BY <1>1, WorkerFacts DEF WorkerType
<1>3. CallsNamed' /\ ReadingIdle'
  BY <1>1 DEF TypeInv, CallsNamed, ReadingIdle
<1>4. HistoryType'
  BY DEF ToolReturns, ToolPanics, PreviewPanics, historyVars, TypeInv, TypeOK, HistoryType
<1> QED
  BY <1>1, <1>2, <1>3, <1>4, Frame DEF TypeInv, TypeOK

LEMMA ToolsDoneType == ASSUME TypeInv, ToolsDone PROVE TypeInv'
<1>1. ChannelType' /\ UpdatesNamed'
  BY BoxType DEF ToolsDone
<1>2. WorkerType' /\ CallsNamed' /\ ReadingIdle'
  BY DEF ToolsDone, TypeInv, TypeOK, WorkerType, CallsNamed, ReadingIdle
<1> QED
  BY <1>1, <1>2, Frame DEF ToolsDone, TypeInv, TypeOK

LEMMA WorkerStepType == ASSUME TypeInv, WorkerStep PROVE TypeInv'
<1>1. CASE StreamItem
  BY <1>1, CallArgsType, CallEndType, BlockDeltaType, AnnounceType DEF StreamItem
<1>2. CASE StreamFails \/ FinishStop \/ Pause \/ FinishTools
  <2>1. {"error", "stop", "approval", "tools"} \subseteq Reasons
    BY DEF Reasons
  <2> QED
    BY <1>2, <2>1, FinishType DEF StreamFails, FinishStop, Pause, FinishTools, readOnly
<1> QED
  BY <1>1, <1>2, AskApprovalType, RunToolsType, RequestApprovalType, HandOverType,
     ToolStepType, ToolsDoneType, ReportResultType
  DEF WorkerStep, StreamOver

LEMMA CallerStepType == ASSUME TypeInv, Cancel \/ DropStream PROVE TypeInv'
<1>1. CallerType'
  BY DEF Cancel, DropStream, TypeInv, TypeOK, CallerType
<1> QED
  BY <1>1, Frame DEF Cancel, DropStream, TypeInv, TypeOK

LEMMA TypeInvStep == TypeInv /\ [Next]_vars => TypeInv'
<1> SUFFICES ASSUME TypeInv, [Next]_vars PROVE TypeInv'
  OBVIOUS
<1>1. CASE UNCHANGED vars
  BY <1>1, Frame DEF vars, TypeInv, TypeOK
<1> QED
  BY <1>1, LoopStepType, WorkerStepType, CallerStepType DEF Next, Done

\* Every variable keeps its type in every run: the channel stays within its
\* capacity and every update and message names calls the model may make.
THEOREM TypeCorrect == Spec => []TypeOK
<1>1. Spec => []TypeInv
  BY TypeInvInit, TypeInvStep, PTL DEF Spec
<1>2. TypeInv => TypeOK
  BY DEF TypeInv
<1> QED
  BY <1>1, <1>2, PTL

-----------------------------------------------------------------------------
(* The loop and its worker.                                                 *)

\* Only the loop that waits for its round has a worker at work.
RoundOwnsWorker == phase # "streaming" => worker \in {"none", "ended"}

\* A finish is the last thing a worker sends.
FinishIsLast == \A i \in DOMAIN tx : tx[i].kind = "finish" => worker = "ended"

ControlInv == RoundOwnsWorker /\ FinishIsLast

\* What a worker step leaves to the loop and the caller.
LEMMA WorkerStepShape ==
  ASSUME WorkerStep
  PROVE  /\ worker \notin {"none", "ended"}
         /\ UNCHANGED <<loopVars, callerVars, granted, requested, reported, verdict>>
         /\ RunTools \/ UNCHANGED executed
         /\ StreamItem \/ UNCHANGED crossed
<1>1. CASE StreamItem
  BY <1>1 DEF StreamItem, Announce, CallArgs, CallEnd, BlockDelta, readOnly, historyVars
<1>2. CASE StreamFails \/ FinishStop
  BY <1>2 DEF StreamFails, FinishStop, readOnly, historyVars
<1>3. CASE AskApproval \/ RunTools
  BY <1>3 DEF AskApproval, RunTools, historyVars
<1>4. CASE RequestApproval \/ HandOver \/ Pause
  BY <1>4 DEF RequestApproval, HandOver, Pause, historyVars
<1>5. CASE (\E i \in DOMAIN calls : ToolReturns(i)) \/ ToolPanics
  BY <1>5 DEF ToolReturns, ToolPanics, historyVars
<1>6. CASE ToolsDone \/ ReportResult \/ FinishTools
  BY <1>6 DEF ToolsDone, ReportResult, FinishTools, historyVars
<1>7. CASE PreviewPanics
  BY <1>7 DEF PreviewPanics
<1> QED
  BY <1>1, <1>2, <1>3, <1>4, <1>5, <1>6, <1>7 DEF WorkerStep, StreamOver

\* The steps of the worker that send nothing, and its sends: of what kind, from
\* where, and where it goes on.
QuietStep ==
  \/ AskApproval \/ RunTools \/ HandOver \/ ToolPanics \/ PreviewPanics \/ ToolsDone
  \/ \E i \in DOMAIN calls : ToolReturns(i)

SendsOnly(u, after) ==
  /\ Send(u, after) /\ UNCHANGED <<box, executed>>
  /\ worker # "executing" /\ (after = "reading" => StreamItem)
  /\ u \in Update /\ after \in {worker, "ended"}
  /\ u.kind = "finish" => u.of \in Reasons /\ after = "ended"
  /\ u.kind \in {"request", "called"} => u.of \in Ids
  /\ u.kind = "request" => worker = "asking" /\ u.of \in CallIds(calls)
  /\ u = Finish("tools") => worker = "reporting"
  /\ worker = "reading" \/ UNCHANGED calls

LEMMA WorkerSends ==
  ASSUME TypeInv, WorkerStep
  PROVE  \/ \E u \in Update, after \in {worker, "ended"} : SendsOnly(u, after)
         \/ QuietStep
<1> USE DEF CallIds, historyVars
<1>1. CASE StreamItem
  <2>1. worker = "reading"
    BY <1>1 DEF StreamItem, Announce, CallArgs, CallEnd, BlockDelta
  <2>2. CASE \E c \in Ids : Announce(c)
    <3>1. PICK c \in Ids : Announce(c)
      BY <2>2
    <3> DEFINE u == [kind |-> "start", of |-> c]
    <3>2. Send(u, "reading") /\ UNCHANGED <<box, executed>>
      BY <3>1 DEF Announce, readOnly
    <3>3. u \in Update /\ u.kind = "start" /\ u # Finish("tools")
      BY UpdateTypes DEF Finish
    <3> QED
      BY <1>1, <2>1, <3>2, <3>3 DEF SendsOnly
  <2>3. CASE CallArgs \/ BlockDelta \/ \E c \in Ids : CallEnd(c)
    <3>1. Send(Chunk, "reading") /\ UNCHANGED <<box, executed>>
      BY <2>3 DEF CallArgs, CallEnd, BlockDelta, readOnly
    <3>2. Chunk \in Update /\ Chunk.kind = "chunk" /\ Chunk # Finish("tools")
      BY UpdateTypes DEF Chunk, Finish
    <3> QED
      BY <1>1, <2>1, <3>1, <3>2 DEF SendsOnly
  <2> QED
    BY <1>1, <2>2, <2>3 DEF StreamItem
<1>2. CASE StreamFails \/ FinishStop \/ Pause \/ FinishTools
  <2>1. PICK r \in {"error", "stop", "approval", "tools"} :
          /\ Send(Finish(r), "ended") /\ UNCHANGED <<box, executed, calls>>
          /\ worker # "executing"
          /\ r = "tools" => worker = "reporting"
    BY <1>2 DEF StreamFails, FinishStop, Pause, FinishTools, readOnly
  <2>2. r \in Reasons
    BY DEF Reasons
  <2>3. Finish(r) \in Update /\ Finish(r).kind = "finish" /\ Finish(r).of = r
    BY <2>2, UpdateTypes DEF Finish
  <2>4. Finish(r) = Finish("tools") => worker = "reporting"
    BY <2>1 DEF Finish
  <2> QED
    BY <2>1, <2>2, <2>3, <2>4 DEF SendsOnly
<1>3. CASE RequestApproval
  <2> DEFINE u == [kind |-> "request", of |-> calls[at].id]
  <2>1. at \in DOMAIN calls /\ calls[at].id \in Ids /\ worker = "asking"
    BY <1>3, NextCall DEF RequestApproval
  <2>2. u \in Update /\ u.kind = "request" /\ u.of \in CallIds(calls) /\ u # Finish("tools")
    BY <2>1, UpdateTypes DEF Finish
  <2>3. Send(u, "asking") /\ UNCHANGED <<box, executed, calls>>
    BY <1>3 DEF RequestApproval
  <2> QED
    BY <2>1, <2>2, <2>3 DEF SendsOnly
<1>4. CASE ReportResult
  <2> DEFINE u == [kind |-> "called", of |-> calls[at].id]
  <2>1. calls[at].id \in Ids /\ worker = "reporting"
    BY <1>4, NextCall DEF ReportResult
  <2>2. u \in Update /\ u.kind = "called" /\ u # Finish("tools")
    BY <2>1, UpdateTypes DEF Finish
  <2>3. Send(u, "reporting") /\ UNCHANGED <<box, executed, calls>>
    BY <1>4 DEF ReportResult
  <2> QED
    BY <2>1, <2>2, <2>3 DEF SendsOnly
<1> QED
  BY <1>1, <1>2, <1>3, <1>4 DEF WorkerStep, StreamOver, QuietStep

\* What a send leaves in the channel, and where.
LEMMA SendsOnlyShape ==
  ASSUME TypeInv, NEW u \in Update, NEW after, SendsOnly(u, after)
  PROVE  /\ worker' \in {after, "ended"}
         /\ \A i \in DOMAIN tx' : (i \in DOMAIN tx /\ tx'[i] = tx[i]) \/ tx'[i] = u
  BY SendType DEF SendsOnly

LEMMA BusyWorker ==
  ASSUME ControlInv, worker \notin {"none", "ended"}
  PROVE  phase = "streaming" /\ \A i \in DOMAIN tx : tx[i].kind # "finish"
  BY DEF ControlInv, RoundOwnsWorker, FinishIsLast

LEMMA ControlInit == Init => ControlInv
  BY DEF Init, ControlInv, RoundOwnsWorker, FinishIsLast

LEMMA ControlLoop == ASSUME TypeInv, ControlInv, LoopStep PROVE ControlInv'
<1>1. CASE StopCancelled \/ StopAtLimit \/ ConsultFails \/ BeginResume \/ ResumeCall
           \/ ResumeDone
  <2>1. phase # "streaming" /\ UNCHANGED <<worker, tx>>
    BY <1>1 DEF StopCancelled, StopAtLimit, ConsultFails, Consult, AtTop, Stop, BeginResume,
                ResumeCall, ResumeDone, workerVars, channelVars
  <2> QED
    BY <2>1 DEF ControlInv, RoundOwnsWorker, FinishIsLast
<1>2. CASE StartRound
  BY <1>2 DEF StartRound, ControlInv, RoundOwnsWorker, FinishIsLast
<1>3. CASE PollUpdate
  <2>1. /\ Head(tx) = tx[1] /\ 1 \in DOMAIN tx
        /\ \A i \in DOMAIN tx' : i + 1 \in DOMAIN tx /\ tx'[i] = tx[i + 1]
    BY <1>3, ReceiveType DEF PollUpdate
  <2>2. UNCHANGED worker /\ phase = "streaming"
    BY <1>3 DEF PollUpdate, Receiving, workerVars
  <2>3. phase' # "streaming" => tx[1].kind = "finish"
    BY <1>3, <2>1, <2>2 DEF PollUpdate
  <2> QED
    BY <2>1, <2>2, <2>3 DEF ControlInv, RoundOwnsWorker, FinishIsLast
<1>4. CASE PollToolCalls
  <2>1. Head(tx) = tx[1] /\ 1 \in DOMAIN tx
    BY <1>4, HeadTailProperties, LenProperties DEF PollToolCalls, TypeInv, TypeOK, ChannelType
  <2>2. worker = "ended"
    BY <1>4, <2>1 DEF PollToolCalls, ControlInv, FinishIsLast
  <2> QED
    BY <1>4, <2>2 DEF PollToolCalls, workerVars, ControlInv, RoundOwnsWorker, FinishIsLast
<1>5. CASE PollEnd
  BY <1>5 DEF PollEnd, workerVars, channelVars, ControlInv, RoundOwnsWorker, FinishIsLast
<1> QED
  BY <1>1, <1>2, <1>3, <1>4, <1>5 DEF LoopStep

LEMMA ControlWorker == ASSUME TypeInv, ControlInv, WorkerStep PROVE ControlInv'
<1>1. phase' = "streaming" /\ \A i \in DOMAIN tx : tx[i].kind # "finish"
  BY WorkerStepShape, BusyWorker DEF loopVars
<1>2. FinishIsLast'
  <2>1. CASE QuietStep
    BY <1>1, <2>1 DEF FinishIsLast, QuietStep, AskApproval, RunTools, HandOver, ToolPanics, PreviewPanics,
                      ToolsDone, ToolReturns, channelVars
  <2>2. CASE \E u \in Update, after \in {worker, "ended"} : SendsOnly(u, after)
    <3>1. PICK u \in Update, after \in {worker, "ended"} : SendsOnly(u, after)
      BY <2>2
    <3> QED
      BY <1>1, <3>1, SendsOnlyShape DEF SendsOnly, FinishIsLast
  <2> QED
    BY <2>1, <2>2, WorkerSends
<1> QED
  BY <1>1, <1>2 DEF ControlInv, RoundOwnsWorker

LEMMA ControlStep == TypeInv /\ ControlInv /\ [Next]_vars => ControlInv'
<1> SUFFICES ASSUME TypeInv, ControlInv, [Next]_vars PROVE ControlInv'
  OBVIOUS
<1>1. CASE Cancel \/ DropStream \/ UNCHANGED vars
  <2>1. UNCHANGED <<phase, worker, tx>>
    BY <1>1 DEF Cancel, DropStream, vars, loopVars, workerVars, channelVars
  <2> QED
    BY <2>1 DEF ControlInv, RoundOwnsWorker, FinishIsLast
<1> QED
  BY <1>1, ControlLoop, ControlWorker DEF Next, Done

-----------------------------------------------------------------------------
(* The calls that have run.                                                 *)

Ran == {c \in Ids : executed[c] > 0}
ToolsSignalled == \E i \in DOMAIN tx : tx[i] = Finish("tools")

\* The calls collected from a stream are calls it has announced, which are new
\* to the conversation.
CallsAnnounced ==
  worker = "reading" =>
    /\ CallIds(calls) \cup {current.id} \subseteq Elements(announced) \cup {NoId}
    /\ Elements(announced) \cap Mentioned = {}

\* A call that has run is in the conversation or on its way to it.
RanMentioned ==
  /\ phase \in {"looping", "resuming"} \/ worker = "reading" => Ran \subseteq Mentioned
  /\ worker = "executing" => Ran \subseteq Mentioned \cup CallIds(calls)
  /\ Receiving /\ (worker = "reporting" \/ ToolsSignalled) =>
       Ran \subseteq Mentioned \cup MentionedIn(box)

\* A resume looks at calls of the conversation.
TodoMentioned == phase = "resuming" => Elements(todo) \subseteq Mentioned

RanInv == CallsAnnounced /\ RanMentioned /\ TodoMentioned

LEMMA MentionedGrows ==
  ASSUME NEW m \in Seq(Message), NEW b \in Seq(Message)
  PROVE  MentionedIn(m) \cup MentionedIn(b) \subseteq MentionedIn(m \o b)
<1>1. /\ \A i \in DOMAIN m : i \in DOMAIN (m \o b) /\ (m \o b)[i] = m[i]
      /\ \A i \in DOMAIN b : /\ Len(m) + i \in DOMAIN (m \o b)
                            /\ (m \o b)[Len(m) + i] = b[i]
  BY ConcatProperties, LenProperties
<1> QED
  BY <1>1 DEF MentionedIn

LEMMA BoxMentions ==
  ASSUME NEW ids \in Seq(Ids)
  PROVE  Elements(ids) \subseteq MentionedIn(Asks(ids) \o Answers(ids))
<1>1. Asks(ids) \in Seq(Message) /\ Answers(ids) \in Seq(Message)
  BY MessageTypes
<1>2. Elements(ids) \subseteq MentionedIn(Asks(ids))
  BY DEF MentionedIn, Asks
<1> QED
  BY <1>1, <1>2, MentionedGrows

LEMMA RanInit == Init => RanInv
  BY DEF Init, RanInv, CallsAnnounced, RanMentioned, TodoMentioned, Ran, Receiving

LEMMA RanLoop == ASSUME TypeInv, ControlInv, RanInv, LoopStep PROVE RanInv'
<1> USE DEF RanInv
<1>1. CASE StopCancelled \/ StopAtLimit \/ ConsultFails
  <2>1. /\ phase' = "over" /\ worker \in {"none", "ended"}
        /\ UNCHANGED <<worker, executed, messages>>
    BY <1>1 DEF StopCancelled, StopAtLimit, ConsultFails, Consult, AtTop, Stop, workerVars,
                ControlInv, RoundOwnsWorker
  <2> QED
    BY <2>1 DEF CallsAnnounced, RanMentioned, TodoMentioned, Receiving
<1>2. CASE BeginResume
  <2>1. /\ phase = "looping" /\ phase' = "resuming" /\ worker \in {"none", "ended"}
        /\ UNCHANGED <<worker, executed, messages>>
    BY <1>2 DEF BeginResume, AtTop, workerVars, historyVars, ControlInv, RoundOwnsWorker
  <2>2. PICK i \in DOMAIN messages : todo' = messages[i].ids
    BY <1>2 DEF BeginResume
  <2>3. Elements(todo') \subseteq Mentioned'
    BY <2>1, <2>2 DEF Mentioned, MentionedIn
  <2>4. Ran' \subseteq Mentioned'
    BY <2>1 DEF RanMentioned, Ran, Mentioned
  <2> QED
    BY <2>1, <2>3, <2>4 DEF CallsAnnounced, RanMentioned, TodoMentioned, Receiving
<1>3. CASE ResumeCall
  <2>1. /\ phase = "resuming" /\ phase' = phase /\ worker \in {"none", "ended"}
        /\ UNCHANGED <<worker, messages>>
    BY <1>3 DEF ResumeCall, workerVars, ControlInv, RoundOwnsWorker
  <2>2. /\ todo \in Seq(Ids) /\ todo # <<>> /\ todo' = Tail(todo)
        /\ executed' \in {executed, [executed EXCEPT ![Head(todo)] = @ + 1]}
    BY <1>3 DEF ResumeCall, TypeInv, TypeOK, LoopType
  <2>3. Head(todo) \in Elements(todo) /\ Elements(todo') \subseteq Elements(todo)
    BY <2>2, HeadTailProperties, LenProperties DEF Elements
  <2>4. Elements(todo) \subseteq Mentioned /\ Ran \subseteq Mentioned
    BY <2>1 DEF TodoMentioned, RanMentioned
  <2>5. Ran' \subseteq Ran \cup {Head(todo)}
    BY <2>2 DEF Ran, TypeInv, TypeOK, HistoryType
  <2>6. Ran' \subseteq Mentioned' /\ Elements(todo') \subseteq Mentioned'
    BY <2>1, <2>3, <2>4, <2>5 DEF Mentioned
  <2> QED
    BY <2>1, <2>6 DEF CallsAnnounced, RanMentioned, TodoMentioned, Receiving
<1>4. CASE ResumeDone
  <2>1. /\ phase = "resuming" /\ phase' = "looping" /\ worker \in {"none", "ended"}
        /\ UNCHANGED <<worker, executed>>
        /\ messages \in Seq(Message) /\ answers \in Seq(Message)
        /\ messages' = messages \o answers
    BY <1>4 DEF ResumeDone, workerVars, historyVars, ControlInv, RoundOwnsWorker, TypeInv,
                TypeOK, LoopType
  <2>2. Mentioned \subseteq Mentioned'
    BY <2>1, MentionedGrows DEF Mentioned
  <2>3. Ran' \subseteq Mentioned'
    BY <2>1, <2>2 DEF RanMentioned, Ran
  <2> QED
    BY <2>1, <2>3 DEF CallsAnnounced, RanMentioned, TodoMentioned, Receiving
<1>5. CASE StartRound
  <2>1. /\ phase = "looping" /\ phase' = "streaming" /\ worker' = "reading"
        /\ calls' = <<>> /\ current' = NoCall /\ announced' = <<>> /\ tx' = <<>>
        /\ UNCHANGED <<executed, messages>>
    BY <1>5 DEF StartRound, Consult, AtTop, historyVars
  <2>2. CallsAnnounced'
    BY <2>1 DEF CallsAnnounced, CallIds, NoCall, Elements
  <2>3. Ran' \subseteq Mentioned'
    BY <2>1 DEF RanMentioned, Ran, Mentioned
  <2> QED
    BY <2>1, <2>2, <2>3 DEF RanMentioned, TodoMentioned, ToolsSignalled
<1>6. CASE PollUpdate
  <2>1. /\ phase = "streaming" /\ phase' \in {"streaming", "over"}
        /\ UNCHANGED <<worker, executed, messages, open, announced, calls, current, box>>
    BY <1>6 DEF PollUpdate, Receiving, workerVars, callerVars
  <2>2. \A i \in DOMAIN tx' : i + 1 \in DOMAIN tx /\ tx'[i] = tx[i + 1]
    BY <1>6, ReceiveType DEF PollUpdate
  <2>3. ToolsSignalled' => ToolsSignalled
    BY <2>2 DEF ToolsSignalled, Finish
  <2>4. UNCHANGED <<Ran, Mentioned>>
    BY <2>1 DEF Ran, Mentioned
  <2>5. CallsAnnounced'
    BY <2>1, <2>4 DEF CallsAnnounced
  <2>6. Receiving' => Receiving
    BY <2>1 DEF Receiving
  <2>7. RanMentioned'
    BY <2>1, <2>3, <2>4, <2>6 DEF RanMentioned
  <2> QED
    BY <2>1, <2>5, <2>7 DEF TodoMentioned
<1>7. CASE PollToolCalls
  <2>1. /\ Receiving /\ phase' = "looping" /\ messages' = messages \o box
        /\ tx # <<>> /\ Head(tx) = Finish("tools")
        /\ UNCHANGED <<worker, executed>>
    BY <1>7 DEF PollToolCalls, workerVars, historyVars, Finish
  <2>2. Head(tx) = tx[1] /\ 1 \in DOMAIN tx
    BY <2>1, HeadTailProperties, LenProperties DEF TypeInv, TypeOK, ChannelType
  <2>3. ToolsSignalled /\ worker = "ended"
    BY <2>1, <2>2 DEF ToolsSignalled, Finish, ControlInv, FinishIsLast
  <2>4. Mentioned \cup MentionedIn(box) \subseteq Mentioned'
    BY <2>1, MentionedGrows DEF Mentioned, TypeInv, TypeOK, LoopType, ChannelType
  <2>5. Ran' \subseteq Mentioned'
    BY <2>1, <2>3, <2>4 DEF RanMentioned, Ran
  <2> QED
    BY <2>1, <2>3, <2>5 DEF CallsAnnounced, RanMentioned, TodoMentioned, Receiving
<1>8. CASE PollEnd
  BY <1>8 DEF PollEnd, workerVars, channelVars, CallsAnnounced, RanMentioned, TodoMentioned,
              Receiving
<1> QED
  BY <1>1, <1>2, <1>3, <1>4, <1>5, <1>6, <1>7, <1>8 DEF LoopStep

\* The ids of the calls the worker takes were announced by the stream.
LEMMA TakenAnnounced ==
  ASSUME TypeInv, RanInv, worker = "reading", calls' \in Retained(Taken) \ {<<>>}
  PROVE  /\ CallIds(calls') \subseteq Elements(announced)
         /\ CallIds(calls') \cap Ran = {}
<1>1. /\ Taken \in Seq(Call)
      /\ \A k \in DOMAIN calls' : calls'[k].id \in Ids /\ \E i \in DOMAIN Taken : calls'[k] = Taken[i]
  BY TakenType, RetainedSlots DEF TypeInv
<1>2. \A i \in DOMAIN Taken : Taken[i].id \in CallIds(calls) \cup {current.id}
  BY WorkerFacts, AppendProperties, LenProperties DEF Taken, CallIds
<1>3. CallIds(calls) \cup {current.id} \subseteq Elements(announced) \cup {NoId}
  BY DEF RanInv, CallsAnnounced
<1>4. CallIds(calls') \subseteq Elements(announced)
  BY <1>1, <1>2, <1>3, LoopAssumption DEF CallIds
<1>5. Ran \subseteq Mentioned /\ Elements(announced) \cap Mentioned = {}
  BY DEF RanInv, CallsAnnounced, RanMentioned
<1> QED
  BY <1>4, <1>5

LEMMA CallIdsAppend ==
  ASSUME NEW cs \in Seq(Call), NEW x \in Call
  PROVE  CallIds(Append(cs, x)) = CallIds(cs) \cup {x.id}
<1>1. /\ DOMAIN Append(cs, x) = 1 .. Len(cs) + 1 /\ DOMAIN cs = 1 .. Len(cs)
      /\ \A i \in 1 .. Len(cs) : Append(cs, x)[i] = cs[i]
      /\ Append(cs, x)[Len(cs) + 1] = x /\ Len(cs) \in Nat
  BY AppendProperties, LenProperties
<1> QED
  BY <1>1 DEF CallIds

\* What the stream adds to the calls is what it announces.
LEMMA StreamItemAnnounced ==
  ASSUME TypeInv, RanInv, StreamItem
  PROVE  CallsAnnounced'
<1>1. /\ CallIds(calls) \cup {current.id} \subseteq Elements(announced) \cup {NoId}
      /\ Elements(announced) \cap Mentioned = {}
      /\ UNCHANGED messages
  BY DEF StreamItem, Announce, CallArgs, CallEnd, BlockDelta, readOnly, loopVars, RanInv,
         CallsAnnounced
<1>2. CASE \E c \in Ids : Announce(c)
  <2>1. PICK c \in Ids : Announce(c)
    BY <1>2
  <2>2. Elements(announced') = Elements(announced) \cup {c}
    <3>1. announced' = Append(announced, c)
      BY <2>1 DEF Announce
    <3> QED
      BY <3>1, WorkerFacts, AppendProperties, LenProperties, SMTT(30) DEF Elements
  <2>3. c \notin Mentioned
    BY <2>1 DEF Announce
  <2>4. CallIds(calls') \cup {current'.id} \subseteq Elements(announced') \cup {NoId}
    <3>1. CASE style = "delta"
      <4>1. CallDelta(c, Len(announced) + 1)
        BY <2>1, <3>1 DEF Announce
      <4>2. /\ current' = current
            /\ \A i \in DOMAIN calls' :
                 \/ calls'[i] = [id |-> c, args |-> TRUE]
                 \/ i \in DOMAIN calls /\ calls'[i] = calls[i]
                 \/ calls'[i] = NoCall
        BY <4>1, WorkerFacts, CallDeltaType DEF TypeInv
      <4> QED
        BY <1>1, <2>2, <4>2 DEF CallIds, NoCall
    <3>2. CASE style # "delta"
      <4>1. calls' \in {calls, Append(calls, current)} /\ current'.id = c
        BY <2>1, <3>2 DEF Announce, CallStart
      <4>2. CallIds(Append(calls, current)) = CallIds(calls) \cup {current.id}
        BY WorkerFacts, CallIdsAppend
      <4>3. CallIds(calls') \subseteq CallIds(calls) \cup {current.id}
        BY <4>1, <4>2
      <4> QED
        BY <1>1, <2>2, <4>1, <4>3
    <3> QED
      BY <3>1, <3>2
  <2> QED
    BY <1>1, <2>2, <2>3, <2>4 DEF CallsAnnounced, Mentioned
<1>3. CASE CallArgs
  <2>1. /\ current'.id = current.id
        /\ UNCHANGED <<calls, announced>>
    BY <1>3, WorkerFacts DEF CallArgs, Call
  <2> QED
    BY <1>1, <2>1 DEF CallsAnnounced, Mentioned
<1>4. CASE \E c \in Ids : CallEnd(c)
  <2>1. /\ calls' \in {calls, Append(calls, current)} /\ current'.id = NoId
        /\ UNCHANGED announced
    BY <1>4 DEF CallEnd, NoCall
  <2>2. CallIds(Append(calls, current)) = CallIds(calls) \cup {current.id}
    BY WorkerFacts, CallIdsAppend
  <2>3. CallIds(calls') \subseteq CallIds(calls) \cup {current.id}
    BY <2>1, <2>2
  <2> QED
    BY <1>1, <2>1, <2>3 DEF CallsAnnounced, Mentioned
<1>5. CASE BlockDelta
  <2>1. CallDelta(current.id, TextBlocks + Len(announced)) /\ UNCHANGED announced
    BY <1>5 DEF BlockDelta
  <2>2. TextBlocks + Len(announced) \in Nat /\ current.id \in Ids \cup {NoId}
    BY WorkerFacts, LoopAssumption DEF Call
  <2>3. /\ current' = current
        /\ \A i \in DOMAIN calls' :
             \/ calls'[i] = [id |-> current.id, args |-> TRUE]
             \/ i \in DOMAIN calls /\ calls'[i] = calls[i]
             \/ calls'[i] = NoCall
    BY <2>1, <2>2, CallDeltaType DEF TypeInv
  <2>4. CallIds(calls') \subseteq CallIds(calls) \cup {current.id, NoId}
    BY <2>3 DEF CallIds, NoCall
  <2> QED
    BY <1>1, <2>1, <2>3, <2>4 DEF CallsAnnounced, Mentioned
<1> QED
  BY <1>2, <1>3, <1>4, <1>5 DEF StreamItem

\* A send moves no call and signals finished tools only after they are boxed.
LEMMA RanSend ==
  ASSUME TypeInv, ControlInv, RanInv, WorkerStep,
         NEW u \in Update, NEW after \in {worker, "ended"}, SendsOnly(u, after)
  PROVE  RanMentioned'
<1>1. phase = "streaming" /\ \A i \in DOMAIN tx : tx[i].kind # "finish"
  BY WorkerStepShape, BusyWorker
<1>2. UNCHANGED <<Ran, Mentioned, box, phase, Receiving>>
  BY WorkerStepShape DEF Ran, Mentioned, SendsOnly, Receiving, loopVars, callerVars
<1>3. worker' \in {worker, "ended"}
  BY SendsOnlyShape
<1>4. ToolsSignalled' => worker = "reporting"
  BY <1>1, SendsOnlyShape DEF ToolsSignalled, Finish, SendsOnly
<1> QED
  BY <1>2, <1>3, <1>4 DEF RanInv, RanMentioned, SendsOnly

LEMMA RanWorker == ASSUME TypeInv, ControlInv, RanInv, WorkerStep PROVE RanInv'
<1>1. /\ phase = "streaming" /\ \A i \in DOMAIN tx : tx[i].kind # "finish"
      /\ UNCHANGED <<phase, messages, todo, open>>
  BY WorkerStepShape, BusyWorker DEF loopVars, callerVars
<1>2. TodoMentioned'
  BY <1>1 DEF TodoMentioned
<1>3. ~ToolsSignalled
  BY <1>1 DEF ToolsSignalled, Finish
<1>4. CASE \E u \in Update, after \in {worker, "ended"} : SendsOnly(u, after)
  <2>1. PICK u \in Update, after \in {worker, "ended"} : SendsOnly(u, after)
    BY <1>4
  <2>2. CASE StreamItem
    BY <2>2, <1>2, <2>1, StreamItemAnnounced, RanSend DEF RanInv
  <2>3. CASE ~StreamItem
    <3>1. worker' # "reading"
      BY <2>1, <2>3, SendsOnlyShape DEF SendsOnly
    <3> QED
      BY <3>1, <1>2, <2>1, RanSend DEF RanInv, CallsAnnounced
  <2> QED
    BY <2>2, <2>3
<1>5. CASE RunTools
  <2>1. /\ worker' = "executing" /\ worker = "reading" /\ UNCHANGED tx
        /\ working' \subseteq DOMAIN calls'
        /\ executed' = [c \in Ids |->
             executed[c] + Cardinality({i \in working' : calls'[i].id = c})]
    BY <1>5 DEF RunTools, channelVars
  <2>2. Ran' \subseteq Ran \cup CallIds(calls')
    <3> SUFFICES ASSUME NEW c \in Ids, c \notin CallIds(calls') PROVE executed'[c] = executed[c]
      BY DEF Ran
    <3>1. {i \in working' : calls'[i].id = c} = {}
      BY <2>1 DEF CallIds
    <3> QED
      BY <2>1, <3>1, FS_EmptySet DEF TypeInv, TypeOK, HistoryType
  <2>3. Ran' \subseteq Mentioned' \cup CallIds(calls')
    BY <1>1, <2>1, <2>2 DEF RanInv, RanMentioned, Mentioned
  <2>4. ~ToolsSignalled'
    BY <1>3, <2>1 DEF ToolsSignalled
  <2> QED
    BY <1>1, <1>2, <2>1, <2>3, <2>4 DEF RanInv, CallsAnnounced, RanMentioned
<1>6. CASE ToolsDone
  <2>1. /\ worker = "executing" /\ worker' = "reporting" /\ UNCHANGED <<executed, calls, tx>>
        /\ Receiving => box' = Asks(IdsOf(calls)) \o Answers(IdsOf(calls))
    BY <1>6 DEF ToolsDone, historyVars
  <2>2. Ran \subseteq Mentioned \cup CallIds(calls)
    BY <2>1 DEF RanInv, RanMentioned
  <2>3. IdsOf(calls) \in Seq(Ids) /\ Elements(IdsOf(calls)) = CallIds(calls)
    BY <2>1, WorkerFacts, IdsOfType DEF TypeInv, CallsNamed, CallIds
  <2>4. Receiving => CallIds(calls) \subseteq MentionedIn(box')
    BY <2>1, <2>3, BoxMentions
  <2>5. Receiving' => Ran' \subseteq Mentioned' \cup MentionedIn(box')
    BY <1>1, <2>1, <2>2, <2>4 DEF Ran, Mentioned, Receiving
  <2> QED
    BY <1>1, <1>2, <2>1, <2>5 DEF RanInv, CallsAnnounced, RanMentioned
<1>7. CASE \/ AskApproval \/ HandOver \/ ToolPanics \/ PreviewPanics
           \/ \E i \in DOMAIN calls : ToolReturns(i)
  <2>1. /\ worker' # "reading" /\ worker' # "reporting" /\ UNCHANGED <<executed, tx>>
        /\ worker' = "executing" => worker = "executing" /\ calls' = calls
    BY <1>7 DEF AskApproval, HandOver, ToolPanics, PreviewPanics, ToolReturns, historyVars, channelVars
  <2>2. ~ToolsSignalled'
    BY <1>3, <2>1 DEF ToolsSignalled
  <2>3. UNCHANGED <<Ran, Mentioned>>
    BY <1>1, <2>1 DEF Ran, Mentioned
  <2> QED
    BY <1>1, <1>2, <2>1, <2>2, <2>3 DEF RanInv, CallsAnnounced, RanMentioned
<1> QED
  BY <1>4, <1>5, <1>6, <1>7, WorkerSends DEF QuietStep

LEMMA RanStep == TypeInv /\ ControlInv /\ RanInv /\ [Next]_vars => RanInv'
<1> SUFFICES ASSUME TypeInv, ControlInv, RanInv, [Next]_vars PROVE RanInv'
  OBVIOUS
<1>1. CASE Cancel \/ DropStream \/ UNCHANGED vars
  <2>1. /\ UNCHANGED <<phase, worker, tx, box, messages, executed, calls, current, announced, todo>>
        /\ open' => open
    BY <1>1
    DEF Cancel, DropStream, vars, loopVars, callerVars, workerVars, channelVars, historyVars
  <2>2. UNCHANGED <<Ran, Mentioned, ToolsSignalled>> /\ (Receiving' => Receiving)
    BY <2>1 DEF Ran, Mentioned, ToolsSignalled, Receiving
  <2> QED
    BY <2>1, <2>2 DEF RanInv, CallsAnnounced, RanMentioned, TodoMentioned
<1> QED
  BY <1>1, RanLoop, RanWorker DEF Next, Done

-----------------------------------------------------------------------------
(* The gate.                                                                *)

\* Once approval is asked for, the stream ends without running anything.
Asking == requested # {} \/ worker \in {"asking", "paused"}
          \/ \E i \in DOMAIN tx : tx[i].kind = "request"

AskingEnds ==
  Asking => /\ phase \in {"streaming", "over"} /\ worker \in {"asking", "paused", "ended"}
            /\ ~ToolsSignalled

\* The calls whose approval is asked for have not run.
AskedIdle ==
  /\ \A i \in DOMAIN tx : tx[i].kind = "request" => tx[i].of \notin Ran
  /\ worker = "asking" => CallIds(calls) \cap Ran = {}

GateInv == AskingEnds /\ AskedIdle /\ GateHolds

LEMMA GateInit == Init => GateInv
<1> SUFFICES ASSUME Init PROVE GateInv
  OBVIOUS
<1>1. requested = {} /\ worker = "none" /\ tx = <<>> /\ \A c \in Ids : executed[c] = 0
  BY DEF Init
<1> QED
  BY <1>1 DEF GateInv, AskingEnds, Asking, AskedIdle, GateHolds

\* Steps that ask for nothing and run nothing keep the gate.
LEMMA GateFrame ==
  ASSUME GateInv, UNCHANGED <<executed, granted, requested, calls>>,
         worker' \in {"asking", "paused"} => worker \in {"asking", "paused"},
         worker' = "asking" => worker = "asking",
         \A i \in DOMAIN tx' : \E j \in DOMAIN tx : tx'[i] = tx[j],
         Asking => /\ phase' \in {"streaming", "over"}
                   /\ worker' \in {"asking", "paused", "ended"}
  PROVE  GateInv'
<1>1. UNCHANGED Ran
  BY DEF Ran
<1>2. (Asking' => Asking) /\ (ToolsSignalled' => ToolsSignalled)
  BY DEF Asking, ToolsSignalled, Finish
<1>3. AskingEnds'
  BY <1>2 DEF GateInv, AskingEnds
<1>4. AskedIdle'
  BY <1>1 DEF GateInv, AskedIdle, CallIds
<1>5. GateHolds'
  BY DEF GateInv, GateHolds
<1> QED
  BY <1>3, <1>4, <1>5 DEF GateInv

LEMMA GateLoop == ASSUME TypeInv, ControlInv, GateInv, LoopStep PROVE GateInv'
<1>1. CASE \/ StopCancelled \/ StopAtLimit \/ ConsultFails \/ BeginResume \/ ResumeDone
  <2>1. /\ phase \in {"looping", "resuming"}
        /\ UNCHANGED <<executed, granted, requested, calls, worker, tx>>
    BY <1>1 DEF StopCancelled, StopAtLimit, ConsultFails, Consult, AtTop, Stop, BeginResume,
                ResumeDone, workerVars, channelVars, historyVars
  <2>2. ~Asking
    BY <2>1 DEF GateInv, AskingEnds
  <2> QED
    BY <2>1, <2>2, GateFrame
<1>2. CASE ResumeCall
  <2>1. /\ phase = "resuming"
        /\ UNCHANGED <<granted, requested, worker, tx>>
        /\ Head(todo) \in granted \/ UNCHANGED executed
        /\ executed' \in {executed, [executed EXCEPT ![Head(todo)] = @ + 1]}
    BY <1>2 DEF ResumeCall, workerVars, channelVars
  <2>2. ~Asking
    BY <2>1 DEF GateInv, AskingEnds
  <2>3. ~Asking' /\ worker' # "asking" /\ \A i \in DOMAIN tx' : tx'[i].kind # "request"
    BY <2>1, <2>2 DEF Asking
  <2>4. \A c \in Ids : executed'[c] = executed[c] \/ c \in granted
    BY <2>1 DEF TypeInv, TypeOK, HistoryType
  <2>5. GateHolds'
    BY <2>1, <2>4 DEF GateInv, GateHolds
  <2> QED
    BY <2>3, <2>5 DEF GateInv, AskingEnds, AskedIdle
<1>3. CASE StartRound
  <2>1. /\ phase = "looping" /\ worker' = "reading" /\ tx' = <<>>
        /\ UNCHANGED <<executed, granted, requested>>
    BY <1>3 DEF StartRound, Consult, AtTop, historyVars
  <2>2. ~Asking
    BY <2>1 DEF GateInv, AskingEnds
  <2>3. ~Asking'
    BY <2>1, <2>2 DEF Asking
  <2> QED
    BY <2>1, <2>3 DEF GateInv, AskingEnds, AskedIdle, GateHolds
<1>4. CASE PollUpdate
  <2>1. /\ Head(tx) = tx[1] /\ 1 \in DOMAIN tx
        /\ \A i \in DOMAIN tx' : i + 1 \in DOMAIN tx /\ tx'[i] = tx[i + 1]
    BY <1>4, ReceiveType DEF PollUpdate
  <2>2. /\ phase' \in {"streaming", "over"}
        /\ requested' = IF tx[1].kind = "request" THEN requested \cup {tx[1].of} ELSE requested
        /\ UNCHANGED <<executed, granted, calls, worker>>
    BY <1>4, <2>1 DEF PollUpdate, Receiving, Received, workerVars
  <2>3. (Asking' => Asking) /\ (ToolsSignalled' => ToolsSignalled)
    BY <2>1, <2>2 DEF Asking, ToolsSignalled, Finish
  <2>4. AskingEnds'
    BY <2>2, <2>3 DEF GateInv, AskingEnds
  <2>5. AskedIdle'
    BY <2>1, <2>2 DEF GateInv, AskedIdle, CallIds, Ran
  <2>6. GateHolds'
    <3>1. tx[1].kind = "request" => ~ executed[tx[1].of] > 0
      BY <2>1 DEF GateInv, AskedIdle, Ran, TypeInv, UpdatesNamed
    <3> QED
      BY <2>2, <3>1 DEF GateInv, GateHolds
  <2> QED
    BY <2>4, <2>5, <2>6 DEF GateInv
<1>5. CASE PollToolCalls
  <2>1. /\ Head(tx) = Finish("tools") /\ tx # <<>> /\ tx' = <<>>
        /\ UNCHANGED <<executed, granted, requested, calls, worker>>
    BY <1>5 DEF PollToolCalls, Finish, workerVars, historyVars
  <2>2. Head(tx) = tx[1] /\ 1 \in DOMAIN tx
    BY <2>1, HeadTailProperties, LenProperties DEF TypeInv, TypeOK, ChannelType
  <2>3. ToolsSignalled
    BY <2>1, <2>2 DEF ToolsSignalled
  <2>4. ~Asking
    BY <2>3 DEF GateInv, AskingEnds
  <2> QED
    BY <2>1, <2>4, GateFrame DEF Asking
<1>6. CASE PollEnd
  <2>1. /\ phase' = "over" /\ worker = "ended"
        /\ UNCHANGED <<executed, granted, requested, calls, worker, tx>>
    BY <1>6 DEF PollEnd, workerVars, channelVars, historyVars
  <2> QED
    BY <2>1, GateFrame
<1> QED
  BY <1>1, <1>2, <1>3, <1>4, <1>5, <1>6 DEF LoopStep

\* Only a worker that asks sends requests, and for calls that have not run.
LEMMA GateSend ==
  ASSUME TypeInv, ControlInv, GateInv, WorkerStep,
         NEW u \in Update, NEW after \in {worker, "ended"}, SendsOnly(u, after)
  PROVE  GateInv'
<1>1. /\ phase = "streaming" /\ \A i \in DOMAIN tx : tx[i].kind # "finish"
      /\ UNCHANGED <<phase, requested, granted, executed>>
  BY WorkerStepShape, BusyWorker DEF loopVars, SendsOnly
<1>2. /\ worker' \in {worker, "ended"}
      /\ \A i \in DOMAIN tx' : (i \in DOMAIN tx /\ tx'[i] = tx[i]) \/ tx'[i] = u
  BY SendsOnlyShape
<1>3. Asking' => Asking
  BY <1>1, <1>2 DEF Asking, SendsOnly
<1>4. ASSUME Asking' PROVE worker \in {"asking", "paused"} /\ ~ToolsSignalled'
  <2>1. worker \in {"asking", "paused"}
    BY <1>3, <1>4, WorkerStepShape DEF GateInv, AskingEnds
  <2>2. u # Finish("tools")
    BY <2>1 DEF SendsOnly
  <2>3. ~ToolsSignalled
    BY <1>1 DEF ToolsSignalled, Finish
  <2> QED
    BY <1>2, <2>1, <2>2, <2>3 DEF ToolsSignalled
<1>5. AskingEnds'
  BY <1>1, <1>2, <1>4 DEF AskingEnds
<1>6. AskedIdle'
  <2>1. UNCHANGED Ran
    BY <1>1 DEF Ran
  <2>2. u.kind = "request" => u.of \notin Ran
    BY DEF SendsOnly, GateInv, AskedIdle
  <2>3. \A i \in DOMAIN tx' : tx'[i].kind = "request" => tx'[i].of \notin Ran
    BY <1>2, <2>2 DEF GateInv, AskedIdle
  <2>4. worker' = "asking" => worker = "asking" /\ UNCHANGED calls
    BY <1>2 DEF SendsOnly
  <2> QED
    BY <2>1, <2>3, <2>4 DEF GateInv, AskedIdle
<1>7. GateHolds'
  BY <1>1 DEF GateInv, GateHolds
<1> QED
  BY <1>5, <1>6, <1>7 DEF GateInv

LEMMA GateWorker ==
  ASSUME TypeInv, ControlInv, RanInv, GateInv, WorkerStep
  PROVE  GateInv'
<1>1. /\ phase = "streaming" /\ phase' = phase
      /\ \A i \in DOMAIN tx : tx[i].kind # "finish"
      /\ UNCHANGED <<granted, requested>>
  BY WorkerStepShape, BusyWorker DEF loopVars
<1>2. ~ToolsSignalled
  BY <1>1 DEF ToolsSignalled, Finish
<1>3. Asking => worker \in {"asking", "paused"}
  BY WorkerStepShape DEF GateInv, AskingEnds
<1>4. CASE \E u \in Update, after \in {worker, "ended"} : SendsOnly(u, after)
  BY <1>4, GateSend
<1>5. CASE AskApproval
  <2>1. /\ worker = "reading" /\ worker' = "asking" /\ UNCHANGED <<executed, tx>>
        /\ calls' \in Retained(Taken) \ {<<>>}
    BY <1>5 DEF AskApproval, channelVars, historyVars
  <2>2. CallIds(calls') \cap Ran' = {}
    BY <2>1, TakenAnnounced DEF Ran
  <2>3. \A i \in DOMAIN tx' : tx'[i].kind # "request"
    BY <1>3, <2>1 DEF Asking
  <2>4. ~ToolsSignalled'
    BY <1>2, <2>1 DEF ToolsSignalled
  <2>5. AskingEnds'
    BY <1>1, <2>1, <2>4 DEF AskingEnds
  <2>6. AskedIdle'
    BY <2>2, <2>3 DEF AskedIdle, CallIds
  <2>7. GateHolds'
    BY <1>1, <2>1 DEF GateInv, GateHolds
  <2> QED
    BY <2>5, <2>6, <2>7 DEF GateInv
<1>6. CASE RunTools
  <2>1. /\ worker = "reading" /\ worker' = "executing" /\ UNCHANGED tx
        /\ ~NeedsApproval(calls') /\ working' \subseteq DOMAIN calls'
        /\ executed' = [c \in Ids |->
             executed[c] + Cardinality({i \in working' : calls'[i].id = c})]
    BY <1>6 DEF RunTools, channelVars
  <2>2. ~Asking /\ requested = {}
    BY <1>3, <2>1 DEF Asking
  <2>3. ~Asking'
    BY <1>1, <2>1, <2>2 DEF Asking
  <2>4. ASSUME NEW c \in Ids, ToolOf[c] \in Gated
        PROVE  executed'[c] = executed[c]
    <3>1. {i \in working' : calls'[i].id = c} = {}
      BY <2>1, <2>4 DEF NeedsApproval
    <3> QED
      BY <2>1, <3>1, FS_EmptySet DEF TypeInv, TypeOK, HistoryType
  <2>5. GateHolds'
    BY <1>1, <2>2, <2>4 DEF GateInv, GateHolds
  <2>6. AskedIdle'
    BY <2>1, <2>3 DEF AskedIdle, Asking
  <2> QED
    BY <2>3, <2>5, <2>6 DEF GateInv, AskingEnds
<1>7. CASE \/ HandOver \/ ToolPanics \/ PreviewPanics \/ ToolsDone
           \/ \E i \in DOMAIN calls : ToolReturns(i)
  <2>1. /\ UNCHANGED <<executed, calls, tx>> /\ worker' # "asking"
        /\ worker' = "paused" => worker = "asking"
        /\ worker = "asking" => worker' = "paused"
        /\ worker \in {"asking", "executing", "reading"}
    BY <1>7 DEF HandOver, ToolPanics, PreviewPanics, ToolsDone, ToolReturns, historyVars, channelVars
  <2> QED
    BY <1>1, <1>3, <2>1, GateFrame
<1> QED
  BY <1>4, <1>5, <1>6, <1>7, WorkerSends DEF QuietStep

LEMMA GateStep == TypeInv /\ ControlInv /\ RanInv /\ GateInv /\ [Next]_vars => GateInv'
<1> SUFFICES ASSUME TypeInv, ControlInv, RanInv, GateInv, [Next]_vars PROVE GateInv'
  OBVIOUS
<1>1. CASE Cancel \/ DropStream \/ UNCHANGED vars
  <2>1. UNCHANGED <<phase, worker, tx, calls, executed, granted, requested>>
    BY <1>1
    DEF Cancel, DropStream, vars, loopVars, workerVars, channelVars, historyVars
  <2> QED
    BY <2>1, GateFrame DEF GateInv, AskingEnds
<1> QED
  BY <1>1, GateLoop, GateWorker DEF Next, Done

\* A call of a gated tool, and a call it was held with, never runs without the
\* approval of the caller, for every way rounds, resumes and drops interleave.
THEOREM ApprovalGuards == Spec => []GateHolds
<1> DEFINE I == TypeInv /\ ControlInv /\ RanInv /\ GateInv
<1>1. Init => I
  BY TypeInvInit, ControlInit, RanInit, GateInit
<1>2. I /\ [Next]_vars => I'
  BY TypeInvStep, ControlStep, RanStep, GateStep
<1>3. I => GateHolds
  BY DEF GateInv
<1> QED
  BY <1>1, <1>2, <1>3, PTL DEF Spec
-----------------------------------------------------------------------------
(* One run per call.                                                        *)

\* Nothing has run before a resume, and no call is pending twice.
ResumeFirst ==
  /\ phase = "streaming" => responses = {}
  /\ phase = "looping" /\ responses # {} => Ran = {}

PendingOnce ==
  style # "both" =>
    /\ phase = "looping" /\ responses # {} =>
         \A i \in DOMAIN messages : messages[i].kind = "asks" => Distinct(messages[i].ids)
    /\ phase = "resuming" => Distinct(todo) /\ Elements(todo) \cap Ran = {}

\* A client that keeps to one way to announce calls has each collected once.
CollectedOnce ==
  style # "both" /\ worker = "reading" =>
    /\ OneEach(calls)
    /\ current.id # NoId => current.id \notin CallIds(calls)

OnceInv == ResumeFirst /\ PendingOnce /\ CollectedOnce /\ AtMostOnce

LEMMA OnceInit == Init => OnceInv
<1> SUFFICES ASSUME Init PROVE OnceInv
  OBVIOUS
<1>1. PICK p \in Pending : /\ messages = IF p = <<>> THEN <<>> ELSE Asks(p)
                           /\ style # "both" => Distinct(p)
  BY DEF Init
<1>2. phase = "looping" /\ worker = "none" /\ \A c \in Ids : executed[c] = 0
  BY DEF Init
<1>3. style # "both" => \A i \in DOMAIN messages : Distinct(messages[i].ids)
  BY <1>1 DEF Asks
<1> QED
  BY <1>2, <1>3
  DEF OnceInv, ResumeFirst, PendingOnce, CollectedOnce, AtMostOnce, Ran

\* Steps of the loop that run nothing and leave the calls collected alone.
LEMMA OnceFrame ==
  ASSUME OnceInv, UNCHANGED <<executed, style>>,
         worker' = "reading" => worker = "reading" /\ UNCHANGED <<calls, current>>,
         phase' = "over" \/ (responses' = {} /\ phase' # "resuming")
  PROVE  OnceInv'
  BY DEF OnceInv, ResumeFirst, PendingOnce, CollectedOnce, AtMostOnce, OneEach, CallIds

LEMMA OnceLoop == ASSUME TypeInv, ControlInv, OnceInv, LoopStep PROVE OnceInv'
<1> USE DEF OnceInv
<1>1. CASE StopCancelled \/ StopAtLimit \/ ConsultFails \/ PollEnd
  BY <1>1, OnceFrame DEF StopCancelled, StopAtLimit, ConsultFails, Stop, PollEnd, callerVars,
                         workerVars, historyVars
<1>2. CASE BeginResume
  <2>1. /\ phase = "looping" /\ phase' = "resuming" /\ worker # "reading" /\ responses # {}
        /\ UNCHANGED <<executed, style, worker>>
    BY <1>2 DEF BeginResume, AtTop, callerVars, workerVars, historyVars, ControlInv,
                RoundOwnsWorker
  <2>2. PICK i \in DOMAIN messages : messages[i].kind = "asks" /\ todo' = messages[i].ids
    BY <1>2 DEF BeginResume
  <2>3. Ran' = {}
    BY <2>1 DEF ResumeFirst, Ran
  <2>4. style # "both" => Distinct(todo')
    BY <2>1, <2>2 DEF PendingOnce
  <2> QED
    BY <2>1, <2>3, <2>4 DEF ResumeFirst, PendingOnce, CollectedOnce, AtMostOnce
<1>3. CASE ResumeCall
  <2>1. /\ phase = "resuming" /\ phase' = phase /\ worker # "reading" /\ UNCHANGED <<style, worker>>
        /\ todo \in Seq(Ids) /\ todo # <<>> /\ todo' = Tail(todo)
        /\ executed' \in {executed, [executed EXCEPT ![Head(todo)] = @ + 1]}
    BY <1>3 DEF ResumeCall, callerVars, workerVars, TypeInv, TypeOK, LoopType, ControlInv,
                RoundOwnsWorker
  <2>2. /\ Head(todo) = todo[1] /\ 1 \in DOMAIN todo
        /\ \A i \in DOMAIN todo' : i + 1 \in DOMAIN todo /\ i # 0 /\ todo'[i] = todo[i + 1]
    BY <2>1, HeadTailProperties, LenProperties
  <2>3. executed \in [Ids -> Nat] /\ Head(todo) \in Ids
    BY <2>1, HeadTailProperties DEF TypeInv, TypeOK, HistoryType
  <2>4. ASSUME style # "both"
        PROVE  /\ Distinct(todo') /\ Elements(todo') \cap Ran' = {}
               /\ \A c \in Ids : executed'[c] <= 1
    <3>1. Distinct(todo) /\ Elements(todo) \cap Ran = {} /\ \A c \in Ids : executed[c] <= 1
      BY <2>1, <2>4 DEF PendingOnce, AtMostOnce
    <3>2. DOMAIN todo = 1 .. Len(todo) /\ DOMAIN todo' = 1 .. Len(todo')
          /\ Len(todo) \in Nat /\ Len(todo') \in Nat
      BY <2>1, HeadTailProperties, LenProperties
    <3>3. Distinct(todo')
      BY <2>2, <3>1, <3>2 DEF Distinct
    <3>4. \A i \in DOMAIN todo' : todo'[i] \in Elements(todo) /\ todo'[i] # Head(todo)
      BY <2>2, <3>1, <3>2 DEF Distinct, Elements
    <3>5. executed[Head(todo)] = 0
      BY <2>2, <2>3, <3>1 DEF Elements, Ran
    <3>6. Ran' \subseteq Ran \cup {Head(todo)} /\ \A c \in Ids : executed'[c] <= 1
      BY <2>1, <2>3, <3>1, <3>5 DEF Ran
    <3> QED
      BY <3>1, <3>3, <3>4, <3>6 DEF Elements
  <2> QED
    BY <2>1, <2>4 DEF ResumeFirst, PendingOnce, CollectedOnce, AtMostOnce
<1>4. CASE ResumeDone \/ PollToolCalls
  <2>1. /\ responses' = {} /\ phase' = "looping"
        /\ UNCHANGED <<executed, style, worker, calls, current>>
    BY <1>4 DEF ResumeDone, PollToolCalls, Receiving, callerVars, workerVars, historyVars,
                ResumeFirst
  <2> QED
    BY <2>1, OnceFrame
<1>5. CASE StartRound
  <2>1. /\ responses' = {} /\ phase' = "streaming" /\ calls' = <<>> /\ current' = NoCall
        /\ UNCHANGED <<executed, style>>
    BY <1>5 DEF StartRound, Consult, callerVars, historyVars
  <2> QED
    BY <2>1 DEF ResumeFirst, PendingOnce, CollectedOnce, AtMostOnce, OneEach, CallIds, NoCall
<1>6. CASE PollUpdate
  <2>1. /\ responses' = {} /\ phase' \in {"streaming", "over"}
        /\ UNCHANGED <<executed, style, worker, calls, current>>
    BY <1>6 DEF PollUpdate, Receiving, callerVars, workerVars, ResumeFirst
  <2> QED
    BY <2>1, OnceFrame
<1> QED
  BY <1>1, <1>2, <1>3, <1>4, <1>5, <1>6 DEF LoopStep

LEMMA OneEachAppend ==
  ASSUME NEW cs \in Seq(Call), NEW x \in Call, OneEach(cs), x.id # NoId => x.id \notin CallIds(cs)
  PROVE  OneEach(Append(cs, x))
<1>1. /\ DOMAIN Append(cs, x) = 1 .. Len(cs) + 1 /\ DOMAIN cs = 1 .. Len(cs)
      /\ \A i \in 1 .. Len(cs) : Append(cs, x)[i] = cs[i]
      /\ Append(cs, x)[Len(cs) + 1] = x /\ Len(cs) \in Nat
  BY AppendProperties, LenProperties
<1> QED
  BY <1>1 DEF OneEach, CallIds

\* A call enters tool_calls once.
LEMMA StreamItemOnce ==
  ASSUME TypeInv, RanInv, OnceInv, StreamItem, style # "both"
  PROVE  OneEach(calls') /\ (current'.id # NoId => current'.id \notin CallIds(calls'))
<1>1. worker = "reading"
  BY DEF StreamItem, Announce, CallArgs, CallEnd, BlockDelta
<1>2. /\ OneEach(calls)
      /\ current.id # NoId => current.id \notin CallIds(calls)
      /\ CallIds(calls) \cup {current.id} \subseteq Elements(announced) \cup {NoId}
  BY <1>1 DEF OnceInv, CollectedOnce, RanInv, CallsAnnounced
<1>3. /\ OneEach(Append(calls, current))
      /\ CallIds(Append(calls, current)) = CallIds(calls) \cup {current.id}
  BY <1>2, WorkerFacts, OneEachAppend, CallIdsAppend
<1>4. CASE \E c \in Ids : Announce(c)
  <2>1. PICK c \in Ids : Announce(c)
    BY <1>4
  <2>2. c \notin CallIds(calls) \cup {current.id, NoId}
    BY <2>1, <1>2, LoopAssumption DEF Announce
  <2>3. CASE style = "delta"
    <3>1. CallDelta(c, Len(announced) + 1)
      BY <2>1, <2>3 DEF Announce
    <3> DEFINE index == Len(announced) + 1
    <3>2. /\ current' = current
          /\ \A i \in DOMAIN calls' :
               \/ i = index /\ calls'[i] = [id |-> c, args |-> TRUE]
               \/ i # index /\ i \in DOMAIN calls /\ calls'[i] = calls[i]
               \/ i # index /\ calls'[i] = NoCall
      BY <3>1, WorkerFacts, CallDeltaType DEF TypeInv
    <3>3. \A i \in DOMAIN calls' :
               \/ i = index /\ calls'[i].id = c
               \/ i # index /\ i \in DOMAIN calls /\ calls'[i].id = calls[i].id
               \/ i # index /\ calls'[i].id = NoId
      BY <3>2 DEF NoCall
    <3> HIDE DEF index
    <3>4. OneEach(calls')
      BY <1>2, <2>2, <3>3 DEF OneEach, CallIds
    <3>5. CallIds(calls') \subseteq CallIds(calls) \cup {c, NoId}
      BY <3>3 DEF CallIds
    <3> QED
      BY <1>2, <2>2, <3>2, <3>4, <3>5
  <2>4. CASE style # "delta"
    <3>1. calls' \in {calls, Append(calls, current)} /\ current'.id = c
      BY <2>1, <2>4 DEF Announce, CallStart
    <3> QED
      BY <1>2, <1>3, <2>2, <3>1
  <2> QED
    BY <2>3, <2>4
<1>5. CASE CallArgs
  <2>1. current'.id = current.id /\ UNCHANGED calls
    BY <1>5, WorkerFacts DEF CallArgs, Call
  <2> QED
    BY <1>2, <2>1
<1>6. CASE \E c \in Ids : CallEnd(c)
  <2>1. calls' \in {calls, Append(calls, current)} /\ current'.id = NoId
    BY <1>6 DEF CallEnd, NoCall
  <2> QED
    BY <1>2, <1>3, <2>1
<1>7. CASE BlockDelta
  BY <1>7 DEF BlockDelta
<1> QED
  BY <1>4, <1>5, <1>6, <1>7 DEF StreamItem

LEMMA OnceWorker ==
  ASSUME TypeInv, ControlInv, RanInv, OnceInv, WorkerStep
  PROVE  OnceInv'
<1>1. phase' = "streaming" /\ responses' = {} /\ UNCHANGED style
  BY WorkerStepShape, BusyWorker DEF loopVars, callerVars, OnceInv, ResumeFirst
<1>2. ResumeFirst' /\ PendingOnce'
  BY <1>1 DEF ResumeFirst, PendingOnce
<1>3. CollectedOnce'
  <2>1. CASE StreamItem
    BY <1>1, <2>1, StreamItemOnce DEF CollectedOnce
  <2>2. CASE ~StreamItem
    <3>1. worker' # "reading"
      BY <2>2, WorkerSends, SendsOnlyShape
      DEF SendsOnly, QuietStep, AskApproval, RunTools, HandOver, ToolPanics, PreviewPanics, ToolsDone, ToolReturns
    <3> QED
      BY <3>1 DEF CollectedOnce
  <2> QED
    BY <2>1, <2>2
<1>4. AtMostOnce'
  <2>1. CASE ~RunTools
    BY <1>1, <2>1, WorkerStepShape DEF OnceInv, AtMostOnce
  <2>2. CASE RunTools
    <3> SUFFICES ASSUME style # "both", NEW c \in Ids PROVE executed'[c] <= 1
      BY <1>1 DEF AtMostOnce
    <3> DEFINE runs == {i \in working' : calls'[i].id = c}
    <3>1. /\ worker = "reading" /\ calls' \in Retained(Taken) \ {<<>>}
          /\ working' \subseteq DOMAIN calls'
          /\ executed'[c] = executed[c] + Cardinality(runs)
      BY <2>2 DEF RunTools
    <3>2. OneEach(Taken)
      BY <3>1, WorkerFacts, OneEachAppend DEF OnceInv, CollectedOnce, Taken, NoCall
    <3>3. Distinct(IdsOf(calls'))
      BY <3>1, <3>2, TakenType, RetainedSlots DEF TypeInv
    <3>4. \A i, j \in runs : i = j
      BY <3>1, <3>3 DEF Distinct, IdsOf
    <3>5. CASE runs = {}
      <4>1. Cardinality(runs) = 0
        BY <3>5, FS_EmptySet
      <4>2. executed[c] \in Nat /\ executed[c] <= 1
        BY DEF OnceInv, AtMostOnce, TypeInv, TypeOK, HistoryType
      <4> HIDE DEF runs
      <4> QED
        BY <3>1, <4>1, <4>2
    <3>6. CASE runs # {}
      <4>1. PICK i \in runs : TRUE
        BY <3>6
      <4>2. runs = {i}
        BY <3>4, <4>1
      <4>3. c \in CallIds(calls')
        BY <3>1, <4>1 DEF CallIds
      <4>4. executed[c] = 0
        BY <3>1, <4>3, TakenAnnounced DEF Ran, TypeInv, TypeOK, HistoryType
      <4> QED
        <5>1. Cardinality(runs) = 1
          BY <4>2, FS_Singleton
        <5> HIDE DEF runs
        <5> QED
          BY <3>1, <4>4, <5>1
    <3> QED
      BY <3>5, <3>6
  <2> QED
    BY <2>1, <2>2
<1> QED
  BY <1>2, <1>3, <1>4 DEF OnceInv

LEMMA OnceStep == TypeInv /\ ControlInv /\ RanInv /\ OnceInv /\ [Next]_vars => OnceInv'
<1> SUFFICES ASSUME TypeInv, ControlInv, RanInv, OnceInv, [Next]_vars PROVE OnceInv'
  OBVIOUS
<1>1. CASE Cancel \/ DropStream \/ UNCHANGED vars
  <2>1. UNCHANGED <<phase, worker, responses, messages, todo, calls, current, executed, style>>
    BY <1>1 DEF Cancel, DropStream, vars, loopVars, callerVars, workerVars, historyVars
  <2> QED
    BY <2>1 DEF OnceInv, ResumeFirst, PendingOnce, CollectedOnce, AtMostOnce, Ran, OneEach, CallIds
<1> QED
  BY <1>1, OnceLoop, OnceWorker DEF Next, Done

\* With a client that keeps to one way to announce calls no tool call runs twice,
\* however often the conversation is resumed and however its rounds end.
THEOREM CallsRunOnce == Spec => []AtMostOnce
<1> DEFINE I == TypeInv /\ ControlInv /\ RanInv /\ OnceInv
<1>1. Init => I
  BY TypeInvInit, ControlInit, RanInit, OnceInit
<1>2. I /\ [Next]_vars => I'
  BY TypeInvStep, ControlStep, RanStep, OnceStep
<1>3. I => AtMostOnce
  BY DEF OnceInv
<1> QED
  BY <1>1, <1>2, <1>3, PTL DEF Spec

-----------------------------------------------------------------------------
(* The channel of updates.                                                  *)

\* What the updates on their way say of calls.
Said(k) == {tx[i].of : i \in {j \in DOMAIN tx : tx[j].kind = k}}

\* After a finish there is nothing in the channel.
FinishEnds == \A i \in DOMAIN tx : tx[i].kind = "finish" => i = Len(tx)

LEMMA ChannelFacts ==
  ASSUME TypeInv
  PROVE  tx \in Seq(Update) /\ Len(tx) \in Nat /\ DOMAIN tx = 1 .. Len(tx)
  BY LenProperties DEF TypeInv, TypeOK, ChannelType

LEMMA ReceiveShape ==
  ASSUME TypeInv, tx # <<>>, tx' = Tail(tx)
  PROVE  /\ Head(tx) = tx[1] /\ 1 \in DOMAIN tx
         /\ Len(tx') = Len(tx) - 1 /\ DOMAIN tx' = 1 .. Len(tx) - 1
         /\ \A i \in DOMAIN tx' : i + 1 \in DOMAIN tx /\ tx'[i] = tx[i + 1]
         /\ \A i \in DOMAIN tx : i = 1 \/ (i - 1 \in DOMAIN tx' /\ tx[i] = tx'[i - 1])
<1>1. /\ Head(tx) = tx[1] /\ Len(tx) \in Nat \ {0} /\ DOMAIN tx = 1 .. Len(tx)
      /\ Len(tx') = Len(tx) - 1 /\ DOMAIN tx' = 1 .. Len(tx')
  BY ChannelFacts, HeadTailProperties, LenProperties
<1>2. \A i \in 1 .. Len(tx) - 1 : tx'[i] = tx[i + 1]
  BY <1>1, ChannelFacts, HeadTailProperties
<1> QED
  BY <1>1, <1>2

\* Receiving an update takes what it says from the channel.
LEMMA ReceiveSaid ==
  ASSUME TypeInv, tx # <<>>, tx' = Tail(tx)
  PROVE  \A k : Said(k) = Said(k)' \cup (IF Head(tx).kind = k THEN {Head(tx).of} ELSE {})
<1> SUFFICES ASSUME NEW k
             PROVE Said(k) = Said(k)' \cup (IF Head(tx).kind = k THEN {Head(tx).of} ELSE {})
  OBVIOUS
<1>1. Said(k)' \subseteq Said(k)
  BY ReceiveShape DEF Said
<1>2. Head(tx).kind = k => Head(tx).of \in Said(k)
  BY ReceiveShape DEF Said
<1>3. ASSUME NEW i \in DOMAIN tx, tx[i].kind = k, i # 1 PROVE tx[i].of \in Said(k)'
  BY <1>3, ReceiveShape DEF Said
<1>4. Said(k) \subseteq Said(k)' \cup (IF Head(tx).kind = k THEN {Head(tx).of} ELSE {})
  BY <1>3, ReceiveShape DEF Said
<1> QED
  BY <1>1, <1>2, <1>4

\* A send says one thing more, if somebody receives.
LEMMA SendShape ==
  ASSUME TypeInv, NEW u \in Update, NEW after, Send(u, after)
  PROVE  \/ /\ Receiving /\ worker' = after
            /\ Len(tx') = Len(tx) + 1 /\ DOMAIN tx' = 1 .. Len(tx) + 1
            /\ \A i \in DOMAIN tx : tx'[i] = tx[i]
            /\ tx'[Len(tx) + 1] = u
         \/ ~Receiving /\ worker' = "ended" /\ UNCHANGED tx
<1>1. CASE Receiving /\ tx' = Append(tx, u) /\ worker' = after
  BY <1>1, ChannelFacts, AppendProperties, LenProperties
<1> QED
  BY <1>1 DEF Send

LEMMA SendSaid ==
  ASSUME TypeInv, NEW u \in Update, NEW after, Send(u, after), Receiving
  PROVE  \A k : Said(k)' = Said(k) \cup (IF u.kind = k THEN {u.of} ELSE {})
<1> SUFFICES ASSUME NEW k PROVE Said(k)' = Said(k) \cup (IF u.kind = k THEN {u.of} ELSE {})
  OBVIOUS
<1>1. /\ DOMAIN tx = 1 .. Len(tx) /\ DOMAIN tx' = 1 .. Len(tx) + 1 /\ Len(tx) \in Nat
      /\ \A i \in DOMAIN tx : tx'[i] = tx[i]
      /\ tx'[Len(tx) + 1] = u
  BY ChannelFacts, SendShape
<1>2. Said(k) \subseteq Said(k)'
  BY <1>1 DEF Said
<1>3. u.kind = k => u.of \in Said(k)'
  BY <1>1 DEF Said
<1>4. \A i \in DOMAIN tx' : i \in DOMAIN tx \/ i = Len(tx) + 1
  BY <1>1
<1>5. Said(k)' \subseteq Said(k) \cup (IF u.kind = k THEN {u.of} ELSE {})
  BY <1>1, <1>4 DEF Said
<1> QED
  BY <1>2, <1>3, <1>5

LEMMA FinishEndsStep == TypeInv /\ ControlInv /\ FinishEnds /\ [Next]_vars => FinishEnds'
<1> SUFFICES ASSUME TypeInv, ControlInv, FinishEnds, [Next]_vars PROVE FinishEnds'
  OBVIOUS
<1>1. CASE UNCHANGED tx
  BY <1>1 DEF FinishEnds
<1>2. CASE tx' = <<>>
  BY <1>2 DEF FinishEnds
<1>3. CASE PollUpdate
  <2>1. tx # <<>> /\ tx' = Tail(tx)
    BY <1>3 DEF PollUpdate
  <2> QED
    BY <2>1, ChannelFacts, ReceiveShape DEF FinishEnds
<1>4. CASE WorkerStep
  <2>1. \A i \in DOMAIN tx : tx[i].kind # "finish"
    BY <1>4, WorkerStepShape, BusyWorker
  <2>2. CASE QuietStep
    BY <1>1, <2>2
    DEF QuietStep, AskApproval, RunTools, HandOver, ToolPanics, PreviewPanics, ToolsDone, ToolReturns, channelVars
  <2>3. CASE \E u \in Update, after \in {worker, "ended"} : SendsOnly(u, after)
    <3>1. PICK u \in Update, after \in {worker, "ended"} : Send(u, after)
      BY <2>3 DEF SendsOnly
    <3> QED
      BY <2>1, <3>1, ChannelFacts, SendShape DEF FinishEnds
  <2> QED
    BY <1>4, <2>2, <2>3, WorkerSends
<1>5. CASE \/ LoopStep /\ ~PollUpdate
           \/ Cancel \/ DropStream \/ UNCHANGED vars
  BY <1>1, <1>2, <1>5
  DEF LoopStep, StopCancelled, StopAtLimit, Stop, ConsultFails, BeginResume, ResumeCall, ResumeDone,
      StartRound, PollToolCalls, PollEnd, Cancel, DropStream, vars, channelVars
<1> QED
  BY <1>3, <1>4, <1>5 DEF Next, Done

-----------------------------------------------------------------------------
(* The end of the stream.                                                   *)

\* A worker that ends has sent a finish, unless it has panicked; a loop
\* that is over has received it or says why itself.
EndTold ==
  /\ phase \in {"looping", "resuming"} => verdict = "none"
  /\ phase = "streaming" =>
       worker # "none" /\ (verdict # "none" => worker = "ended" /\ tx = <<>>)
  /\ Receiving /\ worker = "ended" /\ verdict = "none" =>
       (\E i \in DOMAIN tx : tx[i].kind = "finish") \/ panicked
  /\ phase = "over" => verdict # "none" \/ panicked

\* The calls whose approval was asked for, as far as the worker has come.
Sent == requested \cup Said("request")

AskedInOrder ==
  /\ worker \in {"reading", "executing"} => at = 1
  /\ worker = "asking" /\ Receiving =>
       at <= Len(calls) + 1 /\ Sent = {calls[k].id : k \in 1 .. at - 1}
  /\ Receiving /\ (worker = "paused" \/ \E i \in DOMAIN tx : tx[i] = Finish("approval")) =>
       Sent = CallIds(calls)
  /\ verdict = "approval" =>
       /\ phase \in {"streaming", "over"} /\ worker = "ended" /\ tx = <<>>
       /\ requested = CallIds(calls)

EndInv == EndTold /\ AskedInOrder

LEMMA EndInit == Init => EndInv
  BY DEF Init, EndInv, EndTold, AskedInOrder, Receiving, Sent, Said

LEMMA EndLoop ==
  ASSUME TypeInv, ControlInv, GateInv, FinishEnds, EndInv, LoopStep
  PROVE  EndInv'
<1> USE DEF EndInv
<1>1. CASE StopCancelled \/ StopAtLimit \/ ConsultFails
  <2>1. PICK v \in {"cancelled", "rounds", "error"} : AtTop /\ Stop(v)
    BY <1>1 DEF StopCancelled, StopAtLimit, ConsultFails, Consult
  <2>2. /\ phase = "looping" /\ phase' = "over" /\ verdict' = v /\ v # "none" /\ v # "approval"
        /\ UNCHANGED <<worker, at>> /\ worker \in {"none", "ended"}
    BY <2>1 DEF Stop, AtTop, workerVars, ControlInv, RoundOwnsWorker
  <2> QED
    BY <2>2 DEF EndTold, AskedInOrder, Receiving
<1>2. CASE BeginResume \/ ResumeCall \/ ResumeDone
  <2>1. /\ phase \in {"looping", "resuming"} /\ phase' \in {"looping", "resuming"}
        /\ UNCHANGED <<worker, at, verdict>> /\ worker \in {"none", "ended"}
    BY <1>2
    DEF BeginResume, ResumeCall, ResumeDone, AtTop, workerVars, historyVars, ControlInv, RoundOwnsWorker
  <2> QED
    BY <2>1 DEF EndTold, AskedInOrder, Receiving
<1>3. CASE StartRound
  <2>1. /\ phase = "looping" /\ phase' = "streaming" /\ worker' = "reading" /\ at' = 1
        /\ tx' = <<>> /\ UNCHANGED verdict
    BY <1>3 DEF StartRound, Consult, AtTop, historyVars
  <2> QED
    BY <2>1 DEF EndTold, AskedInOrder
<1>4. CASE PollUpdate
  <2> DEFINE u == Head(tx)
  <2>1. /\ tx # <<>> /\ tx' = Tail(tx) /\ Receiving /\ Receiving = (open /\ phase = "streaming")
        /\ UNCHANGED <<worker, panicked, at, calls, open>>
        /\ requested' = IF u.kind = "request" THEN requested \cup {u.of} ELSE requested
        /\ verdict' = IF u.kind = "finish" THEN u.of ELSE verdict
        /\ phase' \in {phase, "over"} /\ (phase' = "over" => phase = "over" \/ u.kind = "finish")
    BY <1>4 DEF PollUpdate, Received, Receiving, workerVars, callerVars
  <2>2. /\ u = tx[1] /\ 1 \in DOMAIN tx /\ Len(tx) \in Nat
        /\ DOMAIN tx = 1 .. Len(tx) /\ DOMAIN tx' = 1 .. Len(tx) - 1
        /\ \A i \in DOMAIN tx' : i + 1 \in DOMAIN tx /\ tx'[i] = tx[i + 1]
        /\ \A i \in DOMAIN tx : i = 1 \/ (i - 1 \in DOMAIN tx' /\ tx[i] = tx'[i - 1])
    BY <2>1, ChannelFacts, ReceiveShape
  <2>3. u.kind = "finish" => u.of \in Reasons /\ u.of # "none" /\ worker = "ended" /\ Len(tx) = 1
    BY <2>2 DEF TypeInv, UpdatesNamed, Reasons, ControlInv, FinishIsLast, FinishEnds
  <2>4. Sent' = Sent
    <3>1. Said("request") = Said("request")' \cup (IF u.kind = "request" THEN {u.of} ELSE {})
      BY <2>1, ReceiveSaid
    <3> QED
      BY <2>1, <3>1 DEF Sent
  <2>5. verdict # "approval"
    BY <2>1 DEF AskedInOrder
  <2>6. EndTold'
    <3>1. CASE u.kind = "finish"
      <4>1. tx' = <<>>
        BY <2>1, <2>2, <2>3, <3>1, ChannelFacts, HeadTailProperties, EmptySeq
      <4> QED
        BY <2>1, <2>3, <3>1, <4>1 DEF EndTold, Receiving
    <3>2. CASE u.kind # "finish"
      <4>1. phase' = "streaming" /\ Receiving' /\ verdict' = verdict
        BY <2>1, <3>2 DEF Receiving
      <4>2. (\E i \in DOMAIN tx : tx[i].kind = "finish") => \E i \in DOMAIN tx' : tx'[i].kind = "finish"
        BY <2>2, <3>2
      <4> QED
        BY <2>1, <4>1, <4>2 DEF EndTold, Receiving
    <3> QED
      BY <3>1, <3>2
  <2>7. (\E i \in DOMAIN tx' : tx'[i] = Finish("approval")) => \E i \in DOMAIN tx : tx[i] = Finish("approval")
    BY <2>2
  <2>8. Receiving' => Receiving
    BY <2>1
  <2>9. ASSUME verdict' = "approval"
        PROVE  /\ phase' \in {"streaming", "over"} /\ worker' = "ended" /\ tx' = <<>>
               /\ requested' = CallIds(calls')
    <3>1. u.kind = "finish" /\ u.of = "approval"
      BY <2>1, <2>5, <2>9
    <3>2. u = Finish("approval")
      <4>1. u \in Update
        BY <2>2, ChannelFacts, ElementOfSeq
      <4> QED
        BY <3>1, <4>1 DEF Update, Finish
    <3>3. Sent = CallIds(calls)
      BY <2>1, <2>2, <3>2 DEF AskedInOrder
    <3>4. DOMAIN tx' = {} /\ tx' = <<>>
      BY <2>1, <2>2, <2>3, <3>1, ChannelFacts, HeadTailProperties, EmptySeq
    <3>5. requested' = CallIds(calls')
      BY <2>1, <2>4, <3>3, <3>4 DEF Sent, Said, CallIds
    <3> QED
      BY <2>1, <2>3, <3>1, <3>4, <3>5 DEF Receiving
  <2>10. AskedInOrder'
    BY <2>1, <2>4, <2>7, <2>8, <2>9 DEF AskedInOrder, CallIds
  <2> QED
    BY <2>6, <2>10
<1>5. CASE PollToolCalls
  <2>1. /\ Head(tx) = Finish("tools") /\ tx # <<>> /\ tx' = <<>> /\ Receiving /\ phase' = "looping"
        /\ UNCHANGED <<worker, at, verdict, requested, calls>>
    BY <1>5 DEF PollToolCalls, Finish, workerVars, historyVars
  <2>2. verdict # "approval" /\ worker = "ended"
    <3>1. Head(tx) = tx[1] /\ 1 \in DOMAIN tx
      BY <2>1, HeadTailProperties, ChannelFacts
    <3> QED
      BY <2>1, <3>1 DEF AskedInOrder, ControlInv, FinishIsLast, Finish
  <2>3. verdict = "none"
    BY <2>1 DEF EndTold, Receiving
  <2> QED
    BY <2>1, <2>2, <2>3 DEF EndTold, AskedInOrder, Receiving
<1>6. CASE PollEnd
  <2>1. /\ Receiving /\ tx = <<>> /\ worker = "ended" /\ phase' = "over"
        /\ UNCHANGED <<worker, at, verdict, requested, calls, tx, panicked>>
    BY <1>6 DEF PollEnd, workerVars, channelVars, historyVars
  <2> QED
    BY <2>1 DEF EndTold, AskedInOrder, Receiving, CallIds
<1> QED
  BY <1>1, <1>2, <1>3, <1>4, <1>5, <1>6 DEF LoopStep

\* The worker's last send is a finish; approval is awaited when all was asked.
LEMMA EndFinish ==
  ASSUME TypeInv, ControlInv, EndInv, NEW r \in Reasons, worker \notin {"none", "ended"},
         Send(Finish(r), "ended"), r = "approval" => worker = "paused",
         UNCHANGED <<loopVars, callerVars, requested, verdict, calls>>
  PROVE  EndInv'
<1>1. /\ phase = "streaming" /\ verdict = "none" /\ \A i \in DOMAIN tx : tx[i].kind # "finish"
      /\ UNCHANGED <<phase, open, Receiving>>
  BY BusyWorker DEF EndInv, EndTold, loopVars, callerVars, Receiving
<1>2. worker' = "ended" /\ Finish(r) \in Update /\ Finish(r).kind = "finish"
  BY FinishTypes DEF Send
<1>3. CASE Receiving
  <2>1. /\ DOMAIN tx' = 1 .. Len(tx) + 1 /\ Len(tx) \in Nat /\ DOMAIN tx = 1 .. Len(tx)
        /\ \A i \in DOMAIN tx : tx'[i] = tx[i]
        /\ tx'[Len(tx) + 1] = Finish(r)
    BY <1>2, <1>3, SendShape, ChannelFacts
  <2>2. Len(tx) + 1 \in DOMAIN tx'
    BY <2>1
  <2>3. EndTold'
    BY <1>1, <1>2, <2>1, <2>2 DEF EndTold
  <2>4. Sent' = Sent
    <3>1. Said("request")' = Said("request") \cup {}
      BY <1>2, <1>3, SendSaid
    <3> QED
      BY <3>1 DEF Sent
  <2>5. ASSUME NEW i \in DOMAIN tx', tx'[i] = Finish("approval") PROVE Sent = CallIds(calls)
    <3>1. i = Len(tx) + 1
      BY <1>1, <2>1, <2>5 DEF Finish
    <3>2. worker = "paused"
      BY <2>1, <2>5, <3>1 DEF Finish
    <3> QED
      BY <1>3, <3>2 DEF EndInv, AskedInOrder
  <2>6. AskedInOrder'
    BY <1>1, <1>2, <2>4, <2>5 DEF AskedInOrder, CallIds
  <2> QED
    BY <2>3, <2>6 DEF EndInv
<1>4. CASE ~Receiving
  BY <1>1, <1>2, <1>4 DEF EndInv, EndTold, AskedInOrder
<1> QED
  BY <1>3, <1>4

\* Other steps of the worker leave no finish behind.
LEMMA EndBusy ==
  ASSUME TypeInv, ControlInv, ControlInv', EndInv, WorkerStep, worker' \notin {"none", "ended"},
         worker' \in {"reading", "executing"} => at' = 1,
         worker' = "asking" /\ Receiving =>
           at' <= Len(calls') + 1 /\ Sent' = {calls'[k].id : k \in 1 .. at' - 1},
         worker' = "paused" /\ Receiving => Sent' = CallIds(calls')
  PROVE  EndInv'
<1>1. /\ phase = "streaming" /\ verdict = "none" /\ worker \notin {"none", "ended"}
      /\ UNCHANGED <<phase, open, Receiving, verdict>>
  BY WorkerStepShape, BusyWorker DEF EndInv, EndTold, loopVars, callerVars, Receiving
<1>2. \A i \in DOMAIN tx' : tx'[i].kind # "finish"
  BY DEF ControlInv, FinishIsLast
<1>3. EndTold'
  BY <1>1, <1>2 DEF EndTold
<1>4. AskedInOrder'
  BY <1>1, <1>2 DEF AskedInOrder, Finish
<1> QED
  BY <1>3, <1>4 DEF EndInv

\* A worker that ends because nobody receives owes nothing.
LEMMA EndUnheard ==
  ASSUME TypeInv, ControlInv, EndInv, WorkerStep, worker' = "ended", ~Receiving
  PROVE  EndInv'
<1>1. /\ phase = "streaming" /\ verdict = "none"
      /\ UNCHANGED <<phase, open, Receiving, verdict>>
  BY WorkerStepShape, BusyWorker DEF EndInv, EndTold, loopVars, callerVars, Receiving
<1> QED
  BY <1>1 DEF EndInv, EndTold, AskedInOrder

LEMMA EndWorker ==
  ASSUME TypeInv, ControlInv, GateInv, EndInv, WorkerStep
  PROVE  EndInv'
<1>1. /\ phase = "streaming" /\ worker \notin {"none", "ended"} /\ ControlInv'
      /\ UNCHANGED <<loopVars, callerVars, requested, verdict, Receiving>>
      /\ AskedInOrder
  BY WorkerStepShape, BusyWorker, ControlWorker DEF EndInv, loopVars, callerVars, Receiving
<1>2. CASE StreamFails \/ FinishStop
  <2>1. PICK r \in {"error", "stop"} : Send(Finish(r), "ended")
    BY <1>2 DEF StreamFails, FinishStop
  <2>2. UNCHANGED calls
    BY <1>2 DEF StreamFails, FinishStop, readOnly
  <2> QED
    BY <1>1, <2>1, <2>2, EndFinish DEF Reasons
<1>3. CASE Pause \/ FinishTools
  <2>1. PICK r \in {"approval", "tools"} :
          Send(Finish(r), "ended") /\ (r = "approval" => worker = "paused")
    BY <1>3 DEF Pause, FinishTools
  <2>2. UNCHANGED calls
    BY <1>3 DEF Pause, FinishTools
  <2> QED
    BY <1>1, <2>1, <2>2, EndFinish DEF Reasons
<1>4. CASE StreamItem
  <2>1. worker = "reading" /\ worker' \in {"reading", "ended"} /\ UNCHANGED at
        /\ (worker' = "ended" => ~Receiving)
    BY <1>4 DEF StreamItem, Announce, CallArgs, CallEnd, BlockDelta, Send, readOnly
  <2> QED
    BY <1>1, <2>1, EndBusy, EndUnheard DEF AskedInOrder
<1>5. CASE RunTools \/ \E i \in DOMAIN calls : ToolReturns(i)
  <2>1. worker \in {"reading", "executing"} /\ worker' = "executing" /\ UNCHANGED at
    BY <1>5 DEF RunTools, ToolReturns
  <2> QED
    BY <1>1, <2>1, EndBusy DEF AskedInOrder
<1>6. CASE ToolPanics \/ PreviewPanics
  <2>1. /\ panicked' /\ worker' = "ended"
        /\ UNCHANGED <<tx, requested, verdict, phase>>
    BY <1>1, <1>6 DEF ToolPanics, PreviewPanics, channelVars, loopVars
  <2>2. \A i \in DOMAIN tx : tx[i].kind # "finish"
    BY <1>1, BusyWorker
  <2>3. verdict = "none"
    BY <1>1 DEF EndInv, EndTold
  <2>4. EndTold'
    BY <1>1, <2>1, <2>3 DEF EndTold
  <2>5. AskedInOrder'
    BY <1>1, <2>1, <2>2, <2>3 DEF AskedInOrder, Finish
  <2> QED
    BY <2>4, <2>5 DEF EndInv
<1>7. CASE ToolsDone \/ ReportResult
  <2>1. worker' \in {"reporting", "ended"} /\ (worker' = "ended" => ~Receiving)
    BY <1>7 DEF ToolsDone, ReportResult, Send
  <2> QED
    BY <1>1, <2>1, EndBusy, EndUnheard
<1>8. CASE AskApproval
  <2>1. worker = "reading" /\ worker' = "asking" /\ UNCHANGED <<at, tx>>
        /\ calls' \in Seq(Call)
    BY <1>8, TakeType DEF AskApproval, channelVars
  <2>2. at' = 1
    BY <1>1, <2>1 DEF AskedInOrder
  <2>3. requested = {} /\ \A i \in DOMAIN tx : tx[i].kind # "request"
    BY <2>1 DEF GateInv, AskingEnds, Asking
  <2>4. Sent' = {}
    BY <1>1, <2>1, <2>3 DEF Sent, Said
  <2>5. {calls'[k].id : k \in 1 .. at' - 1} = {}
    BY <2>2
  <2>6. Len(calls') \in Nat
    BY <2>1, LenProperties
  <2> QED
    BY <1>1, <2>1, <2>2, <2>4, <2>5, <2>6, EndBusy
<1>9. CASE RequestApproval
  <2> DEFINE u == [kind |-> "request", of |-> calls[at].id]
  <2>1. /\ worker = "asking" /\ at <= Len(calls) /\ Send(u, "asking") /\ at' = at + 1
        /\ UNCHANGED calls
    BY <1>9 DEF RequestApproval
  <2>2. CASE ~Receiving
    BY <1>1, <2>1, <2>2, EndUnheard DEF Send
  <2>3. CASE Receiving
    <3>1. u \in Update /\ u.kind = "request" /\ u.of = calls[at].id
      BY <2>1, NextCall, UpdateTypes
    <3>2. Said("request")' = Said("request") \cup {calls[at].id}
      BY <2>1, <2>3, <3>1, SendSaid
    <3>3. Sent = {calls[k].id : k \in 1 .. at - 1}
      BY <1>1, <2>1, <2>3 DEF AskedInOrder
    <3>4. at \in Nat \ {0} /\ Len(calls) \in Nat
      BY WorkerFacts
    <3>5. 1 .. at' - 1 = (1 .. at - 1) \cup {at}
      BY <2>1, <3>4
    <3>6. Sent' = {calls[k].id : k \in 1 .. at' - 1}
      BY <1>1, <3>2, <3>3, <3>5 DEF Sent
    <3>7. at' <= Len(calls') + 1 /\ worker' = "asking"
      BY <2>1, <2>3, <3>4 DEF Send
    <3> QED
      BY <1>1, <2>1, <3>6, <3>7, EndBusy
  <2> QED
    BY <2>2, <2>3
<1>10. CASE HandOver
  <2>1. /\ worker = "asking" /\ at > Len(calls) /\ worker' = "paused"
        /\ UNCHANGED <<tx, calls, requested>>
    BY <1>10 DEF HandOver, historyVars
  <2>2. Receiving => Sent' = CallIds(calls')
    <3> SUFFICES ASSUME Receiving PROVE Sent' = CallIds(calls')
      OBVIOUS
    <3>1. at <= Len(calls) + 1 /\ Sent = {calls[k].id : k \in 1 .. at - 1}
      BY <1>1, <2>1 DEF AskedInOrder
    <3>2. at \in Nat \ {0} /\ Len(calls) \in Nat /\ DOMAIN calls = 1 .. Len(calls)
      BY WorkerFacts
    <3>3. 1 .. at - 1 = DOMAIN calls
      BY <2>1, <3>1, <3>2
    <3>4. Sent' = Sent
      BY <2>1 DEF Sent, Said
    <3> QED
      BY <2>1, <3>1, <3>3, <3>4 DEF CallIds
  <2> QED
    BY <1>1, <2>1, <2>2, EndBusy
<1> QED
  BY <1>2, <1>3, <1>4, <1>5, <1>6, <1>7, <1>8, <1>9, <1>10 DEF WorkerStep, StreamOver

LEMMA EndStep ==
  TypeInv /\ ControlInv /\ GateInv /\ FinishEnds /\ EndInv /\ [Next]_vars => EndInv'
<1> SUFFICES ASSUME TypeInv, ControlInv, GateInv, FinishEnds, EndInv, [Next]_vars PROVE EndInv'
  OBVIOUS
<1>1. CASE Cancel \/ DropStream \/ UNCHANGED vars
  <2>1. /\ UNCHANGED <<loopVars, workerVars, channelVars, historyVars>> /\ (open' => open)
    BY <1>1 DEF Cancel, DropStream, vars, callerVars
  <2>2. /\ UNCHANGED <<phase, worker, at, calls, panicked, tx, requested, verdict>>
        /\ open' => open
    BY <2>1 DEF loopVars, workerVars, channelVars, historyVars
  <2>3. UNCHANGED Sent /\ (Receiving' => Receiving)
    BY <2>2 DEF Sent, Said, Receiving
  <2> QED
    BY <2>2, <2>3 DEF EndInv, EndTold, AskedInOrder, CallIds
<1> QED
  BY <1>1, EndLoop, EndWorker DEF Next, Done

\* A stream that is over has told its consumer why, unless its worker panicked, for
\* every capacity of the channel and every moment of cancel and drop; it says
\* that approval is awaited only after each call of the round was announced.
THEOREM EndsTold == Spec => []EndsWithVerdict
<1> DEFINE I == TypeInv /\ ControlInv /\ RanInv /\ GateInv /\ FinishEnds /\ EndInv
<1>1. Init => I
  BY TypeInvInit, ControlInit, RanInit, GateInit, EndInit DEF Init, FinishEnds
<1>2. I /\ [Next]_vars => I'
  BY TypeInvStep, ControlStep, RanStep, GateStep, FinishEndsStep, EndStep
<1>3. I => EndsWithVerdict
  <2>1. CallIds(calls) = Elements(IdsOf(calls))
    BY DEF CallIds, Elements, IdsOf
  <2> QED
    BY <2>1 DEF TypeInv, TypeOK, HistoryType, EndInv, EndTold, AskedInOrder, EndsWithVerdict
<1> QED
  BY <1>1, <1>2, <1>3, PTL DEF Spec

-----------------------------------------------------------------------------
(* Conversations.                                                           *)

AnsweredIn(ms) ==
  UNION {Elements(ms[i].ids) : i \in {j \in DOMAIN ms : ms[j].kind = "answer"}}

LEMMA ConcatCalls ==
  ASSUME NEW m \in Seq(Message), NEW b \in Seq(Message)
  PROVE  /\ MentionedIn(m \o b) = MentionedIn(m) \cup MentionedIn(b)
         /\ AnsweredIn(m \o b) = AnsweredIn(m) \cup AnsweredIn(b)
         /\ b # <<>> => m \o b # <<>> /\ (m \o b)[Len(m \o b)] = b[Len(b)]
<1>1. /\ Len(m) \in Nat /\ Len(b) \in Nat /\ Len(m \o b) = Len(m) + Len(b)
      /\ DOMAIN m = 1 .. Len(m) /\ DOMAIN b = 1 .. Len(b)
      /\ DOMAIN (m \o b) = 1 .. Len(m) + Len(b)
  BY ConcatProperties, LenProperties
<1>2. /\ \A i \in DOMAIN m : i \in DOMAIN (m \o b) /\ (m \o b)[i] = m[i]
      /\ \A i \in DOMAIN b : Len(m) + i \in DOMAIN (m \o b) /\ (m \o b)[Len(m) + i] = b[i]
  BY <1>1, ConcatProperties
<1>3. \A i \in DOMAIN (m \o b) :
        \/ i \in DOMAIN m /\ (m \o b)[i] = m[i]
        \/ \E j \in DOMAIN b : (m \o b)[i] = b[j]
  <2> SUFFICES ASSUME NEW i \in DOMAIN (m \o b), i \notin DOMAIN m
               PROVE  \E j \in DOMAIN b : (m \o b)[i] = b[j]
    BY <1>2
  <2>1. i - Len(m) \in DOMAIN b /\ Len(m) + (i - Len(m)) = i
    BY <1>1
  <2> QED
    BY <1>2, <2>1
<1>4. MentionedIn(m \o b) = MentionedIn(m) \cup MentionedIn(b)
  <2>1. MentionedIn(m \o b) \subseteq MentionedIn(m) \cup MentionedIn(b)
    BY <1>3 DEF MentionedIn
  <2> QED
    BY <2>1, MentionedGrows
<1>5. AnsweredIn(m \o b) = AnsweredIn(m) \cup AnsweredIn(b)
  <2>1. AnsweredIn(m \o b) \subseteq AnsweredIn(m) \cup AnsweredIn(b)
    BY <1>3 DEF AnsweredIn
  <2>2. AnsweredIn(m) \subseteq AnsweredIn(m \o b)
    <3> SUFFICES ASSUME NEW i \in DOMAIN m, m[i].kind = "answer"
                 PROVE  Elements(m[i].ids) \subseteq AnsweredIn(m \o b)
      BY DEF AnsweredIn
    <3>1. i \in DOMAIN (m \o b) /\ (m \o b)[i] = m[i]
      BY <1>2
    <3> QED
      BY <3>1 DEF AnsweredIn
  <2>3. AnsweredIn(b) \subseteq AnsweredIn(m \o b)
    <3> SUFFICES ASSUME NEW i \in DOMAIN b, b[i].kind = "answer"
                 PROVE  Elements(b[i].ids) \subseteq AnsweredIn(m \o b)
      BY DEF AnsweredIn
    <3>1. Len(m) + i \in DOMAIN (m \o b) /\ (m \o b)[Len(m) + i] = b[i]
      BY <1>2
    <3> QED
      BY <3>1 DEF AnsweredIn
  <2> QED
    BY <2>1, <2>2, <2>3
<1>6. ASSUME b # <<>> PROVE m \o b # <<>> /\ (m \o b)[Len(m \o b)] = b[Len(b)]
  <2>1. Len(b) # 0
    BY <1>6, EmptySeq
  <2>2. Len(b) \in DOMAIN b
    BY <1>1, <2>1
  <2> QED
    BY <1>1, <1>2, <2>1, <2>2, EmptySeq
<1> QED
  BY <1>4, <1>5, <1>6

\* A message with calls and their answers leave no call open.
LEMMA TurnCalls ==
  ASSUME NEW ids \in Seq(Ids)
  PROVE  /\ MentionedIn(Asks(ids)) = Elements(ids) /\ AnsweredIn(Asks(ids)) = {}
         /\ MentionedIn(Answers(ids)) = Elements(ids) /\ AnsweredIn(Answers(ids)) = Elements(ids)
         /\ ids # <<>> => Answers(ids) # <<>> /\ Answers(ids)[Len(Answers(ids))].kind = "answer"
<1>1. DOMAIN Asks(ids) = {1} /\ Asks(ids)[1].kind = "asks" /\ Asks(ids)[1].ids = ids
  BY DEF Asks
<1>2. /\ DOMAIN Answers(ids) = DOMAIN ids
      /\ \A i \in DOMAIN ids : Answers(ids)[i].kind = "answer" /\ Elements(Answers(ids)[i].ids) = {ids[i]}
  BY DEF Answers, Answer, Elements
<1>3. ASSUME ids # <<>> PROVE Answers(ids) # <<>> /\ Answers(ids)[Len(Answers(ids))].kind = "answer"
  <2>1. Answers(ids) \in Seq(Message) /\ Len(ids) \in Nat \ {0} /\ DOMAIN ids = 1 .. Len(ids)
    BY <1>3, MessageTypes, LenProperties, EmptySeq
  <2>2. DOMAIN Answers(ids) = 1 .. Len(Answers(ids)) /\ Len(Answers(ids)) \in Nat
    BY <2>1, LenProperties
  <2>3. Len(Answers(ids)) = Len(ids)
    BY <1>2, <2>1, <2>2
  <2>4. Len(ids) \in DOMAIN ids
    BY <2>1
  <2> QED
    BY <1>2, <2>1, <2>3, <2>4, EmptySeq
<1>4. /\ MentionedIn(Asks(ids)) = Elements(ids)
      /\ {j \in DOMAIN Asks(ids) : Asks(ids)[j].kind = "answer"} = {}
  BY <1>1 DEF MentionedIn
<1>5. AnsweredIn(Asks(ids)) = {}
  BY <1>4 DEF AnsweredIn
<1>6. MentionedIn(Answers(ids)) = UNION {{ids[i]} : i \in DOMAIN ids}
  <2>1. {Elements(Answers(ids)[i].ids) : i \in DOMAIN Answers(ids)} = {{ids[i]} : i \in DOMAIN ids}
    BY <1>2
  <2> QED
    BY <2>1 DEF MentionedIn
<1>7. AnsweredIn(Answers(ids)) = UNION {{ids[i]} : i \in DOMAIN ids}
  <2>1. {j \in DOMAIN Answers(ids) : Answers(ids)[j].kind = "answer"} = DOMAIN ids
    BY <1>2
  <2>2. {Elements(Answers(ids)[i].ids) : i \in DOMAIN ids} = {{ids[i]} : i \in DOMAIN ids}
    BY <1>2
  <2> QED
    BY <2>1, <2>2 DEF AnsweredIn
<1>8. UNION {{ids[i]} : i \in DOMAIN ids} = Elements(ids)
  BY DEF Elements
<1> QED
  BY <1>3, <1>4, <1>5, <1>6, <1>7, <1>8

-----------------------------------------------------------------------------
(* Approved calls.                                                          *)

\* Until the responses are used up the approved calls are those of the last
\* message that has calls, and then those resolved or still to be resolved.
GrantedPending ==
  /\ phase = "streaming" => responses = {}
  /\ phase = "looping" /\ responses # {} =>
       \A i \in DOMAIN messages :
         messages[i].kind = "asks" => granted \subseteq Elements(messages[i].ids)
  /\ phase = "resuming" =>
       /\ granted \subseteq Elements(todo) \cup AnsweredIn(answers)
       /\ \A c \in granted \ Elements(todo) : ToolOf[c] \in Static => executed[c] >= 1

ApprovedInv == GrantedPending /\ ApprovedRun

LEMMA ApprovedInit == Init => ApprovedInv
<1> SUFFICES ASSUME Init PROVE ApprovedInv
  OBVIOUS
<1>1. PICK p \in Pending : /\ messages = IF p = <<>> THEN <<>> ELSE Asks(p)
                           /\ responses \in SUBSET Elements(p)
                           /\ granted \in SUBSET responses
  BY DEF Init
<1>2. \A i \in DOMAIN messages : granted \subseteq Elements(messages[i].ids)
  BY <1>1 DEF Asks
<1>3. phase = "looping"
  BY DEF Init
<1> QED
  BY <1>1, <1>2, <1>3 DEF ApprovedInv, GrantedPending, ApprovedRun

\* Calls that have run stay so.
LEMMA ExecutedGrows ==
  ASSUME TypeInv, [Next]_vars
  PROVE  \A c \in Ids : executed'[c] >= executed[c] /\ executed[c] \in Nat /\ executed'[c] \in Nat
<1>1. executed \in [Ids -> Nat] /\ executed' \in [Ids -> Nat]
  BY TypeInvStep DEF TypeInv, TypeOK, HistoryType
<1>2. CASE UNCHANGED executed
  BY <1>1, <1>2
<1>3. CASE ResumeCall
  <2>1. executed' \in {executed, [executed EXCEPT ![Head(todo)] = @ + 1]}
    BY <1>3 DEF ResumeCall
  <2> QED
    BY <1>1, <2>1
<1>4. CASE RunTools
  <2> DEFINE starts(c) == Cardinality({i \in working' : calls'[i].id = c})
  <2>1. working' \subseteq DOMAIN calls' /\ calls' \in Seq(Call)
    BY <1>4, TakeType DEF RunTools
  <2>2. IsFiniteSet(working')
    BY <2>1, LenProperties, FS_Interval, FS_Subset
  <2>3. \A c \in Ids : starts(c) \in Nat
    BY <2>2, FS_Subset, FS_CardinalityType
  <2>4. \A c \in Ids : executed'[c] = executed[c] + starts(c)
    BY <1>4 DEF RunTools
  <2> HIDE DEF starts
  <2> QED
    BY <1>1, <2>3, <2>4
<1>5. CASE LoopStep /\ ~ResumeCall
  BY <1>2, <1>5
  DEF LoopStep, StopCancelled, StopAtLimit, Stop, ConsultFails, BeginResume, ResumeDone,
      StartRound, PollUpdate, PollToolCalls, PollEnd, historyVars
<1>6. CASE WorkerStep /\ ~RunTools
  BY <1>2, <1>6, WorkerStepShape
<1>7. CASE Cancel \/ DropStream \/ UNCHANGED vars
  BY <1>2, <1>7 DEF Cancel, DropStream, vars, historyVars
<1> QED
  BY <1>3, <1>4, <1>5, <1>6, <1>7 DEF Next, Done

\* What is answered stays so.
LEMMA AnsweredGrows ==
  ASSUME TypeInv, [Next]_vars
  PROVE  Answered \subseteq Answered'
<1>1. /\ messages \in Seq(Message) /\ box \in Seq(Message) /\ answers \in Seq(Message)
      /\ Answered = AnsweredIn(messages) /\ Answered' = AnsweredIn(messages')
  BY DEF TypeInv, TypeOK, LoopType, ChannelType, Answered, AnsweredIn
<1>2. CASE ResumeDone \/ PollToolCalls
  <2>1. messages' \in {messages \o answers, messages \o box}
    BY <1>2 DEF ResumeDone, PollToolCalls
  <2> QED
    BY <1>1, <2>1, ConcatCalls
<1>3. CASE ~(ResumeDone \/ PollToolCalls)
  <2>1. UNCHANGED messages
    BY <1>3, WorkerStepShape
    DEF Next, LoopStep, StopCancelled, StopAtLimit, ConsultFails, Stop, BeginResume, ResumeCall,
        StartRound, PollUpdate, PollEnd, Cancel, DropStream, Done, vars, loopVars
  <2> QED
    BY <1>1, <2>1
<1> QED
  BY <1>2, <1>3

LEMMA ApprovedStep == TypeInv /\ ApprovedInv /\ [Next]_vars => ApprovedInv'
<1> SUFFICES ASSUME TypeInv, ApprovedInv, [Next]_vars PROVE ApprovedInv'
  OBVIOUS
<1> USE DEF ApprovedInv, GrantedPending, ApprovedRun
<1>1. /\ granted \subseteq Ids
      /\ \A c \in Ids : executed'[c] >= executed[c] /\ executed[c] \in Nat /\ executed'[c] \in Nat
      /\ Answered \subseteq Answered'
  BY ExecutedGrows, AnsweredGrows DEF TypeInv, TypeOK, HistoryType
<1>2. CASE BeginResume
  <2>1. PICK i \in DOMAIN messages : messages[i].kind = "asks" /\ todo' = messages[i].ids
    BY <1>2 DEF BeginResume
  <2>2. /\ phase = "looping" /\ responses # {} /\ phase' = "resuming"
        /\ UNCHANGED <<responses, granted>>
    BY <1>2 DEF BeginResume, AtTop, historyVars
  <2> QED
    BY <2>1, <2>2
<1>3. CASE ResumeCall
  <2> DEFINE c == Head(todo)
  <2>1. /\ phase = "resuming" /\ UNCHANGED <<phase, responses, granted>>
        /\ executed' = IF c \in granted /\ ToolOf[c] \in Static
                       THEN [executed EXCEPT ![c] = @ + 1] ELSE executed
        /\ answers' = Append(answers, Answer(c)) /\ todo' = Tail(todo)
    BY <1>3 DEF ResumeCall
  <2>2. c \in Ids /\ Elements(todo) = {c} \cup Elements(todo')
    <3>1. /\ todo \in Seq(Ids) /\ Len(todo) \in Nat /\ DOMAIN todo = 1 .. Len(todo)
          /\ c = todo[1] /\ 1 \in DOMAIN todo
          /\ DOMAIN todo' = 1 .. Len(todo) - 1
          /\ \A i \in DOMAIN todo' : todo'[i] = todo[i + 1]
      BY <1>3, <2>1, HeadTailProperties, LenProperties
      DEF ResumeCall, TypeInv, TypeOK, LoopType
    <3>2. \A i \in DOMAIN todo : i = 1 \/ (i - 1 \in DOMAIN todo' /\ todo[i] = todo'[i - 1])
      BY <3>1
    <3> QED
      BY <3>1, <3>2 DEF Elements
  <2>3. ASSUME c \in granted, ToolOf[c] \in Static PROVE executed'[c] >= 1
    <3>1. executed'[c] = executed[c] + 1
      BY <2>1, <2>2, <2>3 DEF TypeInv, TypeOK, HistoryType
    <3> QED
      BY <1>1, <2>2, <3>1
  <2>4. ASSUME NEW d \in granted \ Elements(todo'), ToolOf[d] \in Static PROVE executed'[d] >= 1
    <3>1. CASE d = c
      BY <2>3, <2>4, <3>1
    <3>2. CASE d # c
      <4>1. d \in Ids /\ executed[d] >= 1
        BY <1>1, <2>1, <2>2, <2>4, <3>2
      <4> QED
        BY <1>1, <4>1
    <3> QED
      BY <3>1, <3>2
  <2>5. AnsweredIn(answers') = AnsweredIn(answers) \cup {c}
    <3>1. /\ answers \in Seq(Message) /\ Len(answers) \in Nat /\ Answer(c) \in Message
          /\ DOMAIN answers = 1 .. Len(answers) /\ DOMAIN answers' = 1 .. Len(answers) + 1
          /\ \A i \in DOMAIN answers : answers'[i] = answers[i]
          /\ answers'[Len(answers) + 1] = Answer(c)
      BY <2>1, <2>2, MessageTypes, AppendProperties, LenProperties DEF TypeInv, TypeOK, LoopType
    <3>2. Answer(c).kind = "answer" /\ Elements(Answer(c).ids) = {c}
      BY DEF Answer, Elements
    <3> HIDE DEF c
    <3>3. \A i \in DOMAIN answers' : i \in DOMAIN answers \/ i = Len(answers) + 1
      BY <3>1
    <3>4. DOMAIN answers \subseteq DOMAIN answers' /\ Len(answers) + 1 \in DOMAIN answers'
      BY <3>1
    <3>5. AnsweredIn(answers') \subseteq AnsweredIn(answers) \cup {c}
      BY <3>1, <3>2, <3>3 DEF AnsweredIn
    <3>6. AnsweredIn(answers) \subseteq AnsweredIn(answers')
      BY <3>1, <3>4 DEF AnsweredIn
    <3>7. c \in AnsweredIn(answers')
      BY <3>1, <3>2, <3>4 DEF AnsweredIn
    <3> QED
      BY <3>5, <3>6, <3>7
  <2>6. granted \subseteq Elements(todo') \cup AnsweredIn(answers')
    BY <2>1, <2>2, <2>5
  <2>7. ASSUME responses = {}, NEW d \in granted
        PROVE  d \in Answered' /\ (ToolOf[d] \in Static => executed'[d] >= 1)
    <3>1. d \in Ids /\ d \in Answered /\ (ToolOf[d] \in Static => executed[d] >= 1)
      BY <1>1, <2>7
    <3> QED
      BY <1>1, <3>1
  <2> QED
    BY <2>1, <2>4, <2>6, <2>7
<1>4. CASE ResumeDone
  <2>1. /\ phase = "resuming" /\ Elements(todo) = {} /\ phase' = "looping" /\ responses' = {}
        /\ messages' = messages \o answers /\ UNCHANGED <<granted, executed>>
    BY <1>4 DEF ResumeDone, Elements, historyVars
  <2>2. AnsweredIn(answers) \subseteq Answered'
    <3>1. Answered' = AnsweredIn(messages \o answers)
      BY <2>1 DEF Answered, AnsweredIn
    <3> QED
      BY <3>1, ConcatCalls DEF TypeInv, TypeOK, LoopType
  <2> QED
    BY <2>1, <2>2
<1>5. CASE StartRound \/ PollToolCalls
  <2>1. /\ responses = {} /\ UNCHANGED <<granted, executed, responses>>
        /\ phase' \in {"streaming", "looping"}
    BY <1>5 DEF StartRound, Consult, PollToolCalls, Receiving, historyVars
  <2> QED
    BY <1>1, <2>1
<1>6. CASE \/ StopCancelled \/ StopAtLimit \/ ConsultFails \/ PollUpdate \/ PollEnd
           \/ Cancel \/ DropStream \/ WorkerStep \/ UNCHANGED vars
  <2>1. UNCHANGED <<granted, responses, todo, answers, messages>> /\ phase' \in {phase, "over"}
    BY <1>6, WorkerStepShape
    DEF StopCancelled, StopAtLimit, ConsultFails, Stop, PollUpdate, PollEnd, Cancel, DropStream,
        vars, loopVars, historyVars
  <2>2. ASSUME NEW d \in granted, executed[d] >= 1 PROVE executed'[d] >= 1
    BY <1>1, <2>2
  <2> QED
    BY <1>1, <2>1, <2>2
<1> QED
  BY <1>2, <1>3, <1>4, <1>5, <1>6 DEF Next, LoopStep, Done

\* Once the responses are used up each approved call is answered, and has run if
\* its tool is registered with the client, whatever cancels, drops and the calls
\* that come after it do.
THEOREM ApprovedCallsRun == Spec => []ApprovedRun
<1> DEFINE I == TypeInv /\ ApprovedInv
<1>1. Init => I
  BY TypeInvInit, ApprovedInit
<1>2. I /\ [Next]_vars => I'
  BY TypeInvStep, ApprovedStep
<1>3. I => ApprovedRun
  BY DEF ApprovedInv
<1> QED
  BY <1>1, <1>2, <1>3, PTL DEF Spec

-----------------------------------------------------------------------------
(* The calls the worker takes are all the stream has announced.             *)

\* No call is in two slots in the same form.
OneRecordEach(s) == \A i, j \in DOMAIN s : s[i].id # NoId /\ s[i] = s[j] => i = j

\* Retaining drops no slot that has an id.
LEMMA RetainedAll ==
  ASSUME NEW s \in Seq(Call), NEW r \in Retained(s)
  PROVE  /\ CallIds(s) \ {NoId} \subseteq CallIds(r)
         /\ OneRecordEach(s) => OneRecordEach(r)
<1> DEFINE slots == {i \in DOMAIN s : s[i].id # NoId}
           n == Cardinality(slots)
<1>1. IsFiniteSet(slots) /\ n \in Nat
  <2>1. IsFiniteSet(DOMAIN s)
    BY LenProperties, FS_Interval
  <2> QED
    BY <2>1, FS_Subset, FS_CardinalityType
<1>2. PICK f \in [1 .. n -> slots] :
        /\ \A i, j \in DOMAIN f : i < j => f[i] < f[j]
        /\ r = [k \in DOMAIN f |-> s[f[k]]]
  BY DEF Retained
<1>3. DOMAIN r = 1 .. n /\ \A k \in 1 .. n : f[k] \in slots /\ r[k] = s[f[k]]
  BY <1>2
<1>4. \A k, l \in 1 .. n : f[k] = f[l] => k = l
  <2> SUFFICES ASSUME NEW k \in 1 .. n, NEW l \in 1 .. n, f[k] = f[l], k # l PROVE FALSE
    OBVIOUS
  <2>1. f[k] \in Nat /\ f[l] \in Nat
    BY <1>3, LenProperties
  <2>2. k < l \/ l < k
    BY <1>1
  <2> QED
    BY <1>2, <2>1, <2>2
<1>5. \A i \in slots : \E k \in 1 .. n : f[k] = i
  <2>1. f \in Injection(1 .. n, slots)
    BY <1>2, <1>4 DEF Injection, IsInjective
  <2>2. Cardinality(1 .. n) = n
    BY <1>1, FS_Interval
  <2>3. f \in Surjection(1 .. n, slots)
    BY <1>1, <2>1, <2>2, FS_Injection
  <2> QED
    BY <2>3 DEF Surjection
<1>6. CallIds(s) \ {NoId} \subseteq CallIds(r)
  BY <1>3, <1>5 DEF CallIds
<1>7. OneRecordEach(s) => OneRecordEach(r)
  BY <1>3, <1>4 DEF OneRecordEach
<1> QED
  BY <1>6, <1>7

CallsCollected ==
  worker = "reading" =>
    /\ style # "both" =>
         Elements(announced) \subseteq CallIds(calls) \cup {current.id} \cup crossed
    /\ style = "delta" => Len(calls) <= Len(announced)
    /\ style = "both" =>
         /\ OneRecordEach(calls)
         /\ current.id # NoId => ~current.args /\ current \notin Elements(calls)

LEMMA AnnouncedFacts ==
  ASSUME TypeInv
  PROVE  /\ calls \in Seq(Call) /\ Len(calls) \in Nat /\ DOMAIN calls = 1 .. Len(calls)
         /\ announced \in Seq(Ids) /\ Len(announced) \in Nat /\ Elements(announced) \subseteq Ids
         /\ current \in Call
         /\ \A c \in Ids : /\ Elements(Append(announced, c)) = Elements(announced) \cup {c}
                           /\ Len(Append(announced, c)) = Len(announced) + 1
<1>1. /\ calls \in Seq(Call) /\ announced \in Seq(Ids) /\ current \in Call
  BY DEF TypeInv, TypeOK, WorkerType
<1>2. \A c \in Ids : /\ Elements(Append(announced, c)) = Elements(announced) \cup {c}
                     /\ Len(Append(announced, c)) = Len(announced) + 1
  BY <1>1, AppendProperties, LenProperties DEF Elements
<1> QED
  BY <1>1, <1>2, LenProperties, ElementOfSeq DEF Elements

\* With one way to announce calls, what is announced is collected.
LEMMA CollectOneWay ==
  ASSUME TypeInv, CallsCollected, StreamItem, style # "both"
  PROVE  /\ Elements(announced') \subseteq CallIds(calls') \cup {current'.id} \cup crossed'
         /\ style = "delta" => Len(calls') <= Len(announced')
<1>1. /\ worker = "reading"
      /\ Elements(announced) \subseteq CallIds(calls) \cup {current.id} \cup crossed
      /\ crossed \subseteq crossed'
      /\ style = "delta" => Len(calls) <= Len(announced)
  BY DEF StreamItem, Announce, CallArgs, CallEnd, BlockDelta, CallsCollected, readOnly, historyVars
<1>2. CASE \E c \in Ids : Announce(c)
  <2>1. PICK c \in Ids : Announce(c)
    BY <1>2
  <2>2. /\ Elements(announced') = Elements(announced) \cup {c}
        /\ Len(announced') = Len(announced) + 1
    BY <2>1, AnnouncedFacts DEF Announce
  <2>3. CASE style = "delta"
    <3> DEFINE index == Len(announced) + 1
               slots == [i \in 1 .. index |-> IF i <= Len(calls) THEN calls[i] ELSE NoCall]
    <3>1. Len(calls) < index /\ Len(calls) \in Nat /\ index \in Nat \ {0}
      BY <1>1, <2>3, AnnouncedFacts
    <3>2. calls' = [slots EXCEPT ![index] = [id |-> c, args |-> TRUE]] /\ current' = current
      BY <2>1, <2>3, <3>1 DEF Announce, CallDelta
    <3>3. /\ DOMAIN calls' = 1 .. index /\ calls'[index].id = c
          /\ \A i \in DOMAIN calls : i \in DOMAIN calls' /\ calls'[i] = calls[i]
      BY <3>1, <3>2, AnnouncedFacts
    <3>4. CallIds(calls) \cup {c} \subseteq CallIds(calls')
      BY <3>1, <3>3 DEF CallIds
    <3>5. Len(calls') = index
      <4>1. calls' \in Seq(Call)
        BY <2>1, <2>3, CallDeltaType, AnnouncedFacts DEF Announce, TypeInv
      <4>2. Len(calls') \in Nat /\ 1 .. Len(calls') = 1 .. index
        BY <3>3, <4>1, LenProperties
      <4> HIDE DEF index
      <4> QED
        BY <3>1, <4>2
    <3>6. Len(announced') = index /\ index \in Nat
      BY <2>2, <3>1
    <3>7. Elements(announced') \subseteq CallIds(calls') \cup {current'.id} \cup crossed'
      BY <1>1, <2>2, <3>2, <3>4
    <3> HIDE DEF index, slots
    <3> QED
      BY <3>5, <3>6, <3>7
  <2>4. CASE style # "delta"
    <3>1. /\ calls' = (IF current = NoCall THEN calls ELSE Append(calls, current))
          /\ current'.id = c
      BY <2>1, <2>4 DEF Announce, CallStart
    <3>2. CallIds(Append(calls, current)) = CallIds(calls) \cup {current.id}
      BY AnnouncedFacts, CallIdsAppend
    <3>3. Elements(announced) \subseteq CallIds(calls') \cup crossed
      BY <1>1, <3>1, <3>2, AnnouncedFacts, LoopAssumption DEF NoCall
    <3> QED
      BY <1>1, <2>2, <2>4, <3>1, <3>3
  <2> QED
    BY <2>3, <2>4
<1>3. CASE CallArgs
  <2>1. current'.id = current.id /\ UNCHANGED <<calls, announced>>
    BY <1>3, AnnouncedFacts DEF CallArgs, Call
  <2> QED
    BY <1>1, <2>1
<1>4. CASE \E c \in Ids : CallEnd(c)
  <2>1. /\ style # "delta" /\ UNCHANGED announced
        /\ \/ calls' = Append(calls, current)
           \/ calls' = calls /\ crossed' = crossed \cup {current.id}
    BY <1>4 DEF CallEnd
  <2>2. CallIds(Append(calls, current)) = CallIds(calls) \cup {current.id}
    BY AnnouncedFacts, CallIdsAppend
  <2> QED
    BY <1>1, <2>1, <2>2
<1>5. CASE BlockDelta
  BY <1>5 DEF BlockDelta
<1> QED
  BY <1>2, <1>3, <1>4, <1>5 DEF StreamItem

\* With two ways a call is collected at most once in each of its two forms.
LEMMA CollectTwice ==
  ASSUME TypeInv, RanInv, CallsCollected, StreamItem, style = "both"
  PROVE  /\ OneRecordEach(calls')
         /\ current'.id # NoId => ~current'.args /\ current' \notin Elements(calls')
<1>1. /\ worker = "reading" /\ OneRecordEach(calls)
      /\ current.id # NoId => ~current.args /\ current \notin Elements(calls)
      /\ CallIds(calls) \cup {current.id} \subseteq Elements(announced) \cup {NoId}
  BY DEF StreamItem, Announce, CallArgs, CallEnd, BlockDelta, CallsCollected, RanInv, CallsAnnounced
<1>2. CASE \E c \in Ids : Announce(c)
  <2>1. PICK c \in Ids : Announce(c)
    BY <1>2
  <2>2. /\ calls' \in {calls, Append(calls, current)} /\ current' = [id |-> c, args |-> FALSE]
    BY <2>1 DEF Announce, CallStart
  <2>3. c \notin CallIds(calls) \cup {current.id}
    BY <1>1, <2>1, LoopAssumption DEF Announce
  <2>4. /\ DOMAIN Append(calls, current) = 1 .. Len(calls) + 1
        /\ \A i \in 1 .. Len(calls) : Append(calls, current)[i] = calls[i]
        /\ Append(calls, current)[Len(calls) + 1] = current
    BY AnnouncedFacts, AppendProperties, LenProperties
  <2>5. OneRecordEach(Append(calls, current))
    BY <1>1, <2>4, AnnouncedFacts DEF OneRecordEach, Elements
  <2>6. CallIds(Append(calls, current)) = CallIds(calls) \cup {current.id}
    BY AnnouncedFacts, CallIdsAppend
  <2>7. c \notin CallIds(calls')
    BY <2>2, <2>3, <2>6
  <2>8. current' \notin Elements(calls')
    BY <2>2, <2>7 DEF Elements, CallIds
  <2> QED
    BY <1>1, <2>2, <2>5, <2>8
<1>3. CASE CallArgs \/ \E c \in Ids : CallEnd(c)
  BY <1>3 DEF CallArgs, CallEnd
<1>4. CASE BlockDelta
  <2> DEFINE index == TextBlocks + Len(announced)
             new == [id |-> current.id, args |-> TRUE]
  <2>1. /\ CallDelta(current.id, index) /\ new \notin Elements(calls)
    BY <1>4 DEF BlockDelta, Elements
  <2>2. index \in Nat /\ current.id \in Ids \cup {NoId}
    BY AnnouncedFacts, LoopAssumption DEF Call
  <2>3. /\ current' = current
        /\ \A i \in DOMAIN calls' :
             \/ i = index /\ calls'[i] = new
             \/ i # index /\ i \in DOMAIN calls /\ calls'[i] = calls[i]
             \/ i # index /\ calls'[i] = NoCall
    BY <2>1, <2>2, CallDeltaType DEF TypeInv
  <2> HIDE DEF index
  <2>4. OneRecordEach(calls')
    BY <1>1, <2>1, <2>3 DEF OneRecordEach, Elements, NoCall
  <2>5. ASSUME current.id # NoId PROVE current \notin Elements(calls')
    <3>1. current # new /\ current # NoCall
      BY <1>1, <2>5 DEF NoCall
    <3> QED
      BY <1>1, <2>3, <2>5, <3>1 DEF Elements
  <2> QED
    BY <1>1, <2>3, <2>4, <2>5
<1> QED
  BY <1>2, <1>3, <1>4 DEF StreamItem

-----------------------------------------------------------------------------
(* The loop: it consults the model on whole turns only.                     *)

\* The calls of a resume are those of the only message, resolved in order.
Resolved(p) ==
  /\ Len(answers) + Len(todo) = Len(p)
  /\ \A i \in DOMAIN answers : answers[i] = Answer(p[i])
  /\ \A i \in DOMAIN todo : todo[i] = p[Len(answers) + i]

ResumeShape ==
  (phase = "looping" /\ responses # {}) \/ phase = "resuming" =>
    /\ worker = "none"
    /\ \E p \in Pending \ {<<>>} : messages = Asks(p) /\ (phase = "resuming" => Resolved(p))

AllAnswered ==
  /\ Mentioned \subseteq Answered
  /\ messages # <<>> => messages[Len(messages)].kind = "answer"

ConsultsAnswered ==
  phase = "streaming" \/ (phase = "looping" /\ responses = {}) => AllAnswered

RoundsLeft == phase = "streaming" => round < MaxRounds

\* Between two rounds the calls of the last one are answered and reported, but for
\* those that were crossed.
AnnouncedKept ==
  style # "both" /\ phase = "looping" /\ worker = "ended" =>
    Elements(announced) \ crossed \subseteq Answered \cap reported

TurnInv == ResumeShape /\ ConsultsAnswered /\ RoundsLeft /\ AnnouncedKept

-----------------------------------------------------------------------------
(* The round: from the stream to the messages that the loop will read.      *)

\* What the consumer has been told, or will be.
Told == reported \cup Said("called")

\* The calls of a round are held until the loop has read of them.
Holding ==
  \/ worker \in {"asking", "paused", "executing", "reporting"}
  \/ Receiving /\ ToolsSignalled

RoundHeld ==
  Holding =>
    /\ calls # <<>> /\ CallIds(calls) \subseteq Elements(announced)
    /\ Elements(announced) \cap Mentioned = {}
    /\ style # "both" =>
         Elements(announced) \subseteq CallIds(calls) \cup crossed /\ Distinct(IdsOf(calls))
    /\ style = "both" => OneRecordEach(calls)
    /\ \A i \in DOMAIN calls : calls[i].id \in Ids

BoxFilled ==
  Receiving /\ (worker = "reporting" \/ ToolsSignalled) =>
    box = Asks(IdsOf(calls)) \o Answers(IdsOf(calls))

ReportedInOrder ==
  /\ Receiving /\ worker = "reporting" =>
       at <= Len(calls) + 1 /\ {calls[k].id : k \in 1 .. at - 1} \subseteq Told
  /\ Receiving /\ ToolsSignalled => CallIds(calls) \subseteq Told

RoundInv == CallsCollected /\ RoundHeld /\ BoxFilled /\ ReportedInOrder

\* What else the proofs below rest on.
BaseInv ==
  /\ TypeInv /\ ControlInv /\ RanInv /\ GateInv /\ OnceInv /\ FinishEnds /\ EndInv

LEMMA BaseInit == Init => BaseInv
  BY TypeInvInit, ControlInit, RanInit, GateInit, OnceInit, EndInit DEF BaseInv, Init, FinishEnds

LEMMA BaseStep == BaseInv /\ [Next]_vars => BaseInv'
  BY TypeInvStep, ControlStep, RanStep, GateStep, OnceStep, FinishEndsStep, EndStep DEF BaseInv

LEMMA TurnInit == Init => TurnInv /\ RoundInv
<1> SUFFICES ASSUME Init PROVE TurnInv /\ RoundInv
  OBVIOUS
<1>1. PICK p \in Pending : /\ messages = IF p = <<>> THEN <<>> ELSE Asks(p)
                           /\ responses \in SUBSET Elements(p)
                           /\ p # <<>> => responses # {}
  BY DEF Init
<1>2. responses # {} => p # <<>>
  BY <1>1 DEF Elements
<1>3. ResumeShape
  BY <1>1, <1>2 DEF Init, ResumeShape
<1>4. ConsultsAnswered
  BY <1>1, <1>2 DEF Init, ConsultsAnswered, AllAnswered, Mentioned, MentionedIn
<1>5. RoundInv
  BY DEF Init, RoundInv, CallsCollected, RoundHeld, BoxFilled, ReportedInOrder, Holding,
         Receiving, ToolsSignalled
<1> QED
  BY <1>3, <1>4, <1>5 DEF Init, TurnInv, RoundsLeft, AnnouncedKept

LEMMA AnsweredThere == Answered = AnsweredIn(messages) /\ Mentioned = MentionedIn(messages)
  BY DEF Answered, AnsweredIn, Mentioned

\* Messages that end in whole turns leave no call open.
LEMMA TurnAnswered ==
  ASSUME NEW ids \in Seq(Ids), ids # <<>>, NEW m \in Seq(Message),
         MentionedIn(m) \subseteq AnsweredIn(m)
  PROVE  LET n == m \o (Asks(ids) \o Answers(ids))
         IN  /\ n \in Seq(Message)
             /\ MentionedIn(n) \subseteq AnsweredIn(n) /\ Elements(ids) \subseteq AnsweredIn(n)
             /\ n # <<>> /\ n[Len(n)].kind = "answer"
<1> DEFINE b == Asks(ids) \o Answers(ids)
           n == m \o b
<1>1. Asks(ids) \in Seq(Message) /\ Answers(ids) \in Seq(Message)
  BY MessageTypes
<1>2. /\ MentionedIn(b) = Elements(ids) /\ AnsweredIn(b) = Elements(ids)
      /\ b # <<>> /\ b[Len(b)].kind = "answer" /\ b \in Seq(Message)
  <2>1. /\ MentionedIn(b) = MentionedIn(Asks(ids)) \cup MentionedIn(Answers(ids))
        /\ AnsweredIn(b) = AnsweredIn(Asks(ids)) \cup AnsweredIn(Answers(ids))
        /\ Answers(ids) # <<>> => b # <<>> /\ b[Len(b)] = Answers(ids)[Len(Answers(ids))]
    BY <1>1, ConcatCalls
  <2>2. b \in Seq(Message)
    BY <1>1, ConcatProperties
  <2> HIDE DEF b
  <2> QED
    BY <2>1, <2>2, TurnCalls
<1> HIDE DEF b
<1>3. /\ MentionedIn(n) = MentionedIn(m) \cup MentionedIn(b)
      /\ AnsweredIn(n) = AnsweredIn(m) \cup AnsweredIn(b)
      /\ n # <<>> /\ n[Len(n)] = b[Len(b)] /\ n \in Seq(Message)
  BY <1>2, ConcatCalls, ConcatProperties
<1> QED
  BY <1>2, <1>3 DEF b

\* A conversation that has one message with calls, and their answers.
LEMMA ResumeAnswered ==
  ASSUME NEW p \in Seq(Ids), p # <<>>
  PROVE  LET n == Asks(p) \o Answers(p)
         IN  MentionedIn(n) \subseteq AnsweredIn(n) /\ n # <<>> /\ n[Len(n)].kind = "answer"
<1>1. Asks(p) \in Seq(Message) /\ Answers(p) \in Seq(Message)
  BY MessageTypes
<1> QED
  BY <1>1, ConcatCalls, TurnCalls

\* Where a round begins, or ends without one, nothing is held.
LEMMA NothingHeld ==
  ASSUME worker' \in {"none", "ended", "reading"}, Receiving' => ~ToolsSignalled',
         worker' = "reading" => CallsCollected'
  PROVE  RoundInv'
  BY DEF RoundInv, CallsCollected, RoundHeld, BoxFilled, ReportedInOrder, Holding

\* The finish of the tools is received last: the worker has returned by then.
LEMMA ToolsFinish ==
  ASSUME BaseInv, TurnInv, RoundInv, PollToolCalls
  PROVE  /\ worker = "ended" /\ ToolsSignalled /\ Receiving /\ Holding
         /\ Said("called") = {}
         /\ calls # <<>> /\ \A i \in DOMAIN calls : calls[i].id \in Ids
         /\ CallIds(calls) \subseteq Elements(announced)
         /\ Elements(announced) \cap Mentioned = {}
         /\ style # "both" =>
              Elements(announced) \subseteq CallIds(calls) \cup crossed /\ Distinct(IdsOf(calls))
         /\ style = "both" => OneRecordEach(calls)
         /\ box = Asks(IdsOf(calls)) \o Answers(IdsOf(calls))
         /\ CallIds(calls) \subseteq reported
<1>1. Receiving /\ tx # <<>> /\ Head(tx) = Finish("tools")
  BY DEF PollToolCalls, Finish
<1>2. /\ tx \in Seq(Update) /\ Len(tx) \in Nat /\ DOMAIN tx = 1 .. Len(tx)
      /\ Head(tx) = tx[1] /\ 1 \in DOMAIN tx
  BY <1>1, ChannelFacts, HeadTailProperties, LenProperties, EmptySeq DEF BaseInv
<1>3. tx[1].kind = "finish" /\ worker = "ended" /\ Len(tx) = 1 /\ ToolsSignalled
  BY <1>1, <1>2 DEF BaseInv, ControlInv, FinishIsLast, FinishEnds, Finish, ToolsSignalled
<1>4. Said("called") = {}
  BY <1>2, <1>3 DEF Said
<1>5. Holding
  BY <1>1, <1>3 DEF Holding
<1>6. CallIds(calls) \subseteq reported
  BY <1>1, <1>3, <1>4 DEF RoundInv, ReportedInOrder, Told
<1> QED
  BY <1>1, <1>3, <1>4, <1>5, <1>6 DEF RoundInv, RoundHeld, BoxFilled

\* The calls of a round as the loop reads them.
LEMMA CallsRead ==
  ASSUME TypeInv, calls # <<>>, \A i \in DOMAIN calls : calls[i].id \in Ids
  PROVE  /\ IdsOf(calls) \in Seq(Ids) /\ IdsOf(calls) # <<>>
         /\ Elements(IdsOf(calls)) = CallIds(calls)
<1>1. calls \in Seq(Call) /\ Len(calls) \in Nat /\ DOMAIN calls = 1 .. Len(calls)
  BY AnnouncedFacts
<1>2. 1 \in DOMAIN calls
  BY <1>1, EmptySeq
<1>3. DOMAIN IdsOf(calls) = DOMAIN calls
  BY DEF IdsOf
<1>4. IdsOf(calls) # <<>>
  BY <1>2, <1>3
<1> QED
  BY <1>1, <1>4, IdsOfType DEF CallIds

LEMMA PollToolCallsTurn ==
  ASSUME BaseInv, TurnInv, RoundInv, PollToolCalls
  PROVE  TurnInv' /\ RoundInv'
<1>1. /\ phase = "streaming" /\ phase' = "looping" /\ messages' = messages \o box
      /\ tx' = <<>> /\ UNCHANGED <<responses, worker, announced, style, reported, crossed>>
  BY DEF PollToolCalls, Receiving, workerVars, callerVars, historyVars
<1>2. /\ worker = "ended" /\ calls # <<>> /\ (\A i \in DOMAIN calls : calls[i].id \in Ids)
      /\ style # "both" => Elements(announced) \subseteq CallIds(calls) \cup crossed
      /\ box = Asks(IdsOf(calls)) \o Answers(IdsOf(calls))
      /\ CallIds(calls) \subseteq reported
  BY ToolsFinish
<1>3. responses = {}
  BY <1>1 DEF BaseInv, OnceInv, ResumeFirst
<1>4. /\ messages \in Seq(Message) /\ MentionedIn(messages) \subseteq AnsweredIn(messages)
  BY <1>1, AnsweredThere DEF TurnInv, ConsultsAnswered, AllAnswered, BaseInv, TypeInv, TypeOK, LoopType
<1>5. /\ IdsOf(calls) \in Seq(Ids) /\ IdsOf(calls) # <<>>
      /\ Elements(IdsOf(calls)) = CallIds(calls)
  BY <1>2, CallsRead DEF BaseInv
<1>6. /\ MentionedIn(messages') \subseteq AnsweredIn(messages')
      /\ CallIds(calls) \subseteq AnsweredIn(messages')
      /\ messages' # <<>> /\ messages'[Len(messages')].kind = "answer"
  BY <1>1, <1>2, <1>4, <1>5, TurnAnswered
<1>7. Mentioned' = MentionedIn(messages') /\ Answered' = AnsweredIn(messages')
  BY DEF Mentioned, Answered, AnsweredIn
<1>8. TurnInv'
  BY <1>1, <1>2, <1>3, <1>6, <1>7
  DEF TurnInv, ResumeShape, ConsultsAnswered, AllAnswered, RoundsLeft, AnnouncedKept
<1>9. RoundInv'
  BY <1>1, <1>2, NothingHeld DEF Receiving
<1> QED
  BY <1>8, <1>9

LEMMA ResumeTurn ==
  ASSUME BaseInv, TurnInv, BeginResume \/ ResumeCall \/ ResumeDone
  PROVE  TurnInv' /\ RoundInv'
<1>1. /\ worker = "none" /\ UNCHANGED worker
      /\ phase \in {"looping", "resuming"} /\ phase' \in {"looping", "resuming"}
  BY DEF BeginResume, ResumeCall, ResumeDone, AtTop, TurnInv, ResumeShape, workerVars
<1>2. PICK p \in Pending \ {<<>>} : messages = Asks(p) /\ (phase = "resuming" => Resolved(p))
  BY DEF BeginResume, ResumeCall, ResumeDone, AtTop, TurnInv, ResumeShape
<1>3. p \in Seq(Ids) /\ p # <<>> /\ Len(p) \in Nat /\ DOMAIN p = 1 .. Len(p)
  BY <1>2, LoopAssumption, LenProperties
<1>4. RoundInv'
  BY <1>1, NothingHeld DEF Receiving
<1>5. /\ answers \in Seq(Message) /\ Len(answers) \in Nat /\ DOMAIN answers = 1 .. Len(answers)
      /\ todo \in Seq(Ids) /\ Len(todo) \in Nat /\ DOMAIN todo = 1 .. Len(todo)
  BY LenProperties DEF BaseInv, TypeInv, TypeOK, LoopType
<1>6. CASE BeginResume
  <2>1. /\ DOMAIN messages = {1} /\ messages[1].ids = p
        /\ phase' = "resuming" /\ UNCHANGED messages /\ answers' = <<>>
    BY <1>2, <1>6 DEF BeginResume, Asks
  <2>2. todo' = p
    BY <1>6, <2>1 DEF BeginResume
  <2>3. Resolved(p)'
    BY <1>3, <2>1, <2>2, EmptySeq DEF Resolved
  <2> QED
    BY <1>1, <1>2, <1>4, <2>1, <2>3
    DEF TurnInv, ResumeShape, ConsultsAnswered, RoundsLeft, AnnouncedKept
<1>7. CASE ResumeCall
  <2>1. /\ phase = "resuming" /\ todo # <<>> /\ UNCHANGED <<phase, messages>>
        /\ answers' = Append(answers, Answer(Head(todo))) /\ todo' = Tail(todo)
    BY <1>7 DEF ResumeCall
  <2>2. /\ Head(todo) = todo[1] /\ Len(todo) # 0
        /\ Len(todo') = Len(todo) - 1 /\ DOMAIN todo' = 1 .. Len(todo) - 1
        /\ \A i \in DOMAIN todo' : i + 1 \in DOMAIN todo /\ todo'[i] = todo[i + 1]
    BY <1>5, <2>1, HeadTailProperties, LenProperties, EmptySeq
  <2>3. /\ Len(answers') = Len(answers) + 1 /\ DOMAIN answers' = 1 .. Len(answers) + 1
        /\ \A i \in DOMAIN answers : answers'[i] = answers[i]
        /\ answers'[Len(answers) + 1] = Answer(todo[1])
    <3>1. todo[1] \in Ids /\ Answer(todo[1]) \in Message
      BY <1>5, <2>2, MessageTypes
    <3> QED
      BY <1>5, <2>1, <2>2, <3>1, AppendProperties, LenProperties
  <2>4. Resolved(p)
    BY <1>2, <2>1
  <2>5. todo[1] = p[Len(answers) + 1]
    BY <1>5, <2>2, <2>4 DEF Resolved
  <2>6. \A i \in DOMAIN answers' : answers'[i] = Answer(p[i])
    <3>1. \A i \in DOMAIN answers' : i \in DOMAIN answers \/ i = Len(answers) + 1
      BY <1>5, <2>3
    <3> QED
      BY <2>3, <2>4, <2>5, <3>1 DEF Resolved
  <2>7. \A i \in DOMAIN todo' : todo'[i] = p[Len(answers') + i]
    <3> TAKE i \in DOMAIN todo'
    <3>1. todo'[i] = p[Len(answers) + (i + 1)] /\ i \in Nat
      BY <2>2, <2>4 DEF Resolved
    <3>2. Len(answers) + (i + 1) = Len(answers') + i
      BY <1>5, <2>3, <3>1
    <3> QED
      BY <3>1, <3>2
  <2>8. Resolved(p)'
    <3>1. Len(answers) + Len(todo) = Len(p)
      BY <2>4 DEF Resolved
    <3>2. Len(answers') + Len(todo') = Len(p)
      <4>1. Len(answers) \in Nat /\ Len(todo) \in Nat /\ Len(p) \in Nat
        BY <1>3, <1>5
      <4>2. Len(answers') = Len(answers) + 1 /\ Len(todo') = Len(todo) - 1
        BY <2>2, <2>3
      <4> QED
        BY <3>1, <4>1, <4>2
    <3> QED
      BY <2>6, <2>7, <3>2 DEF Resolved
  <2> QED
    BY <1>1, <1>2, <1>4, <2>1, <2>8
    DEF TurnInv, ResumeShape, ConsultsAnswered, RoundsLeft, AnnouncedKept
<1>8. CASE ResumeDone
  <2>1. /\ phase = "resuming" /\ todo = <<>> /\ phase' = "looping" /\ responses' = {}
        /\ messages' = messages \o answers
    BY <1>8 DEF ResumeDone
  <2>2. answers = Answers(p)
    <3>1. Len(answers) = Len(p) /\ \A i \in DOMAIN answers : answers[i] = Answer(p[i])
      BY <1>2, <1>3, <1>5, <2>1, EmptySeq DEF Resolved
    <3>2. answers = [i \in DOMAIN p |-> Answer(p[i])]
      BY <1>3, <1>5, <3>1
    <3> QED
      BY <3>2 DEF Answers
  <2>3. /\ MentionedIn(messages') \subseteq AnsweredIn(messages')
        /\ messages' # <<>> /\ messages'[Len(messages')].kind = "answer"
    BY <1>2, <1>3, <2>1, <2>2, ResumeAnswered
  <2>4. Mentioned' = MentionedIn(messages') /\ Answered' = AnsweredIn(messages')
    BY DEF Mentioned, Answered, AnsweredIn
  <2> QED
    BY <1>1, <1>4, <2>1, <2>3, <2>4
    DEF TurnInv, ResumeShape, ConsultsAnswered, AllAnswered, RoundsLeft, AnnouncedKept
<1> QED
  BY <1>6, <1>7, <1>8

LEMMA LoopTurn ==
  ASSUME BaseInv, TurnInv, RoundInv, LoopStep
  PROVE  TurnInv' /\ RoundInv'
<1>1. CASE StopCancelled \/ StopAtLimit \/ ConsultFails
  <2>1. /\ phase = "looping" /\ phase' = "over" /\ UNCHANGED <<worker, open>>
    BY <1>1 DEF StopCancelled, StopAtLimit, ConsultFails, Consult, AtTop, Stop, workerVars, callerVars
  <2>2. worker \in {"none", "ended"}
    BY <2>1 DEF BaseInv, ControlInv, RoundOwnsWorker
  <2>3. RoundInv'
    BY <2>1, <2>2, NothingHeld DEF Receiving
  <2> QED
    BY <2>1, <2>3 DEF TurnInv, ResumeShape, ConsultsAnswered, RoundsLeft, AnnouncedKept
<1>2. CASE StartRound
  <2>1. /\ phase = "looping" /\ responses = {} /\ round < MaxRounds
        /\ phase' = "streaming" /\ worker' = "reading" /\ announced' = <<>> /\ calls' = <<>>
        /\ current' = NoCall /\ tx' = <<>> /\ UNCHANGED <<messages, round>>
    BY <1>2 DEF StartRound, Consult, AtTop
  <2>2. CallsCollected'
    BY <2>1, EmptySeq DEF CallsCollected, Elements, OneRecordEach, NoCall
  <2>3. RoundInv'
    BY <2>1, <2>2, NothingHeld DEF ToolsSignalled
  <2>4. UNCHANGED <<Mentioned, Answered>>
    BY <2>1 DEF Mentioned, Answered
  <2> QED
    BY <2>1, <2>3, <2>4
    DEF TurnInv, ResumeShape, ConsultsAnswered, AllAnswered, RoundsLeft, AnnouncedKept
<1>3. CASE PollUpdate
  <2>1. /\ Receiving /\ tx # <<>> /\ tx' = Tail(tx) /\ phase = "streaming"
        /\ phase' \in {"streaming", "over"} /\ Receiving' = (phase' = "streaming")
        /\ reported' = (IF Head(tx).kind = "called" THEN reported \cup {Head(tx).of} ELSE reported)
        /\ UNCHANGED <<round, messages, style, open, worker, announced, current, calls, at, box,
                      crossed>>
    BY <1>3 DEF PollUpdate, Received, Receiving, workerVars, callerVars
  <2>2. UNCHANGED <<Mentioned, Answered>>
    BY <2>1 DEF Mentioned, Answered
  <2>3. TurnInv'
    BY <2>1, <2>2
    DEF TurnInv, ResumeShape, ConsultsAnswered, AllAnswered, RoundsLeft, AnnouncedKept
  <2>4. Told' = Told
    <3>1. Said("called") = Said("called")' \cup (IF Head(tx).kind = "called" THEN {Head(tx).of} ELSE {})
      BY <2>1, ReceiveSaid DEF BaseInv
    <3> QED
      BY <2>1, <3>1 DEF Told
  <2>5. ToolsSignalled' => ToolsSignalled
    BY <2>1, ReceiveShape DEF ToolsSignalled, BaseInv
  <2>6. RoundInv'
    <3>1. CallsCollected'
      BY <2>1 DEF RoundInv, CallsCollected
    <3>2. (Holding' => Holding) /\ (Receiving' => Receiving)
      BY <2>1, <2>5 DEF Holding
    <3>3. RoundHeld'
      BY <2>1, <2>2, <3>2 DEF RoundInv, RoundHeld
    <3>4. BoxFilled'
      BY <2>1, <2>5, <3>2 DEF RoundInv, BoxFilled
    <3>5. ReportedInOrder'
      BY <2>1, <2>4, <2>5, <3>2 DEF RoundInv, ReportedInOrder
    <3> QED
      BY <3>1, <3>3, <3>4, <3>5 DEF RoundInv
  <2> QED
    BY <2>3, <2>6
<1>4. CASE PollEnd
  <2>1. phase' = "over" /\ worker = "ended" /\ UNCHANGED worker
    BY <1>4 DEF PollEnd, workerVars
  <2>2. RoundInv'
    BY <2>1, NothingHeld DEF Receiving
  <2> QED
    BY <2>1, <2>2 DEF TurnInv, ResumeShape, ConsultsAnswered, RoundsLeft, AnnouncedKept
<1> QED
  BY <1>1, <1>2, <1>3, <1>4, PollToolCallsTurn, ResumeTurn DEF LoopStep

\* The worker keeps what the loop knows.
LEMMA WorkerTurn ==
  ASSUME BaseInv, TurnInv, WorkerStep
  PROVE  /\ TurnInv' /\ UNCHANGED <<Mentioned, Receiving>>
         /\ phase = "streaming" /\ ~ToolsSignalled
<1>1. /\ phase = "streaming" /\ UNCHANGED <<phase, round, messages, responses, open, reported, style>>
      /\ \A i \in DOMAIN tx : tx[i].kind # "finish"
  BY WorkerStepShape, BusyWorker DEF BaseInv, loopVars, callerVars
<1>2. UNCHANGED <<Mentioned, Answered, Receiving>>
  BY <1>1 DEF Mentioned, Answered, Receiving
<1>3. ~ToolsSignalled
  BY <1>1 DEF ToolsSignalled, Finish
<1> QED
  BY <1>1, <1>2, <1>3
  DEF TurnInv, ResumeShape, ConsultsAnswered, AllAnswered, RoundsLeft, AnnouncedKept

\* A send signals the finish of the tools only if it is that finish.
LEMMA SignalSent ==
  ASSUME BaseInv, TurnInv, WorkerStep, NEW u \in Update, NEW after, Send(u, after),
         u # Finish("tools")
  PROVE  ~ToolsSignalled'
<1>1. ~ToolsSignalled
  BY WorkerTurn
<1>2. \/ /\ DOMAIN tx' = 1 .. Len(tx) + 1 /\ DOMAIN tx = 1 .. Len(tx) /\ Len(tx) \in Nat
         /\ (\A i \in DOMAIN tx : tx'[i] = tx[i]) /\ tx'[Len(tx) + 1] = u
      \/ UNCHANGED tx
  BY SendShape, ChannelFacts DEF BaseInv
<1>3. CASE UNCHANGED tx
  BY <1>1, <1>3 DEF ToolsSignalled
<1>4. CASE /\ DOMAIN tx' = 1 .. Len(tx) + 1 /\ DOMAIN tx = 1 .. Len(tx) /\ Len(tx) \in Nat
           /\ (\A i \in DOMAIN tx : tx'[i] = tx[i]) /\ tx'[Len(tx) + 1] = u
  <2>1. \A i \in DOMAIN tx' : i \in DOMAIN tx \/ i = Len(tx) + 1
    BY <1>4
  <2> QED
    BY <1>1, <1>4, <2>1 DEF ToolsSignalled
<1> QED
  BY <1>2, <1>3, <1>4

\* The calls taken from the stream are all it has announced.
LEMMA TakeHeld ==
  ASSUME BaseInv, TurnInv, RoundInv, WorkerStep, AskApproval \/ RunTools
  PROVE  RoundHeld'
<1>1. /\ worker = "reading" /\ calls' \in Retained(Taken) \ {<<>>}
      /\ UNCHANGED <<announced, style, crossed>> /\ Mentioned' = Mentioned
  BY WorkerTurn DEF AskApproval, RunTools, callerVars, historyVars
<1>2. /\ CallIds(calls') \subseteq Elements(announced)
      /\ Elements(announced) \cap Mentioned = {}
      /\ Elements(announced) \subseteq Ids
  BY <1>1, TakenAnnounced, AnnouncedFacts DEF BaseInv, RanInv, CallsAnnounced
<1>3. Taken \in Seq(Call) /\ calls \in Seq(Call) /\ current \in Call
  BY TakenType, AnnouncedFacts DEF BaseInv, TypeInv
<1>4. /\ \A i \in DOMAIN calls' : calls'[i].id \in Ids
      /\ OneEach(Taken) => Distinct(IdsOf(calls'))
      /\ CallIds(Taken) \ {NoId} \subseteq CallIds(calls')
      /\ OneRecordEach(Taken) => OneRecordEach(calls')
  BY <1>1, <1>3, RetainedSlots, RetainedAll
<1>5. CallIds(calls) \cup ({current.id} \ {NoId}) \subseteq CallIds(Taken)
  BY <1>3, CallIdsAppend DEF Taken, NoCall
<1>6. ASSUME style # "both"
      PROVE  Elements(announced) \subseteq CallIds(calls') \cup crossed /\ Distinct(IdsOf(calls'))
  <2>1. Elements(announced) \subseteq CallIds(calls') \cup crossed
    BY <1>1, <1>2, <1>4, <1>5, <1>6, LoopAssumption DEF RoundInv, CallsCollected
  <2>2. OneEach(calls) /\ (current.id # NoId => current.id \notin CallIds(calls))
    BY <1>1, <1>6 DEF BaseInv, OnceInv, CollectedOnce
  <2>3. OneEach(Taken)
    BY <1>3, <2>2, OneEachAppend DEF Taken
  <2> QED
    BY <1>4, <2>1, <2>3
<1>7. ASSUME style = "both" PROVE OneRecordEach(calls')
  <2>1. /\ OneRecordEach(calls)
        /\ current.id # NoId => current \notin Elements(calls)
    BY <1>1, <1>7 DEF RoundInv, CallsCollected
  <2>2. /\ DOMAIN Append(calls, current) = 1 .. Len(calls) + 1
        /\ DOMAIN calls = 1 .. Len(calls) /\ Len(calls) \in Nat
        /\ \A i \in 1 .. Len(calls) : Append(calls, current)[i] = calls[i]
        /\ Append(calls, current)[Len(calls) + 1] = current
    BY <1>3, AppendProperties, LenProperties
  <2>3. OneRecordEach(Append(calls, current))
    BY <2>1, <2>2 DEF OneRecordEach, Elements
  <2> QED
    BY <1>4, <2>1, <2>3 DEF Taken
<1> QED
  BY <1>1, <1>2, <1>4, <1>6, <1>7 DEF RoundHeld

LEMMA RoundWorker ==
  ASSUME BaseInv, TurnInv, RoundInv, WorkerStep
  PROVE  RoundInv'
<1>1. /\ UNCHANGED <<Mentioned, Receiving, style, open, phase, reported>>
      /\ phase = "streaming" /\ ~ToolsSignalled
      /\ worker = "reading" \/ UNCHANGED crossed
  <2>1. StreamItem => worker = "reading"
    BY DEF StreamItem, Announce, CallArgs, CallEnd, BlockDelta
  <2> QED
    BY <2>1, WorkerTurn, WorkerStepShape DEF loopVars, callerVars
<1>2. CASE StreamItem
  <2>1. PICK u \in Update : Send(u, "reading") /\ u # Finish("tools")
    <3>1. ASSUME NEW c \in Ids, Announce(c)
          PROVE  [kind |-> "start", of |-> c] \in Update /\ [kind |-> "start", of |-> c] # Finish("tools")
      BY UpdateTypes DEF Finish
    <3>2. Chunk \in Update /\ Chunk # Finish("tools")
      BY UpdateTypes DEF Finish, Chunk
    <3> QED
      BY <1>2, <3>1, <3>2 DEF StreamItem, CallArgs, CallEnd, BlockDelta, Announce
  <2>2. ~ToolsSignalled' /\ worker' \in {"reading", "ended"}
    BY <2>1, SignalSent DEF Send
  <2>3. CallsCollected'
    BY <1>1, <1>2, CollectOneWay, CollectTwice DEF CallsCollected, RoundInv, BaseInv
  <2> QED
    BY <2>2, <2>3, NothingHeld
<1>3. CASE StreamFails \/ FinishStop
  <2>1. PICK r \in {"error", "stop"} : Send(Finish(r), "ended")
    BY <1>3 DEF StreamFails, FinishStop
  <2>2. ~ToolsSignalled' /\ worker' = "ended"
    BY <2>1, SignalSent, FinishTypes DEF Send, Finish, Reasons
  <2> QED
    BY <2>2, NothingHeld
<1>4. CASE AskApproval \/ RunTools
  <2>1. worker' \in {"asking", "executing"} /\ UNCHANGED tx
    BY <1>4 DEF AskApproval, RunTools, channelVars
  <2>2. ~ToolsSignalled'
    BY <1>1, <2>1 DEF ToolsSignalled
  <2> QED
    BY <1>4, <2>1, <2>2, TakeHeld DEF RoundInv, CallsCollected, BoxFilled, ReportedInOrder
<1>5. CASE RequestApproval \/ HandOver
  <2>1. /\ worker = "asking" /\ worker' \in {"asking", "paused", "ended"}
        /\ UNCHANGED <<announced, calls>>
    BY <1>5 DEF RequestApproval, HandOver, Send
  <2>2. ~ToolsSignalled'
    <3>1. CASE HandOver
      BY <1>1, <3>1 DEF HandOver, ToolsSignalled
    <3>2. CASE RequestApproval
      <4>1. [kind |-> "request", of |-> calls[at].id] \in Update
        BY <3>2, NextCall, UpdateTypes DEF RequestApproval, BaseInv
      <4> QED
        BY <3>2, <4>1, SignalSent DEF RequestApproval, Finish
    <3> QED
      BY <1>5, <3>1, <3>2
  <2>3. RoundHeld'
    BY <1>1, <2>1 DEF RoundInv, RoundHeld, Holding
  <2> QED
    BY <2>1, <2>2, <2>3 DEF RoundInv, CallsCollected, BoxFilled, ReportedInOrder
<1>6. CASE Pause
  <2>1. ~ToolsSignalled' /\ worker' = "ended"
    BY <1>6, SignalSent, FinishTypes DEF Pause, Send, Finish, Reasons
  <2> QED
    BY <2>1, NothingHeld
<1>7. CASE (\E i \in DOMAIN calls : ToolReturns(i)) \/ ToolPanics
  <2>1. /\ worker = "executing" /\ worker' \in {"executing", "ended"}
        /\ UNCHANGED <<announced, calls, tx>>
    BY <1>7 DEF ToolReturns, ToolPanics, channelVars
  <2>2. ~ToolsSignalled'
    BY <1>1, <2>1 DEF ToolsSignalled
  <2>3. RoundHeld'
    BY <1>1, <2>1 DEF RoundInv, RoundHeld, Holding
  <2> QED
    BY <2>1, <2>2, <2>3 DEF RoundInv, CallsCollected, BoxFilled, ReportedInOrder
<1>8. CASE ToolsDone
  <2>1. /\ worker = "executing" /\ worker' = "reporting" /\ UNCHANGED <<announced, calls, tx, at>>
        /\ box' = IF Receiving THEN Asks(IdsOf(calls)) \o Answers(IdsOf(calls)) ELSE box
    BY <1>8 DEF ToolsDone
  <2>2. ~ToolsSignalled'
    BY <1>1, <2>1 DEF ToolsSignalled
  <2>3. RoundHeld'
    BY <1>1, <2>1 DEF RoundInv, RoundHeld, Holding
  <2>4. BoxFilled'
    BY <1>1, <2>1 DEF BoxFilled
  <2>5. at = 1 /\ Len(calls) \in Nat
    BY <2>1, AnnouncedFacts DEF BaseInv, EndInv, AskedInOrder
  <2>6. ReportedInOrder'
    BY <2>1, <2>2, <2>5 DEF ReportedInOrder
  <2> QED
    BY <2>1, <2>3, <2>4, <2>6 DEF RoundInv, CallsCollected
<1>9. CASE ReportResult
  <2> DEFINE u == [kind |-> "called", of |-> calls[at].id]
  <2>1. /\ worker = "reporting" /\ at <= Len(calls) /\ worker' \in {"reporting", "ended"}
        /\ at' = at + 1 /\ Send(u, "reporting") /\ UNCHANGED <<announced, calls, box>>
        /\ at \in Nat \ {0} /\ Len(calls) \in Nat
    BY <1>9, WorkerFacts DEF ReportResult, Send, BaseInv
  <2>2. u \in Update /\ u # Finish("tools")
    BY <2>1, NextCall, UpdateTypes DEF Finish, BaseInv
  <2>3. ~ToolsSignalled'
    BY <2>1, <2>2, SignalSent
  <2>4. RoundHeld'
    BY <1>1, <2>1, <2>3 DEF RoundInv, RoundHeld, Holding
  <2>5. BoxFilled'
    BY <1>1, <2>1, <2>3 DEF RoundInv, BoxFilled
  <2>6. ASSUME Receiving PROVE Told' = Told \cup {calls[at].id}
    <3>1. Said("called")' = Said("called") \cup {calls[at].id}
      BY <2>1, <2>2, <2>6, SendSaid DEF BaseInv
    <3> QED
      BY <1>1, <3>1 DEF Told
  <2>7. ReportedInOrder'
    <3> SUFFICES ASSUME Receiving'
                 PROVE  at' <= Len(calls) + 1 /\ {calls[k].id : k \in 1 .. at' - 1} \subseteq Told'
      BY <2>1, <2>3 DEF ReportedInOrder
    <3>1. {calls[k].id : k \in 1 .. at - 1} \subseteq Told
      BY <1>1, <2>1 DEF RoundInv, ReportedInOrder
    <3>2. \A k \in 1 .. at' - 1 : k \in 1 .. at - 1 \/ k = at
      BY <2>1
    <3>3. {calls[k].id : k \in 1 .. at' - 1} \subseteq Told'
      BY <1>1, <2>6, <3>1, <3>2
    <3> QED
      BY <2>1, <3>3
  <2> QED
    BY <2>1, <2>4, <2>5, <2>7 DEF RoundInv, CallsCollected
<1>10. CASE FinishTools
  <2>1. /\ worker = "reporting" /\ at > Len(calls) /\ worker' = "ended"
        /\ Send(Finish("tools"), "ended") /\ UNCHANGED <<announced, calls, box>>
        /\ at \in Nat \ {0} /\ Len(calls) \in Nat /\ DOMAIN calls = 1 .. Len(calls)
    BY <1>10, WorkerFacts DEF FinishTools, Send, BaseInv
  <2>2. RoundHeld'
    BY <1>1, <2>1 DEF RoundInv, RoundHeld, Holding
  <2>3. BoxFilled'
    BY <1>1, <2>1 DEF RoundInv, BoxFilled
  <2>4. ASSUME Receiving PROVE CallIds(calls) \subseteq Told'
    <3>1. at <= Len(calls) + 1 /\ {calls[k].id : k \in 1 .. at - 1} \subseteq Told
      BY <2>1, <2>4 DEF RoundInv, ReportedInOrder
    <3>2. at - 1 = Len(calls)
      BY <2>1, <3>1
    <3>3. Finish("tools") \in Update /\ Finish("tools").kind # "called"
      BY FinishTypes DEF Reasons
    <3>4. Said("called")' = Said("called")
      BY <2>1, <2>4, <3>3, SendSaid DEF BaseInv
    <3> QED
      BY <1>1, <2>1, <3>1, <3>2, <3>4 DEF Told, CallIds
  <2>5. ReportedInOrder'
    BY <1>1, <2>1, <2>4 DEF ReportedInOrder
  <2> QED
    BY <2>1, <2>2, <2>3, <2>5 DEF RoundInv, CallsCollected
<1>11. CASE PreviewPanics
  <2>1. worker' = "ended" /\ UNCHANGED tx
    BY <1>11 DEF PreviewPanics, channelVars
  <2>2. ~ToolsSignalled'
    BY <1>1, <2>1 DEF ToolsSignalled
  <2> QED
    BY <2>1, <2>2, NothingHeld
<1> QED
  BY <1>2, <1>3, <1>4, <1>5, <1>6, <1>7, <1>8, <1>9, <1>10, <1>11 DEF WorkerStep, StreamOver

LEMMA TurnStep == BaseInv /\ TurnInv /\ RoundInv /\ [Next]_vars => TurnInv' /\ RoundInv'
<1> SUFFICES ASSUME BaseInv, TurnInv, RoundInv, [Next]_vars PROVE TurnInv' /\ RoundInv'
  OBVIOUS
<1>1. CASE Cancel \/ DropStream \/ UNCHANGED vars
  <2>1. /\ UNCHANGED <<loopVars, workerVars, channelVars, historyVars, style>>
        /\ open' => open
    BY <1>1 DEF Cancel, DropStream, vars, callerVars
  <2>2. /\ UNCHANGED <<phase, round, messages, responses, todo, answers, worker, announced,
                      current, calls, at, tx, box, reported, crossed, style>>
        /\ UNCHANGED <<Mentioned, Answered, Told, ToolsSignalled>> /\ (Receiving' => Receiving)
    BY <2>1 DEF loopVars, workerVars, channelVars, historyVars, Mentioned, Answered, Told, Said,
                ToolsSignalled, Receiving
  <2>3. TurnInv'
    BY <2>2
    DEF TurnInv, ResumeShape, Resolved, ConsultsAnswered, AllAnswered, RoundsLeft, AnnouncedKept
  <2>4. CallsCollected' /\ (Holding' => Holding)
    BY <2>2 DEF RoundInv, CallsCollected, Holding
  <2>5. RoundHeld' /\ BoxFilled' /\ ReportedInOrder'
    BY <2>2, <2>4 DEF RoundInv, RoundHeld, BoxFilled, ReportedInOrder
  <2> QED
    BY <2>3, <2>4, <2>5 DEF RoundInv
<1> QED
  BY <1>1, LoopTurn, WorkerTurn, RoundWorker DEF Next, Done

\* With a client that keeps to one way to announce calls, every call it has
\* announced, and has not crossed with the end of another, is answered in the messages and reported to the consumer before
\* the model is consulted again, and no call of the conversation is open.
THEOREM EveryCallAnswered == Spec => []NoCallLost
<1> DEFINE I == BaseInv /\ TurnInv /\ RoundInv
<1>1. Init => I
  BY BaseInit, TurnInit
<1>2. I /\ [Next]_vars => I'
  BY BaseStep, TurnStep
<1>3. I => NoCallLost
  BY DEF TurnInv, ConsultsAnswered, AllAnswered, AnnouncedKept, NoCallLost, EveryCallKept
<1> QED
  BY <1>1, <1>2, <1>3, PTL DEF Spec

-----------------------------------------------------------------------------
(* Refinement of Turns.                                                     *)

OverBar == phase = "over" \/ ~open

LEMMA StutterTurns ==
  ASSUME UNCHANGED <<messages, round, style>>, UNCHANGED OverBar
  PROVE  UNCHANGED T!vars
  BY DEF T!vars, OverBar

LEMMA EndTurns ==
  ASSUME UNCHANGED <<messages, round, style>>, ~OverBar, OverBar'
  PROVE  T!End
  BY DEF T!End, OverBar

\* A round has at most one call per id, or two with a client that uses both ways.
LEMMA RoundBound ==
  ASSUME TypeInv, calls # <<>>, \A i \in DOMAIN calls : calls[i].id \in Ids,
         style # "both" => Distinct(IdsOf(calls)), style = "both" => OneRecordEach(calls)
  PROVE  IdsOf(calls) \in T!Orders
<1> DEFINE n == Len(calls)
           card == Cardinality(Ids)
<1>1. /\ calls \in Seq(Call) /\ n \in Nat /\ DOMAIN calls = 1 .. n /\ n # 0
  BY AnnouncedFacts, EmptySeq
<1>2. IsFiniteSet(1 .. n) /\ Cardinality(1 .. n) = n
  BY <1>1, FS_Interval
<1>3. IsFiniteSet(Ids) /\ card \in Nat
  BY LoopAssumption, FS_CardinalityType
<1>4. IdsOf(calls) \in [1 .. n -> Ids]
  BY <1>1 DEF IdsOf
<1>5. ASSUME style # "both" PROVE n <= card
  <2>1. IdsOf(calls) \in Injection(1 .. n, Ids)
    BY <1>4, <1>5 DEF Distinct, Injection, IsInjective
  <2> QED
    BY <1>2, <1>3, <2>1, FS_Injection
<1>6. ASSUME style = "both" PROVE n <= 2 * card
  <2> DEFINE f == [i \in 1 .. n |-> <<calls[i].id, IF calls[i].args = TRUE THEN 1 ELSE 0>>]
  <2>1. \A i \in 1 .. n : calls[i] = [id |-> calls[i].id, args |-> calls[i].args] /\ calls[i].args \in BOOLEAN
    <3> TAKE i \in 1 .. n
    <3>1. calls[i] \in Call
      BY <1>1, ElementOfSeq
    <3> QED
      BY <3>1 DEF Call
  <2>2. IsFiniteSet(0 .. 1) /\ Cardinality(0 .. 1) = 2
    <3>1. 0 \in Int /\ 1 \in Int /\ ~(0 > 1) /\ 1 - 0 + 1 = 2
      OBVIOUS
    <3>2. /\ IsFiniteSet(0 .. 1)
          /\ Cardinality(0 .. 1) = IF 0 > 1 THEN 0 ELSE 1 - 0 + 1
      BY <3>1, FS_Interval
    <3> QED
      BY <3>1, <3>2
  <2>3. IsFiniteSet(Ids \X (0 .. 1)) /\ Cardinality(Ids \X (0 .. 1)) = card * 2
    BY <1>3, <2>2, FS_Product
  <2>4. f \in [1 .. n -> Ids \X (0 .. 1)]
    BY <1>1, <2>1
  <2>5. ASSUME NEW i \in 1 .. n, NEW j \in 1 .. n, f[i] = f[j] PROVE i = j
    <3>1. calls[i].id = calls[j].id
      BY <2>5
    <3>2. (IF calls[i].args = TRUE THEN 1 ELSE 0) = (IF calls[j].args = TRUE THEN 1 ELSE 0)
      BY <2>5
    <3>3. calls[i].args = calls[j].args
      <4>1. calls[i].args \in {TRUE, FALSE} /\ calls[j].args \in {TRUE, FALSE}
        BY <2>1, Zenon
      <4>2. (calls[i].args = TRUE) <=> (calls[j].args = TRUE)
        BY <3>2
      <4> QED
        BY <4>1, <4>2, Zenon
    <3>4. calls[i] = calls[j]
      BY <2>1, <3>1, <3>3
    <3> QED
      BY <1>1, <1>6, <3>4, LoopAssumption DEF OneRecordEach
  <2>6. f \in Injection(1 .. n, Ids \X (0 .. 1))
    BY <2>4, <2>5 DEF Injection, IsInjective
  <2>7. Cardinality(1 .. n) <= Cardinality(Ids \X (0 .. 1))
    BY <2>3, <2>6, FS_Injection
  <2> QED
    BY <1>2, <1>3, <2>3, <2>7
<1>7. n \in 1 .. (IF style = "both" THEN 2 ELSE 1) * card
  BY <1>1, <1>3, <1>5, <1>6
<1>8. T!Cardinality(Ids) = card
  BY DEF T!Cardinality, Cardinality
<1> HIDE DEF n, card
<1> QED
  BY <1>4, <1>7, <1>8 DEF T!Orders

\* The messages a round adds are one turn.
LEMMA PollRefines ==
  ASSUME BaseInv, TurnInv, RoundInv, PollToolCalls
  PROVE  T!Turn
<1> DEFINE s == IdsOf(calls)
<1>1. /\ phase = "streaming" /\ open /\ phase' = "looping" /\ messages' = messages \o box
      /\ round' = round + 1 /\ UNCHANGED <<open, style>>
  BY DEF PollToolCalls, Receiving, callerVars
<1>2. /\ calls # <<>> /\ (\A i \in DOMAIN calls : calls[i].id \in Ids)
      /\ CallIds(calls) \subseteq Elements(announced) /\ Elements(announced) \cap Mentioned = {}
      /\ style # "both" => Distinct(s)
      /\ style = "both" => OneRecordEach(calls)
      /\ box = Asks(s) \o Answers(s)
  BY ToolsFinish
<1>3. s \in T!Orders
  BY <1>2, RoundBound DEF BaseInv
<1>4. s \in Seq(Ids) /\ Elements(s) = CallIds(calls)
  BY <1>2, CallsRead DEF BaseInv
<1>5. messages' = messages \o Asks(s) \o Answers(s)
  <2>1. messages \in Seq(Message) /\ Asks(s) \in Seq(Message) /\ Answers(s) \in Seq(Message)
    BY <1>4, MessageTypes DEF BaseInv, TypeInv, TypeOK, LoopType
  <2> QED
    BY <1>1, <1>2, <2>1, ConcatAssociative, SMTT(30) DEF Asks, Answers
<1>6. T!Mentioned = Mentioned
  BY DEF T!Mentioned, Mentioned, MentionedIn, Elements
<1>7. \A i \in DOMAIN s : s[i] \notin T!Mentioned
  BY <1>2, <1>4, <1>6 DEF Elements
<1>8. messages # <<>> => messages[Len(messages)].kind = "answer"
  BY <1>1 DEF TurnInv, ConsultsAnswered, AllAnswered
<1>9. round < MaxRounds
  BY <1>1 DEF TurnInv, RoundsLeft
<1>10. T!Asks(s) = Asks(s) /\ T!Answers(s) = Answers(s)
  BY DEF T!Asks, T!Answers, Asks, Answers, Answer
<1>11. \E q \in T!Orders :
         /\ ~(style = "both") => \A i, j \in DOMAIN q : q[i] = q[j] => i = j
         /\ \A i \in DOMAIN q : q[i] \notin T!Mentioned
         /\ messages' = messages \o T!Asks(q) \o T!Answers(q)
  BY <1>2, <1>3, <1>5, <1>7, <1>10 DEF Distinct
<1> QED
  BY <1>1, <1>8, <1>9, <1>11 DEF T!Turn, T!Unanswered

\* The answers of a resume are those the conversation was waiting for.
LEMMA ResumeRefines ==
  ASSUME BaseInv, TurnInv, ResumeDone
  PROVE  T!Resume
<1>1. /\ phase = "resuming" /\ open /\ todo = <<>> /\ phase' = "looping" /\ round' = round + 1
      /\ messages' = messages \o answers /\ UNCHANGED <<open, style>>
  BY DEF ResumeDone, callerVars
<1>2. PICK p \in Pending \ {<<>>} : messages = Asks(p) /\ Resolved(p)
  BY <1>1 DEF TurnInv, ResumeShape
<1>3. /\ p \in Seq(Ids) /\ Len(p) \in Nat /\ DOMAIN p = 1 .. Len(p)
      /\ Len(answers) \in Nat /\ DOMAIN answers = 1 .. Len(answers) /\ answers \in Seq(Message)
  BY <1>2, LoopAssumption, LenProperties DEF BaseInv, TypeInv, TypeOK, LoopType
<1>4. Len(answers) = Len(p) /\ \A i \in DOMAIN answers : answers[i] = Answer(p[i])
  BY <1>1, <1>2, <1>3, EmptySeq DEF Resolved
<1>5. answers = [i \in DOMAIN p |-> Answer(p[i])]
  BY <1>3, <1>4
<1>6. answers = T!Answers(p)
  BY <1>5 DEF T!Answers, Answer
<1>7. /\ messages # <<>> /\ Len(messages) = 1
      /\ messages[1].kind = "asks" /\ messages[1].ids = p
  BY <1>2 DEF Asks
<1> QED
  BY <1>1, <1>6, <1>7 DEF T!Resume, T!Unanswered

LEMMA TurnsRefined ==
  ASSUME BaseInv, TurnInv, RoundInv, [Next]_vars
  PROVE  T!Next \/ UNCHANGED T!vars
<1>1. CASE \/ StopCancelled \/ StopAtLimit \/ ConsultFails \/ PollEnd
  <2>1. /\ UNCHANGED <<messages, round, style>> /\ phase # "over" /\ open /\ phase' = "over"
    BY <1>1 DEF StopCancelled, StopAtLimit, ConsultFails, Consult, AtTop, Stop, PollEnd, Receiving,
                callerVars
  <2> QED
    BY <2>1, EndTurns DEF OverBar, T!Next
<1>2. CASE BeginResume \/ ResumeCall \/ StartRound
  <2>1. /\ UNCHANGED <<messages, round, style, open>> /\ phase # "over" /\ phase' # "over"
    BY <1>2 DEF BeginResume, ResumeCall, StartRound, Consult, AtTop, callerVars
  <2> QED
    BY <2>1, StutterTurns DEF OverBar
<1>3. CASE PollUpdate
  <2>1. /\ UNCHANGED <<messages, round, style, open>> /\ open /\ phase = "streaming"
    BY <1>3 DEF PollUpdate, Receiving, callerVars
  <2>2. CASE phase' = "over"
    BY <2>1, <2>2, EndTurns DEF OverBar, T!Next
  <2>3. CASE phase' # "over"
    BY <2>1, <2>3, StutterTurns DEF OverBar
  <2> QED
    BY <2>2, <2>3
<1>4. CASE WorkerStep \/ Cancel \/ UNCHANGED vars
  <2>1. UNCHANGED <<messages, round, style, open, phase>>
    BY <1>4, WorkerStepShape DEF Cancel, vars, loopVars, callerVars
  <2> QED
    BY <2>1, StutterTurns DEF OverBar
<1>5. CASE DropStream
  <2>1. UNCHANGED <<messages, round, style, phase>> /\ open /\ ~open'
    BY <1>5 DEF DropStream, loopVars
  <2> QED
    BY <2>1, StutterTurns, EndTurns DEF OverBar, T!Next
<1> QED
  BY <1>1, <1>2, <1>3, <1>4, <1>5, PollRefines, ResumeRefines
  DEF Next, LoopStep, Done, T!Next

\* The loop implements Turns: approvals, cancellation, the worker, its channels
\* and a consumer that walks away never show in the messages, which grow by the
\* answers a resume owes and by whole turns, each of new calls and their answers.
THEOREM TurnsImplemented == Spec => ImplementsTurns
<1> DEFINE I == BaseInv /\ TurnInv /\ RoundInv
<1>1. Init => I
  BY BaseInit, TurnInit
<1>2. I /\ [Next]_vars => I'
  BY BaseStep, TurnStep
<1>3. Init => T!Init
  BY DEF Init, T!Init, T!Asks, Asks
<1>4. I /\ [Next]_vars => [T!Next]_(T!vars)
  BY TurnsRefined
<1> QED
  BY <1>1, <1>2, <1>3, <1>4, PTL DEF Spec, T!Spec, ImplementsTurns

===============================================================================
