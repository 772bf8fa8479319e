---------------------------- MODULE AgentTurnProofs ----------------------------
(***************************************************************************)
(* Invariants of AgentTurn for every set of prompts and every number of    *)
(* runs and session objects: no cancel token outlives its turn, no save    *)
(* loses what an earlier one stored, and the sessions of a client that     *)
(* waits hold conversations.                                               *)
(***************************************************************************)
EXTENDS AgentTurn, Integers, FiniteSetTheorems, SequenceTheorems, TLAPS

\* What the values of the constants have in common.
TurnConstants ==
  /\ IsFiniteSet(Prompts)
  /\ MaxRuns \in Nat /\ MaxBusy \in 0..MaxRuns
  /\ MaxObjects \in Nat \ {0}

Batches == Seq(Seq(Message))
Task == [at : {"none", "open", "start", "history", "count", "done"},
         request : Seq(Message), reply : Seq(Message), writes : Batches]

-----------------------------------------------------------------------------
(* Messages.                                                                *)

LEMMA MessageFacts ==
  ASSUME NEW p \in Prompts
  PROVE  /\ Question(p) \in Message /\ IsQuestion(Question(p)) /\ Question(p).turn = p
         /\ <<Question(p)>> \in Seq(Message)
  BY DEF Question, Message, IsQuestion

\* A finite set of positions has an element with any number of others before it.
LEMMA NthPosition ==
  ASSUME NEW n \in Nat, NEW S \in SUBSET (1..n), NEW k \in 1..Cardinality(S)
  PROVE  \E i \in S : Cardinality({j \in S : j < i}) = k - 1
<1> DEFINE B(x) == {j \in S : j < x}
           Far == {x \in Nat : Cardinality(B(x)) >= k}
           R == {ss \in Nat \X Nat : ss[1] < ss[2]}
<1>1. /\ IsFiniteSet(S) /\ Cardinality(S) \in Nat
      /\ \A x : IsFiniteSet(B(x)) /\ Cardinality(B(x)) \in Nat
  <2>1. IsFiniteSet(1..n)
    BY FS_Interval
  <2> QED
    BY <2>1, FS_Subset, FS_CardinalityType
<1>2. \A j \in S : j \in Nat /\ j >= 1 /\ j <= n
  OBVIOUS
<1>3. n + 1 \in Far
  <2>1. \A j \in S : j < n + 1
    BY <1>2
  <2>2. B(n + 1) = S
    BY <2>1, Zenon
  <2> QED
    BY <1>1, <2>2
<1>4. PICK x \in Far : \A y \in Far : ~(y < x)
  <2>1. IsWellFoundedOn(R, Nat)
    BY NatLessThanWellFounded DEF OpToRel
  <2>2. Far \subseteq Nat
    OBVIOUS
  <2> HIDE DEF R, Far
  <2>3. PICK x \in Far : \A y \in Far : <<y, x>> \notin R
    BY <1>3, <2>1, <2>2, WFMin
  <2> QED
    BY <2>2, <2>3 DEF R
<1>5. x \in Nat /\ Cardinality(B(x)) >= k
  OBVIOUS
<1>6. x # 0
  <2> SUFFICES ASSUME x = 0 PROVE FALSE
    OBVIOUS
  <2>1. \A j \in S : ~(j < 0)
    BY <1>2
  <2>2. B(x) = {}
    BY <2>1, Zenon
  <2> HIDE DEF B
  <2> QED
    BY <1>5, <2>2, FS_EmptySet
<1>7. x - 1 \in Nat /\ x - 1 \notin Far
  BY <1>4, <1>5, <1>6
<1>8. ~(Cardinality(B(x - 1)) >= k)
  BY <1>7
<1>9. x - 1 \in S
  <2> SUFFICES ASSUME x - 1 \notin S PROVE FALSE
    OBVIOUS
  <2>1. \A j \in S : j < x <=> j < x - 1
    BY <1>2, <1>5, <1>7
  <2>2. B(x) = B(x - 1)
    BY <2>1, Zenon
  <2> HIDE DEF B
  <2> QED
    BY <1>5, <1>8, <2>2
<1>10. B(x) = B(x - 1) \cup {x - 1} /\ x - 1 \notin B(x - 1)
  <2>1. \A j \in S : j < x <=> j < x - 1 \/ j = x - 1
    BY <1>2, <1>5, <1>7
  <2>2. ~(x - 1 < x - 1)
    BY <1>7
  <2> QED
    BY <1>9, <2>1, <2>2
<1>11. Cardinality(B(x)) = Cardinality(B(x - 1)) + 1
  <2> HIDE DEF B
  <2> QED
    BY <1>1, <1>10, FS_AddElement
<1>12. Cardinality(B(x - 1)) = k - 1
  <2> HIDE DEF B
  <2> QED
    BY <1>1, <1>5, <1>8, <1>11
<1> QED
  BY <1>9, <1>12

\* The questions of a request beyond a count are messages of it.
LEMMA FreshType ==
  ASSUME NEW request \in Seq(Message), NEW n \in Nat
  PROVE  Fresh(request, n) \in Seq(Message)
<1> DEFINE S == {i \in DOMAIN request : i > n /\ IsQuestion(request[i])}
           m == Cardinality(S)
           f == [k \in 1..m |-> CHOOSE i \in S : Cardinality({j \in S : j < i}) = k - 1]
<1>1. DOMAIN request = 1..Len(request) /\ Len(request) \in Nat
  BY LenProperties
<1>2. S \in SUBSET (1..Len(request)) /\ m \in Nat
  <2>1. IsFiniteSet(1..Len(request))
    BY <1>1, FS_Interval
  <2>2. S \subseteq 1..Len(request)
    BY <1>1
  <2> QED
    BY <1>1, <2>1, <2>2, FS_Subset, FS_CardinalityType
<1>3. \A i \in S : request[i] \in Message
  BY <1>1, ElementOfSeq
<1>4. Fresh(request, n) = [k \in 1..m |-> request[f[k]]]
  BY DEF Fresh
<1> HIDE DEF S
<1>5. f \in [1..m -> S]
  BY <1>1, <1>2, NthPosition
<1> HIDE DEF f, m
<1>6. \A k \in 1..m : request[f[k]] \in Message
  BY <1>3, <1>5
<1> QED
  BY <1>2, <1>4, <1>6, IsASeq

LEMMA BatchType ==
  ASSUME NEW messages \in Seq(Message)
  PROVE  Batch(messages) \in Batches /\ \A i \in DOMAIN Batch(messages) : Batch(messages)[i] # <<>>
  BY DEF Batch, Batches

LEMMA LeftType ==
  ASSUME NEW writes \in Batches
  PROVE  Left(writes) \in Task /\ Left(writes).at \in {"history", "done"}
         /\ Left(writes).writes = writes /\ (Left(writes).at = "history" <=> writes # <<>>)
<1> DEFINE at == IF writes = <<>> THEN "done" ELSE "history"
<1>1. Left(writes) = [NoTail EXCEPT !.at = at, !.writes = writes]
  BY DEF Left
<1>2. NoTail \in Task
  <2>1. <<>> \in Seq(Message) /\ <<>> \in Batches
    BY DEF Batches
  <2> QED
    BY <2>1 DEF NoTail, Task
<1>3. at \in {"history", "done"} /\ (at = "history" <=> writes # <<>>)
  OBVIOUS
<1> HIDE DEF at
<1>4. Left(writes).at = at /\ Left(writes).writes = writes
  BY <1>1, <1>2 DEF Task
<1>5. Left(writes) \in Task
  BY <1>1, <1>2, <1>3 DEF Task
<1> QED
  BY <1>3, <1>4, <1>5

LEMMA TranscriptType ==
  ASSUME NEW p \in Prompts, NEW text \in BOOLEAN, NEW outcome \in {"stop", "awaiting"}
  PROVE  /\ Transcript(p, outcome, text) \in Seq(Message)
         /\ \/ Transcript(p, outcome, text) = <<>>
            \/ \E c \in BOOLEAN :
                 Transcript(p, outcome, text) = <<[role |-> "assistant", turn |-> p, calls |-> c]>>
<1> DEFINE c == outcome = "awaiting" /\ Flushes(outcome)
           a == [role |-> "assistant", turn |-> p, calls |-> c]
<1>1. Transcript(p, outcome, text) \in {<<>>, <<a>>}
  BY DEF Transcript
<1>2. c \in BOOLEAN
  BY DEF Flushes
<1> HIDE DEF c
<1>3. a \in Message
  BY <1>2 DEF Message
<1>4. <<>> \in Seq(Message) /\ <<a>> \in Seq(Message)
  BY <1>3
<1>5. CASE Transcript(p, outcome, text) = <<>>
  BY <1>4, <1>5
<1>6. CASE Transcript(p, outcome, text) = <<a>>
  BY <1>2, <1>4, <1>6
<1> QED
  BY <1>1, <1>5, <1>6

-----------------------------------------------------------------------------
(* Types, and where turns and tasks can be.                                 *)

Streaming(p) == pc[p] \in {"streaming", "asking"}

\* The runs of a turn are numbered from 1; the stream of the last one is open
\* while the turn reads it or asks the client.
RunsShape ==
  /\ \A p \in Prompts : object[p] <= made /\ (pc[p] = "unsent" => runs[p] = 0)
  /\ \A p \in Prompts : Streaming(p) => runs[p] >= 1
  /\ \A p \in Prompts, k \in 1..MaxRuns :
       /\ tail[<<p, k>>].at # "none" <=> k <= runs[p]
       /\ tail[<<p, k>>].at = "open" <=> Streaming(p) /\ k = runs[p]
  /\ \A r \in Runs : tail[r].at \in {"history", "count"} => tail[r].writes # <<>>

TurnInv == TypeOK /\ RunsShape

LEMMA TypeFacts ==
  ASSUME TypeOK
  PROVE  /\ \A r \in Runs : /\ tail[r] \in Task
                           /\ tail[r].request \in Seq(Message) /\ tail[r].reply \in Seq(Message)
                           /\ tail[r].writes \in Batches
                           /\ r[1] \in Prompts /\ r[2] \in 1..MaxRuns /\ r = <<r[1], r[2]>>
         /\ \A p \in Prompts : object[p] \in Objects /\ runs[p] \in 0..MaxRuns
         /\ \A o \in Objects : history[o] \in Seq(Message) /\ count[o] \in Nat
<1>1. tail \in [Runs -> Task]
  BY DEF TypeOK, Task, Batches
<1>2. \A r \in Runs : /\ tail[r] \in Task
                      /\ tail[r].request \in Seq(Message) /\ tail[r].reply \in Seq(Message)
                      /\ tail[r].writes \in Batches
  BY <1>1 DEF Task
<1>3. \A r \in Runs : r[1] \in Prompts /\ r[2] \in 1..MaxRuns /\ r = <<r[1], r[2]>>
  BY DEF Runs
<1>4. /\ \A p \in Prompts : object[p] \in Objects /\ runs[p] \in 0..MaxRuns
      /\ \A o \in Objects : history[o] \in Seq(Message) /\ count[o] \in Nat
  BY DEF TypeOK
<1> QED
  BY <1>2, <1>3, <1>4

\* Turns and their runs are in the sets their tasks are numbered by.
LEMMA CurrentType ==
  ASSUME TurnConstants, TurnInv, NEW p \in Prompts, Streaming(p)
  PROVE  Current(p) \in Runs /\ runs[p] \in 1..MaxRuns /\ tail[Current(p)].at = "open"
<1>1. runs[p] \in 1..MaxRuns
  BY DEF TurnConstants, TurnInv, TypeOK, RunsShape
<1>2. Current(p) \in Runs
  BY <1>1 DEF Current, Runs
<1>3. tail[Current(p)].at = "open"
  BY <1>1 DEF TurnInv, RunsShape, Current
<1> QED
  BY <1>1, <1>2, <1>3

\* The bound on runs leaves a number for one more.
LEMMA RunLeft ==
  ASSUME TurnConstants, TurnInv, MayRun, NEW p \in Prompts
  PROVE  runs[p] + 1 \in 1..MaxRuns /\ <<p, runs[p] + 1>> \in Runs
<1> DEFINE n == runs[p]
           used == {r \in Runs : tail[r].at # "none"}
           mine == {<<p, k>> : k \in 1..n}
           f == [k \in 1..n |-> <<p, k>>]
<1>1. n \in 0..MaxRuns /\ n \in Nat /\ n \in Int /\ 1 \in Int /\ MaxRuns \in Nat
  BY DEF TurnConstants, TurnInv, TypeOK
<1>2. IsFiniteSet(used)
  <2>1. IsFiniteSet(1..MaxRuns)
    BY <1>1, FS_Interval
  <2>2. IsFiniteSet(Runs)
    BY <2>1, FS_Product DEF Runs, TurnConstants
  <2> QED
    BY <2>2, FS_Subset
<1>3. mine \subseteq used
  BY <1>1 DEF TurnInv, RunsShape, Runs
<1>4. IsFiniteSet(mine) /\ Cardinality(mine) = n
  <2>1. IsFiniteSet(1..n) /\ Cardinality(1..n) = n
    <3> HIDE DEF n
    <3> QED
      BY <1>1, FS_Interval
  <2>2. f \in Bijection(1..n, mine)
    <3>1. f \in [1..n -> mine] /\ \A t \in mine : \E k \in 1..n : f[k] = t
      OBVIOUS
    <3>2. \A k, l \in 1..n : f[k] = f[l] => k = l
      OBVIOUS
    <3> QED
      BY <3>1, <3>2 DEF Bijection, Injection, Surjection, IsInjective
  <2>3. ExistsBijection(1..n, mine)
    BY <2>2 DEF ExistsBijection
  <2> QED
    BY <2>1, <2>3, FS_Bijection
<1>5. n <= Cardinality(used) /\ Cardinality(used) \in Nat
  BY <1>2, <1>3, <1>4, FS_Subset, FS_CardinalityType
<1>6. Cardinality(used) < MaxRuns
  BY <1>1, <1>5 DEF MayRun, TurnConstants
<1>7. n + 1 \in 1..MaxRuns
  BY <1>1, <1>5, <1>6
<1> QED
  BY <1>7 DEF Runs

\* What a step makes of one task leaves the others alone.
LEMMA OneTask ==
  ASSUME TypeOK, NEW r \in Runs, NEW t \in Task, tail' = [tail EXCEPT ![r] = t]
  PROVE  /\ tail' \in [Runs -> Task] /\ tail'[r] = t
         /\ \A s \in Runs : s # r => tail'[s] = tail[s]
  BY DEF TypeOK, Task, Batches

\* The tasks of the actions: the one that is changed and what it becomes.
LEMMA OpenTask ==
  ASSUME TurnConstants, TurnInv, NEW p \in Prompts, OpenRun(p)
  PROVE  LET r == <<p, runs[p] + 1>>
             t == [NoTail EXCEPT !.at = "open", !.request = Asked(p)]
         IN  /\ r \in Runs /\ runs[p] + 1 \in 1..MaxRuns
             /\ Asked(p) \in Seq(Message) /\ t \in Task /\ t.at = "open" /\ t.request = Asked(p)
             /\ t.reply = <<>> /\ tail' = [tail EXCEPT ![r] = t]
<1>1. <<p, runs[p] + 1>> \in Runs /\ runs[p] + 1 \in 1..MaxRuns
  BY RunLeft DEF OpenRun
<1>2. Asked(p) \in Seq(Message)
  <2>1. history[object[p]] \in Seq(Message)
    BY TypeFacts DEF TurnInv
  <2>2. (IF runs[p] = 0 THEN <<Question(p)>> ELSE <<>>) \in Seq(Message)
    BY MessageFacts
  <2> QED
    BY <2>1, <2>2, ConcatProperties DEF Asked
<1> DEFINE t == [NoTail EXCEPT !.at = "open", !.request = Asked(p)]
<1>3. t \in Task /\ t.at = "open" /\ t.request = Asked(p) /\ t.reply = <<>>
  <2>1. <<>> \in Seq(Message) /\ <<>> \in Batches
    BY DEF Batches
  <2> QED
    BY <1>2, <2>1 DEF NoTail, Task
<1>4. tail' = [tail EXCEPT ![<<p, runs[p] + 1>>] = t]
  BY DEF OpenRun
<1> QED
  BY <1>1, <1>2, <1>3, <1>4

\* What a stream that stops, pauses or is dropped makes of its task.
Answers(p) == {[role |-> "assistant", turn |-> p, calls |-> c] : c \in BOOLEAN}
Replies(p) == {<<>>} \cup {<<a>> : a \in Answers(p)}

LEMMA StreamTask ==
  ASSUME TurnConstants, TurnInv, NEW p \in Prompts,
         StreamStops(p) \/ StreamPauses(p) \/ Decide(p)
  PROVE  /\ Streaming(p) /\ Current(p) \in Runs /\ tail[Current(p)].at = "open"
         /\ \E t \in Task :
              /\ tail' = [tail EXCEPT ![Current(p)] = t]
              /\ t.request = tail[Current(p)].request
              /\ StreamStops(p) \/ Decide(p) => t.at = "start"
              /\ StreamPauses(p) => t.at = "open"
              /\ t.reply \in Replies(p) \/ t.reply = tail[Current(p)].reply
<1> DEFINE r == Current(p)
<1>1. Streaming(p)
  BY DEF StreamStops, StreamPauses, Decide, Streaming
<1>2. r \in Runs /\ tail[r].at = "open"
  BY <1>1, CurrentType
<1>3. tail \in [Runs -> Task] /\ tail[r] \in Task
  BY <1>2 DEF TurnInv, TypeOK, Task, Batches
<1> HIDE DEF r
<1>4. ASSUME StreamStops(p)
      PROVE  \E t \in Task : /\ tail' = [tail EXCEPT ![r] = t] /\ t.request = tail[r].request
                             /\ t.at = "start" /\ t.reply \in Replies(p)
  <2>1. PICK text \in BOOLEAN : tail' = [tail EXCEPT ![r].at = "start",
                                                    ![r].reply = Transcript(p, "stop", text)]
    BY <1>4 DEF StreamStops, r
  <2>2. Transcript(p, "stop", text) \in Seq(Message) /\ Transcript(p, "stop", text) \in Replies(p)
    BY TranscriptType DEF Replies, Answers
  <2> DEFINE t == [tail[r] EXCEPT !.at = "start", !.reply = Transcript(p, "stop", text)]
  <2>3. tail' = [tail EXCEPT ![r] = t]
    BY <1>2, <1>3, <2>1
  <2>4. t \in Task /\ t.at = "start" /\ t.request = tail[r].request
        /\ t.reply = Transcript(p, "stop", text)
    BY <1>3, <2>2 DEF Task
  <2> QED
    BY <2>2, <2>3, <2>4
<1>5. ASSUME StreamPauses(p)
      PROVE  \E t \in Task : /\ tail' = [tail EXCEPT ![r] = t] /\ t.request = tail[r].request
                             /\ t.at = "open" /\ t.reply \in Replies(p)
  <2> DEFINE t == [tail[r] EXCEPT !.reply = Transcript(p, "awaiting", TRUE)]
  <2>1. tail' = [tail EXCEPT ![r] = t]
    BY <1>3, <1>5 DEF StreamPauses, r
  <2>2. /\ Transcript(p, "awaiting", TRUE) \in Seq(Message)
        /\ Transcript(p, "awaiting", TRUE) \in Replies(p)
    BY TranscriptType DEF Replies, Answers
  <2>3. t \in Task /\ t.at = "open" /\ t.request = tail[r].request
        /\ t.reply = Transcript(p, "awaiting", TRUE)
    BY <1>2, <1>3, <2>2 DEF Task
  <2> QED
    BY <2>1, <2>2, <2>3
<1>6. ASSUME Decide(p)
      PROVE  \E t \in Task : /\ tail' = [tail EXCEPT ![r] = t] /\ t.request = tail[r].request
                             /\ t.at = "start" /\ t.reply = tail[r].reply
  <2> DEFINE t == [tail[r] EXCEPT !.at = "start"]
  <2>1. tail' = [tail EXCEPT ![r] = t]
    BY <1>3, <1>6 DEF Decide, r
  <2>2. t \in Task /\ t.at = "start" /\ t.request = tail[r].request /\ t.reply = tail[r].reply
    BY <1>3 DEF Task
  <2> QED
    BY <2>1, <2>2
<1>7. /\ StreamStops(p) => ~StreamPauses(p) /\ ~Decide(p)
      /\ Decide(p) => ~StreamPauses(p)
  BY DEF StreamStops, StreamPauses, Decide, Goto, TurnInv, TypeOK
<1> QED
  BY <1>1, <1>2, <1>4, <1>5, <1>6, <1>7 DEF r

\* A persisting task goes on to its next write, or is done.
LEMMA PersistTask ==
  ASSUME TurnConstants, TurnInv, NEW r \in Runs, TailStep(r)
  PROVE  /\ Persisting(r)
         /\ \E t \in Task : /\ tail' = [tail EXCEPT ![r] = t] /\ t.at \in {"history", "count", "done"}
                            /\ t.at # "done" => t.writes # <<>>
<1>1. tail \in [Runs -> Task] /\ tail[r] \in Task /\ object[r[1]] \in Objects
  BY TypeFacts DEF TurnInv, TypeOK, Task, Batches
<1>2. CASE TailCounts(r)
  <2>1. PICK n \in {s.count : s \in Snapshots(object[r[1]])} :
          tail' = [tail EXCEPT ![r] = Left(Batch(Fresh(tail[r].request, n)) \o Batch(tail[r].reply))]
    BY <1>2 DEF TailCounts
  <2>2. n \in Nat
    BY <1>1, TypeFacts DEF Snapshots, TurnInv
  <2> DEFINE w == Batch(Fresh(tail[r].request, n)) \o Batch(tail[r].reply)
  <2>3. w \in Batches
    <3>1. Fresh(tail[r].request, n) \in Seq(Message) /\ tail[r].reply \in Seq(Message)
      BY <1>1, <2>2, FreshType DEF Task
    <3>2. Batch(Fresh(tail[r].request, n)) \in Batches /\ Batch(tail[r].reply) \in Batches
      BY <3>1, BatchType
    <3> QED
      BY <3>2, ConcatProperties DEF Batches
  <2> HIDE DEF w
  <2>4. /\ Left(w) \in Task /\ Left(w).at \in {"history", "done"}
        /\ Left(w).at # "done" => Left(w).writes # <<>>
    BY <2>3, LeftType
  <2>5. Persisting(r) /\ tail' = [tail EXCEPT ![r] = Left(w)]
    BY <1>2, <2>1 DEF TailCounts, Persisting, w
  <2> QED
    BY <2>4, <2>5
<1>3. CASE TailAppends(r)
  <2> DEFINE t == [tail[r] EXCEPT !.at = "count"]
  <2>1. tail' = [tail EXCEPT ![r] = t]
    BY <1>1, <1>3 DEF TailAppends
  <2>2. t \in Task /\ t.at = "count" /\ t.writes # <<>>
    BY <1>1, <1>3 DEF Task, TailAppends, TurnInv, RunsShape
  <2>3. Persisting(r)
    BY <1>3 DEF TailAppends, Persisting
  <2> QED
    BY <2>1, <2>2, <2>3
<1>4. CASE TailRecounts(r)
  <2>1. Persisting(r) /\ tail' = [tail EXCEPT ![r] = Left(Tail(tail[r].writes))]
    BY <1>4 DEF TailRecounts, Persisting
  <2>2. Tail(tail[r].writes) \in Batches
    <3>1. tail[r].writes # <<>> /\ tail[r].writes \in Seq(Seq(Message))
      BY <1>1, <1>4 DEF TailRecounts, TurnInv, RunsShape, Task, Batches
    <3> QED
      BY <3>1, HeadTailProperties DEF Batches
  <2>3. /\ Left(Tail(tail[r].writes)) \in Task
        /\ Left(Tail(tail[r].writes)).at \in {"history", "done"}
        /\ Left(Tail(tail[r].writes)).at # "done" => Left(Tail(tail[r].writes)).writes # <<>>
    BY <2>2, LeftType
  <2> QED
    BY <2>1, <2>3
<1> QED
  BY <1>2, <1>3, <1>4 DEF TailStep

LEMMA TurnInit == TurnConstants /\ Init => TurnInv
<1> SUFFICES ASSUME TurnConstants, Init PROVE TurnInv
  OBVIOUS
<1>1. <<>> \in Seq(Message) /\ <<>> \in Batches
  BY DEF Batches
<1>2. NoTail \in Task
  BY <1>1 DEF NoTail, Task
<1>3. tail \in [Runs -> Task] /\ \A r \in Runs : tail[r].at = "none"
  BY <1>2 DEF Init, NoTail
<1>4. TypeOK
  <2>1. tail \in [Runs -> [at : {"none", "open", "start", "history", "count", "done"},
                           request : Seq(Message), reply : Seq(Message), writes : Seq(Seq(Message))]]
    BY <1>3 DEF Task, Batches
  <2>2. 1 \in Objects /\ 0 \in 0..MaxRuns /\ 1 \in 0..1
    BY DEF TurnConstants, Objects
  <2>3. saved \in [messages : Seq(Message), count : Nat]
    BY <1>1 DEF Init
  <2>4. history \in [Objects -> Seq(Message)] /\ count \in [Objects -> Nat]
    BY <1>1 DEF Init
  <2> QED
    BY <2>1, <2>2, <2>3, <2>4 DEF Init, TypeOK
<1>5. RunsShape
  <2>1. \A p \in Prompts : object[p] <= made /\ runs[p] = 0 /\ ~Streaming(p)
    BY DEF Init, Streaming
  <2>2. \A p \in Prompts, k \in 1..MaxRuns : tail[<<p, k>>].at = "none" /\ ~(k <= runs[p])
    <3> TAKE p \in Prompts, k \in 1..MaxRuns
    <3>1. <<p, k>> \in Runs
      BY DEF Runs
    <3>2. k \in Nat /\ k >= 1
      BY DEF TurnConstants
    <3> QED
      BY <1>3, <2>1, <3>1, <3>2
  <2> QED
    BY <1>3, <2>1, <2>2 DEF RunsShape
<1> QED
  BY <1>4, <1>5 DEF TurnInv

\* Shapes depend on turns, tasks and the number of objects.
LEMMA ShapeKept ==
  ASSUME TurnInv, UNCHANGED <<object, runs, tail>>, made' = made,
         \A p \in Prompts : /\ pc'[p] = "unsent" => pc[p] = "unsent"
                            /\ pc'[p] \in {"streaming", "asking"} <=> Streaming(p)
  PROVE  RunsShape'
  BY DEF TurnInv, RunsShape, Streaming

LEMMA TurnStepInv == TurnConstants /\ TurnInv /\ [Next]_vars => TurnInv'
<1> SUFFICES ASSUME TurnConstants, TurnInv, [Next]_vars PROVE TurnInv'
  OBVIOUS
<1>0. TypeOK /\ RunsShape /\ MaxObjects \in Nat \ {0} /\ tail \in [Runs -> Task]
  BY DEF TurnInv, TurnConstants, TypeOK, Task, Batches
<1>1. ASSUME NEW p \in Prompts, Prompt(p) PROVE TurnInv'
  <2> DEFINE o == IF live = 0 THEN NextObject ELSE live
  <2>1. o \in Objects /\ o <= made' /\ made' \in Objects /\ made <= made' /\ live' = o /\ live' \in 0..made'
    <3>1. live \in 0..made /\ made \in 1..MaxObjects /\ live \in Nat /\ made \in Nat
      BY <1>0 DEF TypeOK, Objects
    <3>2. live' = o
      BY <1>1 DEF Prompt
    <3>3. CASE live = 0
      <4>1. o = made + 1 /\ made' = made + 1 /\ made < MaxObjects
        BY <1>1, <3>3 DEF Prompt, NextObject
      <4> HIDE DEF o
      <4> QED
        BY <1>0, <3>1, <3>2, <4>1 DEF Objects
    <3>4. CASE live # 0
      <4>1. o = live /\ made' = made
        BY <1>1, <3>4 DEF Prompt
      <4> HIDE DEF o
      <4> QED
        BY <1>0, <3>1, <3>2, <3>4, <4>1 DEF Objects
    <3> QED
      BY <3>3, <3>4
  <2>2. object' \in [Prompts -> Objects] /\ \A q \in Prompts : object'[q] <= made'
    <3>1. object' = [object EXCEPT ![p] = o]
      BY <1>1 DEF Prompt
    <3>2. \A q \in Prompts : object[q] \in Int /\ object[q] <= made /\ made \in Int /\ made' \in Int
      BY <1>0, <2>1 DEF RunsShape, TypeOK, Objects
    <3> HIDE DEF o
    <3>3. object' \in [Prompts -> Objects] /\ object'[p] = o /\ \A q \in Prompts : q # p => object'[q] = object[q]
      BY <1>0, <2>1, <3>1 DEF TypeOK
    <3>4. ASSUME NEW q \in Prompts PROVE object'[q] <= made'
      <4>1. CASE q = p
        BY <2>1, <3>3, <4>1
      <4>2. CASE q # p
        BY <2>1, <3>2, <3>3, <4>2
      <4> QED
        BY <4>1, <4>2
    <3> QED
      BY <3>3, <3>4
  <2>3. history' \in [Objects -> Seq(Message)] /\ count' \in [Objects -> Nat]
    <3>1. saved.messages \in Seq(Message) /\ saved.count \in Nat
      BY <1>0 DEF TypeOK
    <3> QED
      BY <1>0, <1>1, <2>1, <3>1 DEF Prompt, TypeOK, Loaded
  <2>4. /\ pc' = [pc EXCEPT ![p] = "top"] /\ pc[p] = "unsent" /\ token' = p
        /\ UNCHANGED <<runs, cancelled, granted, executed, tail, saved, calm>>
    BY <1>1 DEF Prompt, Goto
  <2> HIDE DEF o
  <2>5. TypeOK'
    <3>1. torn' \in BOOLEAN
      BY <1>0, <1>1 DEF Prompt, TypeOK
    <3> QED
      BY <1>0, <2>1, <2>2, <2>3, <2>4, <3>1 DEF TypeOK
  <2>6. RunsShape'
    <3>1. \A q \in Prompts : /\ Streaming(q)' <=> Streaming(q)
                             /\ pc'[q] = "unsent" => pc[q] = "unsent"
      BY <1>0, <2>4 DEF TypeOK, Streaming
    <3> QED
      BY <1>0, <2>2, <2>4, <3>1 DEF RunsShape
  <2> QED
    BY <2>5, <2>6 DEF TurnInv
<1>2. ASSUME NEW p \in Prompts,
             StopCancelled(p) \/ RunFails(p) \/ Save(p) \/ SaveFails(p) \/ Clear(p)
      PROVE  TurnInv'
  <2>1. /\ pc[p] \in {"top", "save", "clear"}
        /\ pc' = [pc EXCEPT ![p] = pc'[p]] /\ pc'[p] \in {"save", "clear", "done"}
        /\ UNCHANGED <<object, runs, cancelled, granted, executed, live, history, count, made, tail, torn, calm>>
    BY <1>0, <1>2 DEF StopCancelled, RunFails, Save, SaveFails, Clear, Goto, turnVars, sessionVars, TypeOK
  <2>2. saved' \in [messages : Seq(Message), count : Nat]
    <3>1. CASE saved' = saved
      BY <1>0, <3>1 DEF TypeOK
    <3>2. CASE live # 0 /\ saved' \in Snapshots(live)
      <4>1. live \in Objects
        BY <1>0, <3>2 DEF TypeOK, Objects
      <4>2. <<>> \in Seq(Message) /\ 0 \in Nat
        OBVIOUS
      <4> QED
        BY <1>0, <3>2, <4>1, <4>2, TypeFacts DEF Snapshots
    <3> QED
      BY <1>2, <3>1, <3>2 DEF StopCancelled, RunFails, Save, SaveFails, Clear, turnVars, sessionVars
  <2>3. token' \in Prompts \cup {None}
    BY <1>0, <1>2 DEF StopCancelled, RunFails, Save, SaveFails, Clear, turnVars, sessionVars, TypeOK
  <2>4. TypeOK'
    <3>1. pc' \in [Prompts -> {"unsent", "top", "streaming", "asking", "save", "clear", "done"}]
      BY <1>0, <2>1 DEF TypeOK
    <3> QED
      BY <1>0, <2>1, <2>2, <2>3, <3>1 DEF TypeOK
  <2>5. RunsShape'
    <3>1. \A q \in Prompts : /\ pc'[q] = "unsent" => pc[q] = "unsent"
                             /\ pc'[q] \in {"streaming", "asking"} <=> Streaming(q)
      BY <1>0, <2>1 DEF TypeOK, Streaming
    <3> QED
      BY <2>1, <3>1, ShapeKept
  <2> QED
    BY <2>4, <2>5 DEF TurnInv
<1>3. ASSUME NEW p \in Prompts, OpenRun(p) PROVE TurnInv'
  <2> DEFINE r == <<p, runs[p] + 1>>
             t == [NoTail EXCEPT !.at = "open", !.request = Asked(p)]
  <2>1. /\ r \in Runs /\ runs[p] + 1 \in 1..MaxRuns
        /\ t \in Task /\ t.at = "open" /\ tail' = [tail EXCEPT ![r] = t]
    BY <1>3, OpenTask
  <2> HIDE DEF t
  <2>2. tail' \in [Runs -> Task] /\ tail'[r] = t /\ \A s \in Runs : s # r => tail'[s] = tail[s]
    BY <1>0, <2>1, OneTask
  <2>3. /\ pc[p] = "top" /\ pc' = [pc EXCEPT ![p] = "streaming"]
        /\ runs' = [runs EXCEPT ![p] = runs[p] + 1]
        /\ executed' \in [Prompts -> BOOLEAN]
        /\ UNCHANGED <<object, cancelled, granted, live, token, history, count, made, saved, torn, calm>>
    BY <1>0, <1>3 DEF OpenRun, Goto, sessionVars, TypeOK
  <2>4. runs' \in [Prompts -> 0..MaxRuns]
    <3>1. runs \in [Prompts -> 0..MaxRuns]
      BY <1>0 DEF TypeOK
    <3>2. runs[p] + 1 \in 0..MaxRuns
      BY <2>1
    <3> DEFINE k == runs[p] + 1
    <3> HIDE DEF k
    <3>3. runs' = [runs EXCEPT ![p] = k] /\ k \in 0..MaxRuns
      BY <2>3, <3>2 DEF k
    <3> QED
      BY <3>1, <3>3
  <2>5. TypeOK'
    BY <1>0, <2>2, <2>3, <2>4 DEF TypeOK, Task, Batches
  <2>6. RunsShape'
    <3>1. \A q \in Prompts : object'[q] <= made' /\ (pc'[q] = "unsent" => runs'[q] = 0)
      BY <1>0, <2>3 DEF RunsShape, TypeOK
    <3>2. \A q \in Prompts : Streaming(q)' => runs'[q] >= 1
      BY <1>0, <2>1, <2>3 DEF RunsShape, TypeOK, Streaming
    <3>3. ASSUME NEW q \in Prompts, NEW k \in 1..MaxRuns
          PROVE  /\ tail'[<<q, k>>].at # "none" <=> k <= runs'[q]
                 /\ tail'[<<q, k>>].at = "open" <=> Streaming(q)' /\ k = runs'[q]
      <4>1. <<q, k>> \in Runs
        BY DEF Runs
      <4>2. CASE q # p
        <5>1. tail'[<<q, k>>] = tail[<<q, k>>]
          BY <2>2, <4>1, <4>2
        <5>2. runs'[q] = runs[q] /\ pc'[q] = pc[q]
          BY <1>0, <2>3, <4>2 DEF TypeOK
        <5> QED
          BY <1>0, <5>1, <5>2 DEF RunsShape, Streaming
      <4>3. CASE q = p /\ k = runs[p] + 1
        BY <1>0, <2>1, <2>2, <2>3, <4>3, SMTT(30) DEF TypeOK, Streaming
      <4>4. CASE q = p /\ k # runs[p] + 1
        <5>1. tail'[<<q, k>>] = tail[<<q, k>>] /\ runs'[p] = runs[p] + 1
          BY <1>0, <2>2, <2>3, <4>1, <4>4 DEF TypeOK
        <5>2. ~Streaming(p)
          BY <2>3 DEF Streaming
        <5>3. runs[p] \in Nat /\ k \in Nat /\ (k <= runs[p] <=> k <= runs[p] + 1)
          BY <1>0, <4>4, SMTT(30) DEF TypeOK
        <5> QED
          BY <1>0, <4>4, <5>1, <5>2, <5>3 DEF RunsShape
      <4> QED
        BY <4>2, <4>3, <4>4
    <3>4. \A s \in Runs : tail'[s].at \in {"history", "count"} => tail'[s].writes # <<>>
      BY <1>0, <2>1, <2>2 DEF RunsShape
    <3> QED
      BY <3>1, <3>2, <3>3, <3>4 DEF RunsShape
  <2> QED
    BY <2>5, <2>6 DEF TurnInv
<1>4. ASSUME NEW p \in Prompts, StreamStops(p) \/ StreamPauses(p) \/ Decide(p) PROVE TurnInv'
  <2> DEFINE r == Current(p)
  <2>1. /\ Streaming(p) /\ r \in Runs
        /\ \E t \in Task : /\ tail' = [tail EXCEPT ![r] = t]
                           /\ t.at = IF StreamPauses(p) THEN "open" ELSE "start"
    BY <1>4, StreamTask
  <2>2. PICK t \in Task : /\ tail' = [tail EXCEPT ![r] = t]
                          /\ t.at = IF StreamPauses(p) THEN "open" ELSE "start"
    BY <2>1
  <2>3. tail' \in [Runs -> Task] /\ tail'[r] = t /\ \A s \in Runs : s # r => tail'[s] = tail[s]
    BY <1>0, <2>1, <2>2, OneTask
  <2>4. /\ UNCHANGED <<runs, object, cancelled, executed, live, token, history, count, made, saved, torn, calm>>
        /\ granted' \in [Prompts -> 0..MaxRuns]
        /\ pc' = [pc EXCEPT ![p] = pc'[p]]
        /\ pc'[p] \in {"top", "asking", "save"} /\ (pc'[p] = "asking" <=> StreamPauses(p))
    <3>0. pc \in [Prompts -> {"unsent", "top", "streaming", "asking", "save", "clear", "done"}]
          /\ granted \in [Prompts -> 0..MaxRuns] /\ runs[p] \in 0..MaxRuns
      BY <1>0, <1>4 DEF TypeOK
    <3>1. CASE StreamStops(p)
      <4>1. pc' = [pc EXCEPT ![p] = "save"] /\ UNCHANGED <<runs, turnVars, sessionVars, calm>>
        BY <3>1 DEF StreamStops, Goto
      <4> QED
        BY <3>0, <4>1 DEF StreamPauses, Goto, turnVars, sessionVars
    <3>2. CASE StreamPauses(p)
      <4>1. pc' = [pc EXCEPT ![p] = "asking"] /\ UNCHANGED <<runs, turnVars, sessionVars, calm>>
        BY <3>2 DEF StreamPauses, Goto
      <4> QED
        BY <3>0, <3>2, <4>1 DEF turnVars, sessionVars
    <3>3. CASE Decide(p)
      <4>1. /\ pc' = [pc EXCEPT ![p] = "top"] \/ pc' = [pc EXCEPT ![p] = "save"]
            /\ granted' = [granted EXCEPT ![p] = runs[p]] \/ granted' = granted
            /\ UNCHANGED <<runs, object, cancelled, executed, sessionVars, calm>>
        BY <3>3 DEF Decide, Goto
      <4> QED
        BY <3>0, <4>1 DEF StreamPauses, Goto, sessionVars
    <3> QED
      BY <1>4, <3>1, <3>2, <3>3
  <2>5. TypeOK'
    <3>1. pc' \in [Prompts -> {"unsent", "top", "streaming", "asking", "save", "clear", "done"}]
      BY <1>0, <2>4 DEF TypeOK
    <3> QED
      BY <1>0, <2>3, <2>4, <3>1 DEF TypeOK, Task, Batches
  <2>6. RunsShape'
    <3>1. \A q \in Prompts : object'[q] <= made' /\ (pc'[q] = "unsent" => runs'[q] = 0)
      BY <1>0, <2>4 DEF RunsShape, TypeOK
    <3>2. \A q \in Prompts : Streaming(q)' => runs'[q] >= 1
      BY <1>0, <2>1, <2>4 DEF RunsShape, TypeOK, Streaming
    <3>3. ASSUME NEW q \in Prompts, NEW k \in 1..MaxRuns
          PROVE  /\ tail'[<<q, k>>].at # "none" <=> k <= runs'[q]
                 /\ tail'[<<q, k>>].at = "open" <=> Streaming(q)' /\ k = runs'[q]
      <4>1. <<q, k>> \in Runs
        BY DEF Runs
      <4>2. CASE <<q, k>> = r
        <5>1. q = p /\ k = runs[p] /\ tail'[<<q, k>>] = t
          BY <2>3, <4>2 DEF Current
        <5>2. Streaming(p)' <=> StreamPauses(p)
          BY <2>4 DEF Streaming
        <5>3. k <= runs'[q]
          BY <1>0, <2>4, <5>1 DEF TypeOK
        <5> QED
          BY <2>2, <2>4, <5>1, <5>2, <5>3
      <4>3. CASE <<q, k>> # r
        <5>1. tail'[<<q, k>>] = tail[<<q, k>>] /\ runs' = runs
          BY <2>3, <2>4, <4>1, <4>3
        <5>2. q = p => k # runs[p]
          BY <4>3 DEF Current
        <5>3. q # p => (Streaming(q)' <=> Streaming(q))
          BY <1>0, <2>4 DEF TypeOK, Streaming
        <5> QED
          BY <1>0, <5>1, <5>2, <5>3 DEF RunsShape
      <4> QED
        BY <4>2, <4>3
    <3>4. \A s \in Runs : tail'[s].at \in {"history", "count"} => tail'[s].writes # <<>>
      BY <1>0, <2>2, <2>3 DEF RunsShape
    <3> QED
      BY <3>1, <3>2, <3>3, <3>4 DEF RunsShape
  <2> QED
    BY <2>5, <2>6 DEF TurnInv
<1>5. ASSUME NEW r \in Runs, TailStep(r) PROVE TurnInv'
  <2>1. PICK t \in Task : /\ tail' = [tail EXCEPT ![r] = t] /\ t.at \in {"history", "count", "done"}
                          /\ t.at # "done" => t.writes # <<>>
    BY <1>5, PersistTask
  <2>2. tail' \in [Runs -> Task] /\ tail'[r] = t /\ \A s \in Runs : s # r => tail'[s] = tail[s]
    BY <1>0, <2>1, OneTask
  <2>3. Persisting(r)
    BY <1>5, PersistTask
  <2>4. /\ UNCHANGED <<pc, runs, object, cancelled, granted, executed, live, token, made, saved, torn, calm>>
        /\ history' \in [Objects -> Seq(Message)] /\ count' \in [Objects -> Nat]
    <3>1. CASE TailCounts(r)
      BY <1>0, <3>1 DEF TailCounts, turnVars, sessionVars, TypeOK
    <3>2. CASE TailAppends(r)
      <4>1. object[r[1]] \in Objects /\ history[object[r[1]]] \in Seq(Message)
        BY <1>0, TypeFacts
      <4>2. tail[r].writes \in Seq(Seq(Message)) /\ tail[r].writes # <<>>
        BY <1>0, <3>2, TypeFacts DEF TailAppends, RunsShape, Batches
      <4>3. Head(tail[r].writes) \in Seq(Message)
        BY <4>2, HeadTailProperties
      <4>4. history[object[r[1]]] \o Head(tail[r].writes) \in Seq(Message)
        BY <4>1, <4>3, ConcatProperties
      <4> QED
        BY <1>0, <3>2, <4>1, <4>4 DEF TailAppends, turnVars, TypeOK
    <3>3. CASE TailRecounts(r)
      <4>1. object[r[1]] \in Objects /\ count[object[r[1]]] \in Nat
        BY <1>0, TypeFacts
      <4>2. tail[r].writes \in Seq(Seq(Message)) /\ tail[r].writes # <<>>
        BY <1>0, <3>3, TypeFacts DEF TailRecounts, RunsShape, Batches
      <4>3. Head(tail[r].writes) \in Seq(Message)
        BY <4>2, HeadTailProperties
      <4>4. count[object[r[1]]] + Len(Head(tail[r].writes)) \in Nat
        BY <4>1, <4>3, LenProperties
      <4> QED
        BY <1>0, <3>3, <4>1, <4>4 DEF TailRecounts, turnVars, TypeOK
    <3> QED
      BY <1>5, <3>1, <3>2, <3>3 DEF TailStep
  <2>5. TypeOK'
    BY <1>0, <2>2, <2>4 DEF TypeOK, Task, Batches
  <2>6. RunsShape'
    <3>1. ASSUME NEW q \in Prompts, NEW k \in 1..MaxRuns
          PROVE  /\ tail'[<<q, k>>].at # "none" <=> tail[<<q, k>>].at # "none"
                 /\ tail'[<<q, k>>].at = "open" <=> tail[<<q, k>>].at = "open"
      <4>1. <<q, k>> \in Runs
        BY DEF Runs
      <4>2. CASE <<q, k>> = r
        BY <2>1, <2>2, <2>3, <4>2 DEF Persisting
      <4>3. CASE <<q, k>> # r
        BY <2>2, <4>1, <4>3
      <4> QED
        BY <4>2, <4>3
    <3>2. \A s \in Runs : tail'[s].at \in {"history", "count"} => tail'[s].writes # <<>>
      BY <1>0, <2>1, <2>2 DEF RunsShape
    <3> QED
      BY <1>0, <2>4, <3>1, <3>2 DEF RunsShape, Streaming
  <2> QED
    BY <2>5, <2>6 DEF TurnInv
<1>6. CASE Cancel \/ RemoveSession
  <2>1. /\ UNCHANGED <<pc, object, runs, granted, executed, history, count, made, tail, saved, torn, calm>>
        /\ live' \in 0..made' /\ token' \in Prompts \cup {None}
        /\ cancelled' \in [Prompts -> BOOLEAN]
    <3>1. 0 \in 0..made
      BY <1>0 DEF TypeOK, Objects
    <3>2. CASE Cancel
      BY <1>0, <3>2 DEF Cancel, TypeOK
    <3>3. CASE RemoveSession
      BY <1>0, <3>1, <3>3 DEF RemoveSession, TypeOK
    <3> QED
      BY <1>6, <3>2, <3>3
  <2>2. TypeOK'
    BY <1>0, <2>1 DEF TypeOK
  <2>3. RunsShape'
    BY <2>1, ShapeKept DEF Streaming
  <2> QED
    BY <2>2, <2>3 DEF TurnInv
<1>7. CASE UNCHANGED vars
  <2>1. TypeOK'
    BY <1>0, <1>7 DEF TypeOK, vars
  <2>2. RunsShape'
    BY <1>7, ShapeKept DEF vars, Streaming
  <2> QED
    BY <2>1, <2>2 DEF TurnInv
<1> QED
  BY <1>1, <1>2, <1>3, <1>4, <1>5, <1>6, <1>7 DEF Next, TurnStep, AllDone

\* Type correctness, with the numbering of runs.
THEOREM TypeCorrect == TurnConstants => (Spec => []TypeOK)
<1> SUFFICES ASSUME TurnConstants PROVE Spec => []TypeOK
  OBVIOUS
<1>1. TurnInv => TypeOK
  BY DEF TurnInv
<1> QED
  BY <1>1, TurnInit, TurnStepInv, PTL DEF Spec

-----------------------------------------------------------------------------
(* Cancel tokens.                                                           *)

LEMMA TokenInit == Init => TokenOwned
  BY DEF Init, TokenOwned

LEMMA TokenStep == TypeOK /\ TokenOwned /\ [Next]_vars => TokenOwned'
<1> SUFFICES ASSUME TypeOK, TokenOwned, [Next]_vars PROVE TokenOwned'
  OBVIOUS
<1>1. ASSUME NEW p \in Prompts, Prompt(p) PROVE TokenOwned'
  BY <1>1 DEF Prompt, TokenOwned, TypeOK
<1>2. ASSUME NEW p \in Prompts, TurnStep(p) PROVE TokenOwned'
  <2>1. CASE Clear(p)
    BY <2>1 DEF Clear, TokenOwned
  <2>2. CASE ~Clear(p)
    <3>1. token' = token /\ \E w : w \notin {"unsent", "done"} /\ pc' = [pc EXCEPT ![p] = w]
      BY <1>2, <2>2 DEF TurnStep, StopCancelled, RunFails, OpenRun, StreamStops, StreamPauses, Decide,
                        Save, SaveFails, Goto, sessionVars
    <3> QED
      BY <3>1 DEF TokenOwned, TypeOK
  <2> QED
    BY <2>1, <2>2
<1>3. ASSUME NEW r \in Runs, TailStep(r) PROVE TokenOwned'
  BY <1>3 DEF TailStep, TailCounts, TailAppends, TailRecounts, sessionVars, TokenOwned
<1>4. CASE Cancel \/ RemoveSession
  BY <1>4 DEF Cancel, RemoveSession, TokenOwned
<1>5. CASE UNCHANGED vars
  BY <1>5 DEF vars, TokenOwned
<1> QED
  BY <1>1, <1>2, <1>3, <1>4, <1>5 DEF Next, AllDone

\* However turns overlap and sessions are removed, a registered token belongs to
\* a turn that still runs.
THEOREM TokensOwned == TurnConstants => (Spec => []TokenOwned)
<1> SUFFICES ASSUME TurnConstants PROVE Spec => []TokenOwned
  OBVIOUS
<1>1. TurnInv => TypeOK
  BY DEF TurnInv
<1> QED
  BY <1>1, TokenInit, TokenStep, TurnInit, TurnStepInv, PTL DEF Spec

-----------------------------------------------------------------------------
(* One turn at a time.                                                      *)

Active(p) == pc[p] \notin {"unsent", "done"}
Busy(r) == tail[r].at = "open" \/ Persisting(r)

\* One turn is active and one task at work; a turn that is active while a task
\* of another one is still at work has not run the agent yet.
Serial ==
  /\ \A p, q \in Prompts : Active(p) /\ Active(q) => p = q
  /\ \A r, s \in Runs : Busy(r) /\ Busy(s) => r = s
  /\ \A r \in Runs, p \in Prompts : Busy(r) /\ Active(p) => p = r[1]

LEMMA SerialKept ==
  ASSUME Serial,
         \A p \in Prompts : Active(p)' => Active(p),
         \A r \in Runs : Busy(r)' => Busy(r)
  PROVE  Serial'
<1>1. \A p, q \in Prompts : Active(p)' /\ Active(q)' => p = q
  BY DEF Serial
<1>2. \A r, s \in Runs : Busy(r)' /\ Busy(s)' => r = s
  BY DEF Serial
<1>3. \A r \in Runs, p \in Prompts : Busy(r)' /\ Active(p)' => p = r[1]
  BY DEF Serial
<1> QED
  BY <1>1, <1>2, <1>3 DEF Serial

\* The first run of a turn is opened when no task is at work.
LEMMA NothingBusy ==
  ASSUME TurnConstants, TurnInv, Serial, NEW p \in Prompts, pc[p] = "top", runs[p] = 0
  PROVE  \A r \in Runs : ~Busy(r)
<1> SUFFICES ASSUME NEW r \in Runs, Busy(r) PROVE FALSE
  OBVIOUS
<1>1. r[1] = p /\ r = <<r[1], r[2]>> /\ r[2] \in 1..MaxRuns
  BY DEF Serial, Active, Runs
<1>2. tail[r].at = "none"
  BY <1>1 DEF TurnInv, RunsShape, TurnConstants
<1> QED
  BY <1>2 DEF Busy, Persisting

\* The steps of a smooth session come from a smooth session, and the only runs
\* are first runs.
LEMMA SmoothBefore ==
  ASSUME TurnConstants, TurnInv, [Next]_vars, Smooth'
  PROVE  Smooth
<1>1. UNCHANGED calm
  BY DEF Next, Prompt, TurnStep, StopCancelled, RunFails, OpenRun, StreamStops, StreamPauses, Decide, Save,
         SaveFails, Clear, TailStep, TailCounts, TailAppends, TailRecounts, Cancel, RemoveSession, AllDone, vars
<1>3. torn => torn'
  BY DEF Next, Prompt, TurnStep, StopCancelled, RunFails, OpenRun, StreamStops, StreamPauses, Decide, Save,
         SaveFails, Clear, TailStep, TailCounts, TailAppends, TailRecounts, Cancel, RemoveSession, AllDone, vars,
         sessionVars
<1>4. UNCHANGED runs \/ \E p \in Prompts : runs' = [runs EXCEPT ![p] = @ + 1]
  BY DEF Next, Prompt, TurnStep, StopCancelled, RunFails, OpenRun, StreamStops, StreamPauses, Decide, Save,
         SaveFails, Clear, TailStep, TailCounts, TailAppends, TailRecounts, Cancel, RemoveSession, AllDone, vars
<1>5. \A p \in Prompts : runs[p] <= 1
  <2>1. runs \in [Prompts -> 0..MaxRuns] /\ MaxRuns \in Nat
    BY DEF TurnInv, TypeOK, TurnConstants
  <2>2. \A p \in Prompts : runs'[p] <= 1
    BY DEF Smooth
  <2> QED
    BY <1>4, <2>1, <2>2
<1> QED
  BY <1>1, <1>3, <1>5 DEF Smooth

LEMMA FirstRun ==
  ASSUME TurnConstants, TurnInv, Smooth, NEW r \in Runs, tail[r].at # "none"
  PROVE  r[2] = 1 /\ r = <<r[1], 1>> /\ r[1] \in Prompts
<1>1. r[1] \in Prompts /\ r[2] \in 1..MaxRuns /\ r = <<r[1], r[2]>>
  BY DEF Runs
<1>2. r[2] <= runs[r[1]] /\ runs[r[1]] <= 1
  BY <1>1 DEF TurnInv, RunsShape, Smooth
<1>3. runs[r[1]] \in 0..MaxRuns
  BY <1>1 DEF TurnInv, TypeOK
<1> QED
  BY <1>1, <1>2, <1>3 DEF TurnConstants

\* A run is only opened as the first of its turn.
LEMMA FirstOpened ==
  ASSUME TurnConstants, TurnInv, Smooth', NEW p \in Prompts, OpenRun(p)
  PROVE  runs[p] = 0
<1>1. runs \in [Prompts -> 0..MaxRuns] /\ MaxRuns \in Nat
  BY DEF TurnInv, TypeOK, TurnConstants
<1>2. runs' = [runs EXCEPT ![p] = @ + 1] /\ runs'[p] <= 1
  BY DEF OpenRun, Smooth
<1> QED
  BY <1>1, <1>2

LEMMA SerialStep ==
  ASSUME TurnConstants, TurnInv, Smooth, Smooth', Serial, [Next]_vars
  PROVE  Serial'
<1>0. TypeOK /\ tail \in [Runs -> Task]
  BY DEF TurnInv, TypeOK, Task, Batches
<1>1. ASSUME NEW p \in Prompts, Prompt(p) PROVE Serial'
  <2>1. /\ \A q \in Prompts : ~Active(q)
        /\ \A r \in Runs : ~Persisting(r)
        /\ pc' = [pc EXCEPT ![p] = "top"] /\ UNCHANGED tail
    BY <1>1 DEF Prompt, Active, Goto, Smooth, Quiet
  <2>2. \A q \in Prompts : Active(q)' => q = p
    BY <1>0, <2>1 DEF Active, TypeOK
  <2>3. \A r \in Runs : ~Busy(r)
    <3> SUFFICES ASSUME NEW r \in Runs, tail[r].at = "open" PROVE FALSE
      BY <2>1 DEF Busy
    <3>1. r[1] \in Prompts /\ r[2] \in 1..MaxRuns /\ r = <<r[1], r[2]>>
      BY DEF Runs
    <3>2. Streaming(r[1])
      BY <3>1 DEF TurnInv, RunsShape
    <3> QED
      BY <2>1, <3>1, <3>2 DEF Streaming, Active
  <2>4. \A r \in Runs : ~Busy(r)'
    BY <2>1, <2>3 DEF Busy, Persisting
  <2> QED
    BY <2>2, <2>4 DEF Serial
<1>2. ASSUME NEW p \in Prompts,
             StopCancelled(p) \/ RunFails(p) \/ Save(p) \/ SaveFails(p) \/ Clear(p)
      PROVE  Serial'
  <2>1. /\ pc[p] \in {"top", "save", "clear"} /\ \E w : pc' = [pc EXCEPT ![p] = w]
        /\ UNCHANGED <<runs, tail>>
    BY <1>2 DEF StopCancelled, RunFails, Save, SaveFails, Clear, Goto
  <2>2. \A q \in Prompts : Active(q)' => Active(q)
    BY <1>0, <2>1 DEF Active, TypeOK
  <2>3. \A r \in Runs : Busy(r)' => Busy(r)
    BY <2>1 DEF Busy, Persisting
  <2> QED
    BY <2>1, <2>2, <2>3, SerialKept
<1>3. ASSUME NEW p \in Prompts, OpenRun(p) PROVE Serial'
  <2> DEFINE r == <<p, runs[p] + 1>>
             t == [NoTail EXCEPT !.at = "open", !.request = Asked(p)]
  <2>1. r \in Runs /\ t \in Task /\ tail' = [tail EXCEPT ![r] = t]
    BY <1>3, OpenTask
  <2>2. \A s \in Runs : s # r => tail'[s] = tail[s]
    BY <1>0, <2>1, OneTask
  <2>3. \A s \in Runs : ~Busy(s)
    BY <1>3, FirstOpened, NothingBusy DEF OpenRun
  <2>4. \A s \in Runs : Busy(s)' => s = r
    BY <2>2, <2>3 DEF Busy, Persisting
  <2>5. Active(p) /\ pc' = [pc EXCEPT ![p] = "streaming"] /\ r[1] = p
    BY <1>3 DEF OpenRun, Goto, Active
  <2>6. \A q \in Prompts : Active(q)' => q = p
    <3>1. \A q \in Prompts : Active(q)' => Active(q)
      BY <1>0, <2>5 DEF Active, TypeOK
    <3> QED
      BY <2>5, <3>1 DEF Serial
  <2> HIDE DEF r
  <2> QED
    BY <2>4, <2>5, <2>6 DEF Serial
<1>4. ASSUME NEW p \in Prompts, StreamStops(p) \/ StreamPauses(p) \/ Decide(p) PROVE Serial'
  <2>1. /\ Streaming(p) /\ Current(p) \in Runs /\ tail[Current(p)].at = "open"
        /\ \E t \in Task : tail' = [tail EXCEPT ![Current(p)] = t]
    BY <1>4, StreamTask
  <2>2. \A s \in Runs : s # Current(p) => tail'[s] = tail[s]
    BY <1>0, <2>1, OneTask
  <2>3. \A s \in Runs : Busy(s)' => Busy(s)
    BY <2>1, <2>2 DEF Busy, Persisting
  <2>4. \E w : pc' = [pc EXCEPT ![p] = w]
    BY <1>4 DEF StreamStops, StreamPauses, Decide, Goto
  <2>5. \A q \in Prompts : Active(q)' => Active(q)
    BY <1>0, <2>1, <2>4 DEF Active, TypeOK, Streaming
  <2> QED
    BY <2>3, <2>4, <2>5, SerialKept
<1>5. ASSUME NEW r \in Runs, TailStep(r) PROVE Serial'
  <2>1. /\ Persisting(r)
        /\ \E t \in Task : tail' = [tail EXCEPT ![r] = t]
    BY <1>5, PersistTask
  <2>2. \A s \in Runs : s # r => tail'[s] = tail[s]
    BY <1>0, <2>1, OneTask
  <2>3. \A s \in Runs : Busy(s)' => Busy(s)
    BY <2>1, <2>2 DEF Busy, Persisting
  <2>4. UNCHANGED pc
    BY <1>5 DEF TailStep, TailCounts, TailAppends, TailRecounts
  <2> QED
    BY <2>3, <2>4, SerialKept DEF Active
<1>6. CASE Cancel \/ RemoveSession \/ UNCHANGED vars
  <2>1. UNCHANGED <<pc, runs, tail>>
    BY <1>6 DEF Cancel, RemoveSession, vars
  <2> QED
    BY <2>1, SerialKept DEF Active, Busy, Persisting
<1> QED
  BY <1>1, <1>2, <1>3, <1>4, <1>5, <1>6 DEF Next, TurnStep, AllDone

-----------------------------------------------------------------------------
(* What a task has to write.                                                *)

\* Of a request that goes beyond the counted messages by one question, that
\* question is new; of one that does not, nothing.
LEMMA FreshQuestion ==
  ASSUME NEW ms \in Seq(Message), NEW p \in Prompts
  PROVE  /\ Fresh(ms \o <<Question(p)>>, Len(ms)) = <<Question(p)>>
         /\ Fresh(ms \o <<>>, Len(ms)) = <<>>
<1> DEFINE n == Len(ms)
           more == ms \o <<Question(p)>>
<1>1. n \in Nat /\ DOMAIN ms = 1..n
  BY LenProperties
<1>2. /\ DOMAIN more = 1 .. n + 1 /\ more[n + 1] = Question(p)
  <2>1. more \in Seq(Message) /\ Len(more) = n + 1 /\ more[n + 1] = Question(p)
    BY MessageFacts, ConcatProperties
  <2> QED
    BY <2>1, LenProperties
<1>3. ms \o <<>> = ms
  BY ConcatEmptySeq
<1> HIDE DEF more
<1>4. Fresh(ms, n) = <<>>
  <2> DEFINE S == {i \in DOMAIN ms : i > n /\ IsQuestion(ms[i])}
             pick(k) == CHOOSE i \in S : Cardinality({j \in S : j < i}) = k - 1
  <2>1. Fresh(ms, n) = [k \in 1..Cardinality(S) |-> ms[pick(k)]]
    BY DEF Fresh
  <2>2. S = {}
    BY <1>1
  <2> HIDE DEF S
  <2>3. Cardinality(S) = 0
    BY <2>2, FS_EmptySet
  <2> HIDE DEF pick
  <2> QED
    BY <2>1, <2>3
<1>5. Fresh(more, n) = <<Question(p)>>
  <2> DEFINE S == {i \in DOMAIN more : i > n /\ IsQuestion(more[i])}
             pick(k) == CHOOSE i \in S : Cardinality({j \in S : j < i}) = k - 1
  <2>1. Fresh(more, n) = [k \in 1..Cardinality(S) |-> more[pick(k)]]
    BY DEF Fresh
  <2>2. S = {n + 1}
    BY <1>1, <1>2, MessageFacts
  <2> HIDE DEF S
  <2>3. Cardinality(S) = 1
    BY <2>2, FS_Singleton
  <2>4. {j \in S : j < n + 1} = {}
    BY <1>1, <2>2
  <2>5. Cardinality({j \in S : j < n + 1}) = 1 - 1
    <3>1. Cardinality({j \in S : j < n + 1}) = Cardinality({})
      BY <2>4
    <3> QED
      BY <3>1, FS_EmptySet
  <2>6. pick(1) = n + 1
    <3>1. n + 1 \in S
      BY <2>2
    <3>2. pick(1) \in S
      BY <2>5, <3>1
    <3> QED
      BY <2>2, <3>2
  <2> HIDE DEF pick
  <2> QED
    BY <1>2, <2>1, <2>3, <2>6
<1> QED
  BY <1>3, <1>4, <1>5 DEF more

Opening(r) == IF r[2] = 1 THEN <<Question(r[1])>> ELSE <<>>
AnswerWrites(p) == {<<<<a>>>> : a \in Answers(p)}
OpeningWrites(p) ==
  {<<<<Question(p)>>>>} \cup {<<<<Question(p)>>, <<a>>>> : a \in Answers(p)}
WritesOf(r) == AnswerWrites(r[1]) \cup (IF r[2] = 1 THEN OpeningWrites(r[1]) ELSE {})

LEMMA AnswerFacts ==
  ASSUME NEW p \in Prompts, NEW a \in Answers(p)
  PROVE  /\ a \in Message /\ a.turn = p /\ ~IsQuestion(a) /\ <<a>> \in Seq(Message)
         /\ <<a>> # <<Question(p)>> /\ Len(<<a>>) = 1
<1>1. a \in Message /\ a.turn = p /\ a.role = "assistant"
  BY DEF Answers, Message
<1>2. a # Question(p)
  BY <1>1 DEF Question
<1> QED
  BY <1>1, <1>2 DEF IsQuestion

\* A task writes one message at a time, a question before the answer.
LEMMA WritesFacts ==
  ASSUME NEW r \in Runs, NEW w \in WritesOf(r)
  PROVE  \/ \E a \in Answers(r[1]) : Head(w) = <<a>> /\ Tail(w) = <<>>
         \/ /\ r[2] = 1 /\ Head(w) = <<Question(r[1])>>
            /\ Tail(w) = <<>> \/ Tail(w) \in AnswerWrites(r[1])
<1> DEFINE q == <<Question(r[1])>>
<1>1. ASSUME NEW a \in Answers(r[1]), w = <<<<a>>>> PROVE Head(w) = <<a>> /\ Tail(w) = <<>>
  BY <1>1
<1>2. ASSUME w = <<q>> PROVE Head(w) = q /\ Tail(w) = <<>>
  BY <1>2
<1>3. ASSUME NEW a \in Answers(r[1]), w = <<q, <<a>>>> PROVE Head(w) = q /\ Tail(w) = <<<<a>>>>
  <2> DEFINE b == <<a>>
  <2> HIDE DEF b, q
  <2> QED
    BY <1>3 DEF b
<1>4. \A a \in Answers(r[1]) : <<<<a>>>> \in AnswerWrites(r[1])
  BY DEF AnswerWrites
<1>5. \/ \E a \in Answers(r[1]) : w = <<<<a>>>>
      \/ r[2] = 1 /\ w = <<q>>
      \/ r[2] = 1 /\ \E a \in Answers(r[1]) : w = <<q, <<a>>>>
  BY DEF WritesOf, AnswerWrites, OpeningWrites
<1> QED
  BY <1>1, <1>2, <1>3, <1>4, <1>5

LEMMA Pair == ASSUME NEW x, NEW y PROVE <<x>> \o <<y>> = <<x, y>>
<1> DEFINE S == {x, y}
           both == <<x>> \o <<y>>
<1>1. <<x>> \in Seq(S) /\ <<y>> \in Seq(S) /\ <<x, y>> \in Seq(S) /\ Len(<<x>>) = 1 /\ Len(<<y>>) = 1
  OBVIOUS
<1> HIDE DEF S
<1>2. both \in Seq(S) /\ Len(both) = 2 /\ both[1] = x /\ both[2] = y
  <2>1. <<x>>[1] = x /\ <<y>>[1] = y
    OBVIOUS
  <2> QED
    BY <1>1, <2>1, ConcatProperties
<1> HIDE DEF both
<1>3. Len(<<x, y>>) = 2 /\ <<x, y>>[1] = x /\ <<x, y>>[2] = y
  OBVIOUS
<1>4. both = <<x, y>>
  BY <1>1, <1>2, <1>3, SeqEqual
<1> QED
  BY <1>4 DEF both

LEMMA BatchesOf ==
  ASSUME NEW r \in Runs, NEW reply \in Replies(r[1])
  PROVE  LET w == Batch(Opening(r)) \o Batch(reply)
         IN  /\ w = <<>> \/ w \in WritesOf(r)
             /\ r[2] = 1 => w # <<>> /\ Head(w) = <<Question(r[1])>>
<1> DEFINE w == Batch(Opening(r)) \o Batch(reply)
           q == Question(r[1])
<1>1. CASE reply = <<>>
  <2>1. Batch(reply) = <<>>
    BY <1>1 DEF Batch
  <2>2. CASE r[2] = 1
    <3>1. Batch(Opening(r)) = <<<<q>>>>
      BY <2>2 DEF Batch, Opening
    <3>2. w = <<<<q>>>>
      BY <2>1, <3>1
    <3> QED
      BY <2>2, <3>2 DEF WritesOf, OpeningWrites
  <2>3. CASE r[2] # 1
    <3>1. Batch(Opening(r)) = <<>>
      BY <2>3 DEF Batch, Opening
    <3> QED
      BY <2>1, <2>3, <3>1
  <2> QED
    BY <2>2, <2>3
<1>2. ASSUME NEW a \in Answers(r[1]), reply = <<a>>
      PROVE  (w = <<>> \/ w \in WritesOf(r)) /\ (r[2] = 1 => w # <<>> /\ Head(w) = <<q>>)
  <2>1. Batch(reply) = <<<<a>>>>
    BY <1>2 DEF Batch
  <2>2. CASE r[2] = 1
    <3>1. Batch(Opening(r)) = <<<<q>>>>
      BY <2>2 DEF Batch, Opening
    <3>2. w = <<<<q>>, <<a>>>>
      BY <2>1, <3>1, Pair
    <3> QED
      BY <2>2, <3>2 DEF WritesOf, OpeningWrites
  <2>3. CASE r[2] # 1
    <3>1. Batch(Opening(r)) = <<>>
      BY <2>3 DEF Batch, Opening
    <3>2. w = <<<<a>>>>
      BY <2>1, <3>1
    <3> QED
      BY <2>3, <3>2 DEF WritesOf, AnswerWrites
  <2> QED
    BY <2>2, <2>3
<1> QED
  BY <1>1, <1>2 DEF Replies

-----------------------------------------------------------------------------
(* What the tasks know of their session.                                    *)

\* The metadata counts the messages, save for what a task has just appended.
Counted ==
  /\ \A o \in Objects : \/ count[o] = Len(history[o])
                        \/ \E r \in Runs : object[r[1]] = o /\ tail[r].at = "count"
  /\ \A r \in Runs : tail[r].at = "count" =>
       Len(history[object[r[1]]]) = count[object[r[1]]] + Len(Head(tail[r].writes))

\* A task that has not counted yet has asked what the session still holds.
Requested ==
  \A r \in Runs : tail[r].at \in {"open", "start"} =>
    /\ tail[r].request = history[object[r[1]]] \o Opening(r)
    /\ tail[r].reply \in Replies(r[1])

ToWrite == \A r \in Runs : tail[r].at \in {"history", "count"} => tail[r].writes \in WritesOf(r)

Work == Counted /\ Requested /\ ToWrite

\* Where nobody writes to a session, a copy of it is the whole session.
LEMMA WholeCopy ==
  ASSUME NEW o, NEW s \in Snapshots(o), \A r \in Runs : tail[r].at \notin {"history", "count"}
  PROVE  s.messages = history[o] /\ s.count = count[o]
  BY DEF Snapshots, Writing

LEMMA CountedWhole ==
  ASSUME Work, NEW o \in Objects, \A r \in Runs : tail[r].at # "count"
  PROVE  count[o] = Len(history[o])
  BY DEF Work, Counted

\* Tasks and histories that a step leaves alone.
LEMMA WorkKept ==
  ASSUME Work, UNCHANGED <<tail, history, count, object>>
  PROVE  Work'
  BY DEF Work, Counted, Requested, ToWrite, Opening

LEMMA WorkPrompt ==
  ASSUME TurnConstants, TurnInv, Smooth', Work, NEW p \in Prompts, Prompt(p)
  PROVE  Work'
<1> DEFINE o == IF live = 0 THEN NextObject ELSE live
<1>0. TypeOK
  BY DEF TurnInv
<1>1. /\ UNCHANGED <<tail, saved, runs>> /\ pc[p] = "unsent" /\ object' = [object EXCEPT ![p] = o]
      /\ IF live = 0 THEN /\ history' = [history EXCEPT ![o] = saved.messages]
                          /\ count' = [count EXCEPT ![o] = saved.count] /\ o = made + 1
                          /\ saved.count = Len(saved.messages)
         ELSE UNCHANGED <<history, count>>
  BY DEF Prompt, Loaded, NextObject, Smooth
<1> HIDE DEF o
<1>2. ASSUME NEW r \in Runs, tail[r].at # "none"
      PROVE  /\ object'[r[1]] = object[r[1]]
             /\ history'[object[r[1]]] = history[object[r[1]]] /\ count'[object[r[1]]] = count[object[r[1]]]
  <2>1. r[1] \in Prompts /\ r[2] \in 1..MaxRuns /\ r = <<r[1], r[2]>>
    BY <1>0, TypeFacts
  <2>2. r[2] <= runs[r[1]]
    BY <1>2, <2>1 DEF TurnInv, RunsShape
  <2>3. r[1] # p
    BY <1>0, <1>1, <2>1, <2>2 DEF TurnInv, RunsShape, TypeOK, TurnConstants
  <2>4. object[r[1]] \in 1..MaxObjects /\ object[r[1]] <= made /\ made \in Nat
    BY <1>0, <2>1 DEF TurnInv, RunsShape, TypeOK, Objects
  <2>5. object'[r[1]] = object[r[1]]
    BY <1>0, <1>1, <2>1, <2>3 DEF TypeOK
  <2>6. live = 0 => object[r[1]] # o
    BY <1>1, <2>4
  <2> QED
    BY <1>0, <1>1, <2>4, <2>5, <2>6 DEF TypeOK, Objects
<1>3. Counted'
  <2>1. ASSUME NEW n \in Objects
        PROVE  count'[n] = Len(history'[n]) \/ \E r \in Runs : object'[r[1]] = n /\ tail'[r].at = "count"
    <3>1. CASE live = 0 /\ n = o
      BY <1>0, <1>1, <3>1 DEF TypeOK, Work, Counted
    <3>2. CASE ~(live = 0 /\ n = o)
      <4>1. history'[n] = history[n] /\ count'[n] = count[n]
        BY <1>0, <1>1, <3>2 DEF TypeOK
      <4>2. CASE \E r \in Runs : object[r[1]] = n /\ tail[r].at = "count"
        BY <1>1, <1>2, <4>2
      <4> QED
        BY <4>1, <4>2 DEF Work, Counted
    <3> QED
      BY <3>1, <3>2
  <2>2. \A r \in Runs : tail'[r].at = "count" =>
          Len(history'[object'[r[1]]]) = count'[object'[r[1]]] + Len(Head(tail'[r].writes))
    BY <1>1, <1>2 DEF Work, Counted
  <2> QED
    BY <1>1, <2>1, <2>2 DEF Work, Counted
<1>4. Requested'
  BY <1>1, <1>2 DEF Work, Requested, Opening
<1>5. ToWrite'
  BY <1>1 DEF Work, ToWrite
<1> QED
  BY <1>3, <1>4, <1>5 DEF Work

LEMMA WorkOpen ==
  ASSUME TurnConstants, TurnInv, Smooth', Serial, Work, NEW p \in Prompts, OpenRun(p)
  PROVE  Work'
<1> DEFINE r == <<p, runs[p] + 1>>
           t == [NoTail EXCEPT !.at = "open", !.request = Asked(p)]
<1>0. TypeOK
  BY DEF TurnInv
<1>1. /\ r \in Runs /\ t \in Task /\ t.at = "open" /\ t.request = Asked(p) /\ t.reply = <<>>
      /\ tail' = [tail EXCEPT ![r] = t]
  BY OpenTask
<1>2. /\ r[1] = p /\ Asked(p) = history[object[p]] \o Opening(r)
  <2>1. r[1] = p /\ r[2] = runs[p] + 1 /\ (runs[p] = 0 <=> r[2] = 1)
    BY <1>0 DEF TypeOK
  <2> HIDE DEF r
  <2> QED
    BY <2>1 DEF Asked, Opening
<1> HIDE DEF t, r
<1>3. tail'[r] = t /\ \A s \in Runs : s # r => tail'[s] = tail[s]
  BY <1>0, <1>1, OneTask
<1>4. \A s \in Runs : ~Busy(s)
  BY FirstOpened, NothingBusy DEF OpenRun
<1>5. UNCHANGED <<object, history, count>>
  BY DEF OpenRun, sessionVars
<1>6. \A s \in Runs : s # r => tail'[s].at \notin {"open", "start", "history", "count"}
  BY <1>3, <1>4 DEF Busy, Persisting
<1>7. Counted'
  <2>1. \A o \in Objects : count[o] = Len(history[o])
    BY <1>4, CountedWhole DEF Busy, Persisting
  <2>2. \A s \in Runs : tail'[s].at # "count"
    BY <1>1, <1>3, <1>6
  <2> QED
    BY <1>5, <2>1, <2>2 DEF Work, Counted
<1>8. Requested'
  <2>1. t.reply \in Replies(p)
    BY <1>1 DEF Replies
  <2>2. tail'[r].request = history'[object'[r[1]]] \o Opening(r) /\ tail'[r].reply \in Replies(r[1])
    BY <1>1, <1>2, <1>3, <1>5, <2>1
  <2> QED
    BY <1>6, <2>2 DEF Requested, Opening
<1>9. ToWrite'
  BY <1>1, <1>3, <1>6 DEF ToWrite
<1> QED
  BY <1>7, <1>8, <1>9 DEF Work

LEMMA WorkStream ==
  ASSUME TurnConstants, TurnInv, Work, NEW p \in Prompts,
         StreamStops(p) \/ StreamPauses(p) \/ Decide(p)
  PROVE  Work'
<1> DEFINE r == Current(p)
<1>0. TypeOK
  BY DEF TurnInv
<1>1. r \in Runs /\ tail[r].at = "open" /\ r[1] = p
  BY StreamTask DEF Current
<1>2. PICK t \in Task : /\ tail' = [tail EXCEPT ![r] = t] /\ t.request = tail[r].request
                        /\ t.at \in {"open", "start"}
                        /\ t.reply \in Replies(p) \/ t.reply = tail[r].reply
  BY StreamTask
<1> HIDE DEF r
<1>3. tail'[r] = t /\ \A s \in Runs : s # r => tail'[s] = tail[s]
  BY <1>0, <1>1, <1>2, OneTask
<1>4. UNCHANGED <<object, history, count, saved>>
  BY DEF StreamStops, StreamPauses, Decide, turnVars, sessionVars
<1>5. Counted'
  <2>1. \A s \in Runs : tail[s].at = "count" => s # r
    BY <1>1
  <2>2. \A s \in Runs : tail'[s].at = "count" => s # r
    BY <1>2, <1>3
  <2> QED
    BY <1>3, <1>4, <2>1, <2>2 DEF Work, Counted
<1>6. Requested'
  <2>1. tail'[r].request = history'[object'[r[1]]] \o Opening(r) /\ tail'[r].reply \in Replies(r[1])
    BY <1>1, <1>2, <1>3, <1>4 DEF Work, Requested
  <2> QED
    BY <1>3, <1>4, <2>1 DEF Work, Requested, Opening
<1>7. ToWrite'
  BY <1>2, <1>3 DEF Work, ToWrite
<1> QED
  BY <1>5, <1>6, <1>7 DEF Work

LEMMA WorkCounts ==
  ASSUME TurnConstants, TurnInv, Serial, Work, NEW r \in Runs, TailCounts(r)
  PROVE  /\ Work'
         /\ tail[r].at = "start" /\ UNCHANGED <<history, count, saved, object, pc, runs>>
         /\ \A s \in Runs : s # r => tail'[s] = tail[s]
         /\ tail'[r].at \in {"history", "done"}
         /\ r[2] = 1 => tail'[r].at = "history" /\ Head(tail'[r].writes) = <<Question(r[1])>>
<1> DEFINE o == object[r[1]]
           w == Batch(Opening(r)) \o Batch(tail[r].reply)
<1>0. TypeOK /\ o \in Objects /\ history[o] \in Seq(Message) /\ r[1] \in Prompts
      /\ tail[r] \in Task
  BY TypeFacts DEF TurnInv
<1>1. tail[r].at = "start" /\ UNCHANGED <<history, count, saved, object, pc, runs>>
  BY DEF TailCounts, turnVars, sessionVars
<1>2. \A s \in Runs : s # r => ~Busy(s)
  BY <1>1 DEF Serial, Busy, Persisting
<1>3. count[o] = Len(history[o])
  <2>1. \A s \in Runs : tail[s].at # "count"
    BY <1>1, <1>2 DEF Busy, Persisting
  <2> HIDE DEF o
  <2> QED
    BY <1>0, <2>1, CountedWhole
<1>4. tail[r].request = history[o] \o Opening(r) /\ tail[r].reply \in Replies(r[1])
  BY <1>1 DEF Work, Requested
<1>5. Fresh(tail[r].request, Len(history[o])) = Opening(r)
  <2> HIDE DEF o
  <2>1. CASE r[2] = 1
    BY <1>0, <1>4, <2>1, FreshQuestion DEF Opening
  <2>2. CASE r[2] # 1
    BY <1>0, <1>4, <2>2, FreshQuestion DEF Opening
  <2> QED
    BY <2>1, <2>2
<1>6. tail' = [tail EXCEPT ![r] = Left(w)]
  <2>1. PICK n \in {s.count : s \in Snapshots(o)} :
          tail' = [tail EXCEPT ![r] = Left(Batch(Fresh(tail[r].request, n)) \o Batch(tail[r].reply))]
    BY DEF TailCounts
  <2>2. \A s \in Runs : tail[s].at \notin {"history", "count"}
    BY <1>1, <1>2 DEF Busy, Persisting
  <2>3. n = Len(history[o])
    BY <1>3, <2>1, <2>2, WholeCopy
  <2> QED
    BY <1>5, <2>1, <2>3
<1>7. /\ w = <<>> \/ w \in WritesOf(r)
      /\ r[2] = 1 => w # <<>> /\ Head(w) = <<Question(r[1])>>
  BY <1>4, BatchesOf
<1>8. w \in Batches
  <2>1. Opening(r) \in Seq(Message)
    BY <1>0, MessageFacts DEF Opening
  <2>2. Batch(Opening(r)) \in Batches /\ Batch(tail[r].reply) \in Batches
    BY <1>0, <2>1, BatchType DEF Task
  <2> QED
    BY <2>2, ConcatProperties DEF Batches
<1> HIDE DEF w
<1>9. /\ Left(w) \in Task /\ Left(w).at \in {"history", "done"} /\ Left(w).writes = w
      /\ Left(w).at = "history" <=> w # <<>>
  BY <1>8, LeftType
<1>10. tail'[r] = Left(w) /\ \A s \in Runs : s # r => tail'[s] = tail[s]
  BY <1>0, <1>6, <1>9, OneTask
<1>11. \A s \in Runs : s # r => tail'[s].at \notin {"open", "start", "history", "count"}
  BY <1>2, <1>10 DEF Busy, Persisting
<1>12. Counted'
  <2>1. \A s \in Runs : tail'[s].at # "count" /\ tail[s].at # "count"
    BY <1>1, <1>2, <1>9, <1>10, <1>11 DEF Busy, Persisting
  <2> QED
    BY <1>1, <2>1 DEF Work, Counted
<1>13. Requested'
  BY <1>9, <1>10, <1>11 DEF Requested
<1>14. ToWrite'
  BY <1>7, <1>9, <1>10, <1>11 DEF ToWrite
<1> QED
  BY <1>1, <1>7, <1>9, <1>10, <1>12, <1>13, <1>14 DEF Work

LEMMA WorkAppends ==
  ASSUME TurnConstants, TurnInv, Serial, Work, NEW r \in Runs, TailAppends(r)
  PROVE  /\ Work'
         /\ tail[r].at = "history" /\ tail'[r].at = "count" /\ tail'[r].writes = tail[r].writes
         /\ \A s \in Runs : s # r => tail'[s] = tail[s]
         /\ UNCHANGED <<count, saved, object, pc, runs>>
         /\ history' = [history EXCEPT ![object[r[1]]] = history[object[r[1]]] \o Head(tail[r].writes)]
<1> DEFINE o == object[r[1]]
           t == [tail[r] EXCEPT !.at = "count"]
<1>0. /\ TypeOK /\ o \in Objects /\ history \in [Objects -> Seq(Message)] /\ r[1] \in Prompts
      /\ tail[r] \in Task /\ tail \in [Runs -> Task]
  BY TypeFacts DEF TurnInv, TypeOK, Task, Batches
<1>1. /\ tail[r].at = "history" /\ UNCHANGED <<count, saved, object, pc, runs>>
      /\ history' = [history EXCEPT ![o] = history[o] \o Head(tail[r].writes)]
      /\ tail' = [tail EXCEPT ![r] = t]
  BY <1>0 DEF TailAppends, turnVars
<1>2. t \in Task /\ t.at = "count" /\ t.writes = tail[r].writes
  BY <1>0 DEF Task
<1> HIDE DEF t
<1>3. tail'[r] = t /\ \A s \in Runs : s # r => tail'[s] = tail[s]
  BY <1>0, <1>1, <1>2, OneTask
<1>4. \A s \in Runs : s # r => ~Busy(s)
  BY <1>1 DEF Serial, Busy, Persisting
<1>5. \A s \in Runs : s # r => tail'[s].at \notin {"open", "start", "history", "count"}
  BY <1>3, <1>4 DEF Busy, Persisting
<1>6. \A n \in Objects : count[n] = Len(history[n])
  <2>1. \A s \in Runs : tail[s].at # "count"
    BY <1>1, <1>4 DEF Busy, Persisting
  <2> QED
    BY <2>1, CountedWhole
<1>7. Head(tail[r].writes) \in Seq(Message)
  <2>1. tail[r].writes # <<>> /\ tail[r].writes \in Seq(Seq(Message))
    BY <1>0, <1>1 DEF TurnInv, RunsShape, Task, Batches
  <2> QED
    BY <2>1, HeadTailProperties
<1>8. Counted'
  <2>1. Len(history'[o]) = count[o] + Len(Head(tail[r].writes))
    <3>1. history'[o] = history[o] \o Head(tail[r].writes)
      BY <1>0, <1>1
    <3>2. history[o] \in Seq(Message) /\ count[o] = Len(history[o])
      BY <1>0, <1>6
    <3> DEFINE h == history[o]
               m == Head(tail[r].writes)
    <3>3. h \in Seq(Message) /\ m \in Seq(Message)
      BY <1>7, <3>2
    <3> HIDE DEF h, m
    <3>4. Len(h \o m) = Len(h) + Len(m)
      BY <3>3, ConcatProperties
    <3> QED
      BY <3>1, <3>2, <3>4 DEF h, m
  <2>2. \A n \in Objects : n # o => history'[n] = history[n]
    BY <1>0, <1>1
  <2>3. \A s \in Runs : tail'[s].at = "count" => s = r
    BY <1>5
  <2>4. object' = object /\ count' = count /\ saved' = saved /\ object[r[1]] = o
    BY <1>1
  <2>5. tail'[r].at = "count" /\ tail'[r].writes = tail[r].writes
    BY <1>2, <1>3
  <2>6. \A n \in Objects : \/ count'[n] = Len(history'[n])
                           \/ \E s \in Runs : object'[s[1]] = n /\ tail'[s].at = "count"
    <3> TAKE n \in Objects
    <3>1. CASE n = o
      BY <2>4, <2>5, <3>1
    <3>2. CASE n # o
      BY <1>6, <2>2, <2>4, <3>2
    <3> QED
      BY <3>1, <3>2
  <2>7. \A s \in Runs : tail'[s].at = "count" =>
          Len(history'[object'[s[1]]]) = count'[object'[s[1]]] + Len(Head(tail'[s].writes))
    BY <2>1, <2>3, <2>4, <2>5
  <2> QED
    BY <2>4, <2>6, <2>7 DEF Work, Counted
<1>9. Requested'
  BY <1>2, <1>3, <1>5 DEF Requested
<1>10. ToWrite'
  BY <1>1, <1>2, <1>3, <1>5 DEF Work, ToWrite
<1> QED
  BY <1>1, <1>2, <1>3, <1>8, <1>9, <1>10 DEF Work

LEMMA WorkRecounts ==
  ASSUME TurnConstants, TurnInv, Serial, Work, NEW r \in Runs, TailRecounts(r)
  PROVE  /\ Work'
         /\ tail[r].at = "count" /\ tail'[r].at \in {"history", "done"}
         /\ \A s \in Runs : s # r => tail'[s] = tail[s]
         /\ UNCHANGED <<history, saved, object, pc, runs>>
         /\ tail'[r].at = "history" => Head(tail'[r].writes) # <<Question(r[1])>>
<1> DEFINE o == object[r[1]]
           rest == Tail(tail[r].writes)
<1>0. /\ TypeOK /\ o \in Objects /\ count \in [Objects -> Nat] /\ r[1] \in Prompts
      /\ tail[r] \in Task /\ tail \in [Runs -> Task]
  BY TypeFacts DEF TurnInv, TypeOK, Task, Batches
<1>1. /\ tail[r].at = "count" /\ UNCHANGED <<history, saved, object, pc, runs>>
      /\ count' = [count EXCEPT ![o] = count[o] + Len(Head(tail[r].writes))]
      /\ tail' = [tail EXCEPT ![r] = Left(rest)]
  BY <1>0 DEF TailRecounts, turnVars
<1>2. rest \in Batches
  <2>1. tail[r].writes # <<>> /\ tail[r].writes \in Seq(Seq(Message))
    BY <1>0, <1>1 DEF TurnInv, RunsShape, Task, Batches
  <2> QED
    BY <2>1, HeadTailProperties DEF Batches
<1>3. rest = <<>> \/ rest \in AnswerWrites(r[1])
  <2>1. tail[r].writes \in WritesOf(r)
    BY <1>1 DEF Work, ToWrite
  <2> QED
    BY <2>1, WritesFacts
<1> HIDE DEF rest
<1>4. /\ Left(rest) \in Task /\ Left(rest).at \in {"history", "done"} /\ Left(rest).writes = rest
      /\ Left(rest).at = "history" <=> rest # <<>>
  BY <1>2, LeftType
<1>5. tail'[r] = Left(rest) /\ \A s \in Runs : s # r => tail'[s] = tail[s]
  BY <1>0, <1>1, <1>4, OneTask
<1>6. \A s \in Runs : s # r => ~Busy(s)
  BY <1>1 DEF Serial, Busy, Persisting
<1>7. \A s \in Runs : s # r => tail'[s].at \notin {"open", "start", "history", "count"}
  BY <1>5, <1>6 DEF Busy, Persisting
<1>8. Counted'
  <2>1. \A s \in Runs : tail[s].at = "count" => s = r
    BY <1>6 DEF Busy, Persisting
  <2>2. Len(history[o]) = count[o] + Len(Head(tail[r].writes))
    BY <1>1 DEF Work, Counted
  <2>3. ASSUME NEW n \in Objects PROVE count'[n] = Len(history'[n])
    <3>1. CASE n = o
      BY <1>0, <1>1, <2>2, <3>1
    <3>2. CASE n # o
      <4>1. count[n] = Len(history[n])
        BY <2>1, <3>2 DEF Work, Counted
      <4> QED
        BY <1>0, <1>1, <3>2, <4>1
    <3> QED
      BY <3>1, <3>2
  <2>4. \A s \in Runs : tail'[s].at # "count"
    BY <1>4, <1>5, <1>7
  <2> QED
    BY <1>1, <2>3, <2>4 DEF Work, Counted
<1>9. Requested'
  BY <1>4, <1>5, <1>7 DEF Requested
<1>10. rest # <<>> => rest \in WritesOf(r) /\ Head(rest) # <<Question(r[1])>>
  <2> SUFFICES ASSUME rest # <<>> PROVE rest \in WritesOf(r) /\ Head(rest) # <<Question(r[1])>>
    OBVIOUS
  <2>1. PICK a \in Answers(r[1]) : rest = <<<<a>>>>
    BY <1>3 DEF AnswerWrites
  <2>2. Head(rest) = <<a>>
    BY <2>1
  <2>3. <<a>> # <<Question(r[1])>>
    BY <1>0, AnswerFacts
  <2>4. rest \in WritesOf(r)
    BY <1>3 DEF WritesOf
  <2> QED
    BY <2>2, <2>3, <2>4
<1>11. ToWrite'
  BY <1>4, <1>5, <1>7, <1>10 DEF ToWrite
<1> QED
  BY <1>1, <1>4, <1>5, <1>8, <1>9, <1>10, <1>11 DEF Work

\* The steps that leave the tasks and the sessions alone.
AsideStep(p) == StopCancelled(p) \/ RunFails(p) \/ SaveFails(p) \/ Clear(p)

LEMMA WorkStep ==
  ASSUME TurnConstants, TurnInv, Smooth', Serial, Work, [Next]_vars
  PROVE  Work'
<1>1. ASSUME NEW p \in Prompts, AsideStep(p) PROVE Work'
  BY <1>1, WorkKept DEF AsideStep, StopCancelled, RunFails, SaveFails, Clear, turnVars, sessionVars
<1>2. ASSUME NEW p \in Prompts, Save(p) PROVE Work'
  BY <1>2, WorkKept DEF Save, turnVars
<1>3. CASE Cancel \/ RemoveSession \/ UNCHANGED vars
  BY <1>3, WorkKept DEF Cancel, RemoveSession, vars
<1> QED
  BY <1>1, <1>2, <1>3, WorkPrompt, WorkOpen, WorkStream, WorkCounts, WorkAppends, WorkRecounts
     DEF AsideStep, Next, TurnStep, TailStep, AllDone

-----------------------------------------------------------------------------
(* What the sessions hold of each turn.                                     *)

Mentions(ms, p) == \E i \in DOMAIN ms : ms[i].turn = p
LastIs(ms, p) == ms # <<>> /\ ms[Len(ms)].turn = p

\* What Conversation says of one history.
Talk(ms) ==
  \A i \in DOMAIN ms :
    /\ IsQuestion(ms[i]) => \A j \in 1..(i - 1) : ms[j].turn # ms[i].turn
    /\ ~IsQuestion(ms[i]) => i > 1 /\ ms[i - 1].turn = ms[i].turn

LEMMA OneMore ==
  ASSUME NEW ms \in Seq(Message), NEW m \in Message
  PROVE  LET more == ms \o <<m>>
         IN  /\ more # <<>> /\ more[Len(more)] = m
             /\ DOMAIN ms = 1..Len(ms) /\ Len(ms) \in Nat
             /\ DOMAIN more = 1 .. Len(ms) + 1 /\ more[Len(ms) + 1] = m
             /\ \A i \in 1..Len(ms) : more[i] = ms[i]
<1> DEFINE more == ms \o <<m>>
           n == Len(ms)
<1>1. n \in Nat /\ DOMAIN ms = 1..n
  BY LenProperties
<1>2. <<m>> \in Seq(Message) /\ Len(<<m>>) = 1 /\ <<m>>[1] = m
  OBVIOUS
<1>3. more \in Seq(Message) /\ Len(more) = n + 1 /\ more[n + 1] = m /\ \A i \in 1..n : more[i] = ms[i]
  BY <1>1, <1>2, ConcatProperties
<1> HIDE DEF more
<1>4. DOMAIN more = 1 .. n + 1 /\ more # <<>>
  <2>1. DOMAIN more = 1 .. Len(more)
    BY <1>3, LenProperties
  <2>2. Len(<<>>) = 0
    OBVIOUS
  <2> QED
    BY <1>1, <1>3, <2>1, <2>2
<1> QED
  BY <1>1, <1>3, <1>4 DEF more

\* What one message more makes of a session.
LEMMA MoreSaid ==
  ASSUME NEW ms \in Seq(Message), NEW m \in Message, NEW p \in Prompts
  PROVE  LET more == ms \o <<m>>
         IN  /\ Mentions(more, p) => Mentions(ms, p) \/ m.turn = p
             /\ LastIs(more, m.turn)
<1> DEFINE more == ms \o <<m>>
           n == Len(ms)
<1>1. /\ more # <<>> /\ more[Len(more)] = m
      /\ DOMAIN ms = 1..n /\ n \in Nat
      /\ DOMAIN more = 1 .. n + 1 /\ more[n + 1] = m
      /\ \A i \in 1..n : more[i] = ms[i]
  BY OneMore
<1> HIDE DEF more, n
<1>2. \A i \in 1 .. n + 1 : i \in 1..n \/ i = n + 1
  BY <1>1
<1>3. n + 1 \in 1 .. n + 1 /\ \A i \in 1..n : i \in 1 .. n + 1
  BY <1>1
<1>4. Mentions(more, p) => Mentions(ms, p) \/ m.turn = p
  BY <1>1, <1>2 DEF Mentions
<1>7. LastIs(more, m.turn)
  BY <1>1 DEF LastIs
<1> QED
  BY <1>4, <1>7 DEF more

\* A question nothing has been said of, or an answer to the turn that spoke
\* last, carries the conversation on.
LEMMA TalkGoesOn ==
  ASSUME NEW ms \in Seq(Message), NEW m \in Message, Talk(ms),
         IsQuestion(m) => ~Mentions(ms, m.turn),
         ~IsQuestion(m) => LastIs(ms, m.turn)
  PROVE  Talk(ms \o <<m>>)
<1> DEFINE more == ms \o <<m>>
           n == Len(ms)
<1>1. /\ DOMAIN ms = 1..n /\ n \in Nat
      /\ DOMAIN more = 1 .. n + 1 /\ more[n + 1] = m
      /\ \A i \in 1..n : more[i] = ms[i]
  BY OneMore
<1>2. ms # <<>> => n > 0
  BY EmptySeq, <1>1
<1>3. ~IsQuestion(m) => n > 0 /\ ms[n].turn = m.turn
  BY <1>2 DEF LastIs
<1> HIDE DEF more, n
<1>4. ASSUME NEW i \in 1..n
      PROVE  /\ IsQuestion(more[i]) => \A j \in 1..(i - 1) : more[j].turn # more[i].turn
             /\ ~IsQuestion(more[i]) => i > 1 /\ more[i - 1].turn = more[i].turn
  <2>1. /\ IsQuestion(ms[i]) => \A j \in 1..(i - 1) : ms[j].turn # ms[i].turn
        /\ ~IsQuestion(ms[i]) => i > 1 /\ ms[i - 1].turn = ms[i].turn
    BY <1>1 DEF Talk
  <2>2. more[i] = ms[i] /\ (\A j \in 1..(i - 1) : j \in 1..n) /\ (i > 1 => i - 1 \in 1..n)
    BY <1>1
  <2>3. (\A j \in 1..(i - 1) : more[j] = ms[j]) /\ (i > 1 => more[i - 1] = ms[i - 1])
    BY <1>1, <2>2
  <2> QED
    BY <2>1, <2>2, <2>3
<1>5. IsQuestion(m) => \A j \in 1..n : more[j].turn # m.turn
  BY <1>1 DEF Mentions
<1>6. ~IsQuestion(m) => n + 1 > 1 /\ more[n].turn = m.turn
  BY <1>1, <1>3
<1>7. ASSUME NEW i \in DOMAIN more
      PROVE  /\ IsQuestion(more[i]) => \A j \in 1..(i - 1) : more[j].turn # more[i].turn
             /\ ~IsQuestion(more[i]) => i > 1 /\ more[i - 1].turn = more[i].turn
  <2>1. i \in 1..n \/ i = n + 1
    BY <1>1
  <2>2. CASE i = n + 1
    <3>1. i - 1 = n /\ more[i] = m
      BY <1>1, <2>2
    <3> QED
      BY <1>5, <1>6, <2>2, <3>1
  <2> QED
    BY <1>4, <2>1, <2>2
<1> QED
  BY <1>7 DEF Talk, more

-----------------------------------------------------------------------------
(* Turns, their tasks and the sessions.                                     *)

\* The task of the first run has appended the question of its turn.
Past(t, p) ==
  \/ t.at \in {"count", "done"}
  \/ t.at = "history" /\ Head(t.writes) # <<Question(p)>>
Written(p) == 1 \in 1..MaxRuns /\ Past(tail[<<p, 1>>], p)

LEMMA PastFacts ==
  ASSUME NEW t, NEW p
  PROVE  /\ t.at \in {"count", "done"} => Past(t, p)
         /\ t.at \in {"none", "open", "start"} => ~Past(t, p)
         /\ t.at = "history" => (Past(t, p) <=> Head(t.writes) # <<Question(p)>>)
  BY DEF Past

\* Nothing is said of a turn before its question is in the session it holds, and
\* while the turn or its task goes on nobody else has the last word there.
Silent ==
  \A p \in Prompts : ~Written(p) =>
    (\A o \in Objects : ~Mentions(history[o], p)) /\ ~Mentions(saved.messages, p)
GoesOn(p) == Active(p) \/ \E k \in 1..MaxRuns : Busy(<<p, k>>)
LastOwn == \A p \in Prompts : Written(p) /\ GoesOn(p) => LastIs(history[object[p]], p)
Order == Silent /\ LastOwn

Talks == Talk(saved.messages) /\ \A o \in Objects : Talk(history[o])

Said == Order /\ Talks

\* A step that writes to no session.
LEMMA SaidKept ==
  ASSUME Said, UNCHANGED <<history, saved, object>>,
         \A p \in Prompts : Written(p)' <=> Written(p),
         \A p \in Prompts : GoesOn(p)' => GoesOn(p)
  PROVE  Said'
<1>1. Silent'
  BY DEF Said, Order, Silent
<1>2. LastOwn'
  BY DEF Said, Order, LastOwn
<1>3. Talks'
  BY DEF Said, Talks
<1> QED
  BY <1>1, <1>2, <1>3 DEF Said, Order

\* A turn that has not run the agent has written nothing.
LEMMA NotRun ==
  ASSUME TurnConstants, TurnInv, NEW p \in Prompts, runs[p] = 0
  PROVE  ~Written(p) /\ \A k \in 1..MaxRuns : ~Busy(<<p, k>>)
<1>1. \A k \in 1..MaxRuns : tail[<<p, k>>].at = "none"
  BY DEF TurnInv, RunsShape
<1> QED
  BY <1>1 DEF Written, Past, Busy, Persisting

\* A step of the task of one run is none of the others'.
LEMMA WrittenKept ==
  ASSUME TypeOK, NEW r \in Runs, \A s \in Runs : s # r => tail'[s] = tail[s],
         r[2] = 1 => (Past(tail'[r], r[1]) <=> Past(tail[r], r[1]))
  PROVE  \A p \in Prompts : Written(p)' <=> Written(p)
<1> SUFFICES ASSUME NEW p \in Prompts, 1 \in 1..MaxRuns PROVE Written(p)' <=> Written(p)
  BY DEF Written
<1>1. <<p, 1>> \in Runs
  BY DEF Runs
<1>2. CASE r = <<p, 1>>
  BY <1>2 DEF Written, Past
<1>3. CASE r # <<p, 1>>
  BY <1>1, <1>3 DEF Written, Past
<1> QED
  BY <1>2, <1>3

\* A step on a task of a turn that goes on.
LEMMA GoesOnKept ==
  ASSUME NEW r \in Runs, \A s \in Runs : s # r => tail'[s] = tail[s],
         Busy(r)' => GoesOn(r[1]),
         \A p \in Prompts : Active(p)' => Active(p)
  PROVE  \A p \in Prompts : GoesOn(p)' => GoesOn(p)
<1> SUFFICES ASSUME NEW p \in Prompts, NEW k \in 1..MaxRuns, Busy(<<p, k>>)' PROVE GoesOn(p)
  BY DEF GoesOn
<1>1. <<p, k>> \in Runs
  BY DEF Runs
<1>2. CASE <<p, k>> = r
  BY <1>2
<1>3. CASE <<p, k>> # r
  <2>1. Busy(<<p, k>>)
    BY <1>1, <1>3 DEF Busy, Persisting
  <2> QED
    BY <2>1 DEF GoesOn
<1> QED
  BY <1>2, <1>3

LEMMA SaidAside ==
  ASSUME TurnInv, Said,
         (\E p \in Prompts : AsideStep(p)) \/ Cancel \/ RemoveSession \/ UNCHANGED vars
  PROVE  Said'
<1>0. TypeOK
  BY DEF TurnInv
<1>1. UNCHANGED <<history, saved, object, tail>>
  BY DEF AsideStep, StopCancelled, RunFails, SaveFails, Clear, Cancel, RemoveSession, vars,
         turnVars, sessionVars
<1>2. \/ UNCHANGED pc
      \/ \E p \in Prompts : \/ pc[p] \in {"top", "save"} /\ pc' = [pc EXCEPT ![p] = "save"]
                            \/ pc[p] = "save" /\ pc' = [pc EXCEPT ![p] = "clear"]
                            \/ pc[p] = "clear" /\ pc' = [pc EXCEPT ![p] = "done"]
  BY DEF AsideStep, StopCancelled, RunFails, SaveFails, Clear, Cancel, RemoveSession, vars, Goto
<1>3. \A p \in Prompts : Active(p)' => Active(p)
  BY <1>0, <1>2 DEF Active, TypeOK
<1>5. \A p \in Prompts : (Written(p)' <=> Written(p)) /\ (GoesOn(p)' => GoesOn(p))
  BY <1>1, <1>3 DEF Written, Past, GoesOn, Busy, Persisting
<1> QED
  BY <1>1, <1>5, SaidKept

LEMMA SaidOpen ==
  ASSUME TurnConstants, TurnInv, Said, NEW p \in Prompts, OpenRun(p)
  PROVE  Said'
<1> DEFINE r == <<p, runs[p] + 1>>
           t == [NoTail EXCEPT !.at = "open", !.request = Asked(p)]
<1>0. TypeOK /\ runs[p] \in Nat /\ r[1] = p /\ r[2] = runs[p] + 1
  <2>1. TypeOK
    BY DEF TurnInv
  <2>2. runs[p] \in 0..MaxRuns
    BY <2>1, TypeFacts
  <2> QED
    BY <2>1, <2>2 DEF TurnConstants
<1>1. r \in Runs /\ t \in Task /\ t.at = "open" /\ tail' = [tail EXCEPT ![r] = t]
      /\ runs[p] + 1 \in 1..MaxRuns
  BY OpenTask
<1>2. UNCHANGED <<object, history, saved>> /\ pc[p] = "top" /\ pc' = [pc EXCEPT ![p] = "streaming"]
  BY DEF OpenRun, sessionVars, Goto
<1>3. tail[r].at = "none"
  BY <1>0, <1>1 DEF TurnInv, RunsShape
<1> HIDE DEF t
<1>4. tail'[r] = t /\ \A s \in Runs : s # r => tail'[s] = tail[s]
  BY <1>0, <1>1, OneTask
<1> HIDE DEF r
<1>6. \A q \in Prompts : Written(q)' <=> Written(q)
  <2>1. ~Past(tail'[r], r[1]) /\ ~Past(tail[r], r[1])
    BY <1>1, <1>3, <1>4, PastFacts
  <2> QED
    BY <1>0, <1>1, <1>4, <2>1, WrittenKept
<1>7. \A q \in Prompts : GoesOn(q)' => GoesOn(q)
  <2>1. GoesOn(r[1]) /\ \A q \in Prompts : Active(q)' => Active(q)
    BY <1>0, <1>2 DEF GoesOn, Active, TypeOK
  <2> QED
    BY <1>1, <1>4, <2>1, GoesOnKept
<1> QED
  BY <1>2, <1>6, <1>7, SaidKept

LEMMA SaidStream ==
  ASSUME TurnConstants, TurnInv, Said, NEW p \in Prompts,
         StreamStops(p) \/ StreamPauses(p) \/ Decide(p)
  PROVE  Said'
<1> DEFINE r == Current(p)
<1>0. TypeOK
  BY DEF TurnInv
<1>1. r \in Runs /\ tail[r].at = "open" /\ r[1] = p /\ Streaming(p)
  BY StreamTask DEF Current
<1>2. PICK t \in Task : tail' = [tail EXCEPT ![r] = t] /\ t.at \in {"open", "start"}
  BY StreamTask
<1> HIDE DEF r
<1>3. tail'[r] = t /\ \A s \in Runs : s # r => tail'[s] = tail[s]
  BY <1>0, <1>1, <1>2, OneTask
<1>4. UNCHANGED <<object, history, saved>>
      /\ \E w : w \in {"save", "asking", "top"} /\ pc' = [pc EXCEPT ![p] = w]
  BY DEF StreamStops, StreamPauses, Decide, turnVars, sessionVars, Goto
<1>5. \A q \in Prompts : Written(q)' <=> Written(q)
  <2>1. ~Past(tail'[r], r[1]) /\ ~Past(tail[r], r[1])
    BY <1>1, <1>2, <1>3, PastFacts
  <2> QED
    BY <1>0, <1>1, <1>3, <2>1, WrittenKept
<1>6. \A q \in Prompts : GoesOn(q)' => GoesOn(q)
  <2>1. GoesOn(r[1]) /\ \A q \in Prompts : Active(q)' => Active(q)
    BY <1>0, <1>1, <1>4 DEF GoesOn, Active, Streaming, TypeOK
  <2> QED
    BY <1>1, <1>3, <2>1, GoesOnKept
<1> QED
  BY <1>4, <1>5, <1>6, SaidKept

LEMMA SaidCounts ==
  ASSUME TurnConstants, TurnInv, Serial, Work, Said, NEW r \in Runs, TailCounts(r)
  PROVE  Said'
<1>0. TypeOK
  BY DEF TurnInv
<1>1. /\ tail[r].at = "start" /\ UNCHANGED <<history, saved, object, pc, runs>>
      /\ \A s \in Runs : s # r => tail'[s] = tail[s]
      /\ tail'[r].at \in {"history", "done"}
      /\ r[2] = 1 => tail'[r].at = "history" /\ Head(tail'[r].writes) = <<Question(r[1])>>
  BY WorkCounts
<1>3. \A q \in Prompts : Written(q)' <=> Written(q)
  <2>1. r[2] = 1 => ~Past(tail'[r], r[1]) /\ ~Past(tail[r], r[1])
    BY <1>1, PastFacts
  <2> QED
    BY <1>0, <1>1, <2>1, WrittenKept
<1>4. \A q \in Prompts : GoesOn(q)' => GoesOn(q)
  <2>1. GoesOn(r[1])
    BY <1>0, <1>1, TypeFacts DEF GoesOn, Busy, Persisting
  <2> QED
    BY <1>1, <2>1, GoesOnKept DEF Active
<1> QED
  BY <1>1, <1>3, <1>4, SaidKept

LEMMA SaidRecounts ==
  ASSUME TurnConstants, TurnInv, Serial, Work, Said, NEW r \in Runs, TailRecounts(r)
  PROVE  Said'
<1>0. TypeOK
  BY DEF TurnInv
<1>1. /\ tail[r].at = "count" /\ UNCHANGED <<history, saved, object, pc, runs>>
      /\ \A s \in Runs : s # r => tail'[s] = tail[s]
      /\ tail'[r].at \in {"history", "done"}
      /\ tail'[r].at = "history" => Head(tail'[r].writes) # <<Question(r[1])>>
  BY WorkRecounts
<1>3. \A q \in Prompts : Written(q)' <=> Written(q)
  <2>1. Past(tail'[r], r[1]) /\ Past(tail[r], r[1])
    BY <1>1, PastFacts
  <2> QED
    BY <1>0, <1>1, <2>1, WrittenKept
<1>4. \A q \in Prompts : GoesOn(q)' => GoesOn(q)
  <2>1. GoesOn(r[1])
    BY <1>0, <1>1, TypeFacts DEF GoesOn, Busy, Persisting
  <2> QED
    BY <1>1, <2>1, GoesOnKept DEF Active
<1> QED
  BY <1>1, <1>3, <1>4, SaidKept

LEMMA SaidPrompt ==
  ASSUME TurnConstants, TurnInv, Said, NEW p \in Prompts, Prompt(p)
  PROVE  Said'
<1> DEFINE o == IF live = 0 THEN NextObject ELSE live
<1>0. TypeOK /\ made \in Objects /\ live \in 0..made
  BY DEF TurnInv, TypeOK
<1>1. /\ UNCHANGED <<tail, saved, runs>> /\ pc[p] = "unsent"
      /\ pc' = [pc EXCEPT ![p] = "top"]
      /\ object' = [object EXCEPT ![p] = o] /\ live' = o
      /\ live # 0 => history' = history /\ o = live
      /\ live = 0 => /\ history' = [history EXCEPT ![o] = saved.messages]
                     /\ o = made + 1 /\ made < MaxObjects
  BY DEF Prompt, Loaded, NextObject
<1>2. made \in 1..MaxObjects /\ MaxObjects \in Nat /\ o \in Objects
  BY <1>0, <1>1 DEF Objects, TurnConstants
<1> HIDE DEF o
<1>3. \A n \in Objects : history'[n] = history[n] \/ (live = 0 /\ n = o /\ history'[n] = saved.messages)
  <2>1. DOMAIN history = Objects
    BY <1>0 DEF TypeOK
  <2>2. CASE live = 0
    <3>1. history' = [history EXCEPT ![o] = saved.messages]
      BY <1>1, <2>2
    <3> QED
      BY <2>1, <2>2, <3>1
  <2>3. CASE ~(live = 0)
    <3>1. history' = history
      BY <1>1, <2>3
    <3> QED
      BY <3>1
  <2> QED
    BY <2>2, <2>3
<1>4. runs[p] = 0 /\ ~Written(p) /\ \A k \in 1..MaxRuns : ~Busy(<<p, k>>)
  BY <1>1, NotRun DEF TurnInv, RunsShape
<1>5. \A q \in Prompts : Written(q)' <=> Written(q)
  BY <1>1 DEF Written, Past
<1>6. \A q \in Prompts : q # p => object'[q] = object[q] /\ history'[object[q]] = history[object[q]]
  <2> SUFFICES ASSUME NEW q \in Prompts, q # p
               PROVE  object'[q] = object[q] /\ history'[object[q]] = history[object[q]]
    OBVIOUS
  <2>1. object[q] \in 1..MaxObjects /\ object[q] <= made
    BY <1>0, TypeFacts DEF TurnInv, RunsShape, Objects
  <2>2. live = 0 => object[q] # o
    BY <1>1, <1>2, <2>1
  <2> QED
    BY <1>0, <1>1, <1>3, <2>1, <2>2 DEF TypeOK, Objects
<1>7. Silent'
  BY <1>1, <1>3, <1>5 DEF Said, Order, Silent
<1>10. LastOwn'
  <2>1. \A q \in Prompts : q # p => (GoesOn(q)' => GoesOn(q))
    BY <1>0, <1>1 DEF GoesOn, Active, Busy, Persisting, TypeOK
  <2> QED
    BY <1>4, <1>5, <1>6, <2>1 DEF Said, Order, LastOwn
<1>11. Talks'
  BY <1>1, <1>3 DEF Said, Talks
<1> QED
  BY <1>7, <1>10, <1>11 DEF Said, Order

LEMMA SaidSave ==
  ASSUME TurnConstants, TurnInv, Said, NEW p \in Prompts, Save(p)
  PROVE  Said'
<1>0. TypeOK /\ live \in 0..made /\ made \in 1..MaxObjects /\ MaxObjects \in Nat
  BY DEF TurnInv, TypeOK, Objects, TurnConstants
<1>1. UNCHANGED <<tail, history, object>> /\ pc[p] = "save" /\ pc' = [pc EXCEPT ![p] = "clear"]
  BY DEF Save, Goto, turnVars
<1>2. \/ UNCHANGED saved
      \/ live \in Objects /\ saved'.messages \in {history[live], <<>>}
  BY <1>0 DEF Save, Snapshots, Objects
<1>3. \A q \in Prompts : (Active(q)' => Active(q)) /\ (Written(q)' <=> Written(q))
  BY <1>0, <1>1 DEF Active, Written, Past, TypeOK
<1>4. DOMAIN <<>> = {}
  OBVIOUS
<1>5. Silent'
  BY <1>1, <1>2, <1>3, <1>4 DEF Said, Order, Silent, Mentions
<1>6. LastOwn'
  BY <1>1, <1>3 DEF Said, Order, LastOwn, GoesOn, Busy, Persisting
<1>7. Talks'
  BY <1>1, <1>2, <1>4 DEF Said, Talks, Talk
<1> QED
  BY <1>5, <1>6, <1>7 DEF Said, Order

LEMMA SaidAppends ==
  ASSUME TurnConstants, TurnInv, Smooth, Serial, Work, Said, NEW r \in Runs, TailAppends(r)
  PROVE  Said'
<1> DEFINE o == object[r[1]]
           p == r[1]
           batch == Head(tail[r].writes)
<1>0. /\ TypeOK /\ p \in Prompts /\ r[2] \in 1..MaxRuns /\ r = <<p, r[2]>> /\ o \in Objects
      /\ history \in [Objects -> Seq(Message)] /\ object \in [Prompts -> Objects]
  BY TypeFacts DEF TurnInv, TypeOK
<1>1. /\ tail[r].at = "history" /\ tail'[r].at = "count"
      /\ \A s \in Runs : s # r => tail'[s] = tail[s]
      /\ UNCHANGED <<saved, object, pc, runs>>
      /\ history' = [history EXCEPT ![o] = history[o] \o batch]
  BY WorkAppends
<1>3. PICK m \in Message :
        /\ batch = <<m>> /\ m.turn = p
        /\ \/ m = Question(p) /\ r[2] = 1
           \/ ~IsQuestion(m) /\ m # Question(p)
  <2>1. tail[r].writes \in WritesOf(r)
    BY <1>1 DEF Work, ToWrite
  <2>2. \/ \E a \in Answers(p) : batch = <<a>>
        \/ r[2] = 1 /\ batch = <<Question(p)>>
    BY <2>1, WritesFacts
  <2>3. Question(p) \in Message /\ Question(p).turn = p
    BY <1>0, MessageFacts
  <2>4. \A a \in Answers(p) : a \in Message /\ a.turn = p /\ ~IsQuestion(a) /\ <<a>> # <<Question(p)>>
    BY <1>0, AnswerFacts
  <2> HIDE DEF batch, p
  <2> QED
    BY <2>2, <2>3, <2>4
<1>4. Busy(r) /\ GoesOn(p)
  BY <1>0, <1>1 DEF GoesOn, Busy, Persisting
<1>5. m = Question(p) => r = <<p, 1>> /\ ~Written(p)
  <2> SUFFICES ASSUME m = Question(p) PROVE r = <<p, 1>> /\ ~Written(p)
    OBVIOUS
  <2>1. r = <<p, 1>>
    BY <1>0, <1>3, MessageFacts
  <2>2. ~Past(tail[r], p)
    BY <1>1, <1>3, PastFacts
  <2> HIDE DEF p
  <2> QED
    BY <2>1, <2>2 DEF Written
<1>6. m # Question(p) => Written(p)
  <2> SUFFICES ASSUME m # Question(p) PROVE Written(p)
    OBVIOUS
  <2>1. <<m>> # <<Question(p)>>
    OBVIOUS
  <2>2. Past(tail[r], p)
    BY <1>1, <1>3, <2>1, PastFacts
  <2>3. r[2] = 1
    BY <1>1, FirstRun
  <2> QED
    BY <1>0, <2>2, <2>3 DEF Written
<1>7. Written(p)'
  <2>1. 1 \in 1..MaxRuns
    BY <1>0 DEF TurnConstants
  <2>2. CASE r = <<p, 1>>
    <3>1. Past(tail'[<<p, 1>>], p)
      BY <1>1, <2>2, PastFacts
    <3> HIDE DEF p
    <3> QED
      BY <2>1, <3>1 DEF Written
  <2>3. CASE r # <<p, 1>>
    <3>1. <<p, 1>> \in Runs
      BY <1>0, <2>1 DEF Runs
    <3> QED
      BY <1>1, <1>5, <1>6, <2>3, <3>1 DEF Written
  <2> QED
    BY <2>2, <2>3
<1> HIDE DEF batch, o, p
<1>8. ASSUME NEW q \in Prompts, q # p PROVE Written(q)' <=> Written(q)
  <2> SUFFICES ASSUME 1 \in 1..MaxRuns PROVE Written(q)' <=> Written(q)
    BY DEF Written
  <2>1. <<q, 1>> \in Runs /\ <<q, 1>> # r
    BY <1>0, <1>8 DEF Runs
  <2> QED
    BY <1>1, <2>1 DEF Written
<1>9. history'[o] = history[o] \o <<m>> /\ \A n \in Objects : n # o => history'[n] = history[n]
  BY <1>0, <1>1, <1>3
<1>10. history[o] \in Seq(Message) /\ p \in Prompts /\ object[p] = o
  BY <1>0 DEF o, p
<1>11. \A q \in Prompts :
         /\ Mentions(history'[o], q) => Mentions(history[o], q) \/ q = p
  BY <1>3, <1>9, <1>10, MoreSaid
<1>12. LastIs(history'[o], p)
  BY <1>3, <1>9, <1>10, MoreSaid
<1>13. Silent'
  <2>1. \A q \in Prompts : ~Written(q)' => q # p /\ ~Written(q)
    BY <1>7, <1>8
  <2>2. \A q \in Prompts : q # p /\ ~Written(q) => ~Mentions(history'[o], q)
    BY <1>10, <1>11, <1>0 DEF Said, Order, Silent
  <2>3. \A q \in Prompts, n \in Objects : ~Written(q) /\ n # o => ~Mentions(history'[n], q)
    BY <1>9 DEF Said, Order, Silent
  <2> QED
    BY <1>1, <2>1, <2>2, <2>3 DEF Said, Order, Silent
<1>16. LastOwn'
  <2> SUFFICES ASSUME NEW q \in Prompts, Written(q)', GoesOn(q)' PROVE LastIs(history'[object[q]], q)
    BY <1>1 DEF LastOwn
  <2>1. CASE q = p
    BY <1>10, <1>12, <2>1
  <2>2. CASE q # p
    <3>1. Written(q)
      BY <1>8, <2>2
    <3>2. GoesOn(q)
      <4>1. \A t \in Prompts : GoesOn(t)' => GoesOn(t)
        BY <1>1, <1>4, GoesOnKept DEF Active, p
      <4> QED
        BY <4>1
    <3>3. object[q] # o
      <4>1. \A k \in 1..MaxRuns : ~Busy(<<q, k>>)
        <5> SUFFICES ASSUME NEW k \in 1..MaxRuns, Busy(<<q, k>>) PROVE FALSE
          OBVIOUS
        <5>1. <<q, k>> \in Runs /\ <<q, k>> # r
          BY <1>0, <2>2 DEF Runs
        <5> QED
          BY <1>4, <5>1 DEF Serial
      <4>2. Active(q)
        BY <3>2, <4>1 DEF GoesOn
      <4> QED
        BY <1>4, <2>2, <4>2 DEF Serial, p
    <3> QED
      BY <1>0, <1>9, <3>1, <3>2, <3>3 DEF Said, Order, LastOwn
  <2> QED
    BY <2>1, <2>2
<1>17. Talks'
  <2>1. IsQuestion(m) => ~Mentions(history[o], m.turn)
    BY <1>0, <1>3, <1>5, <1>10 DEF Said, Order, Silent
  <2>2. ~IsQuestion(m) => LastIs(history[o], m.turn)
    <3>1. ~IsQuestion(m) => m # Question(p)
      BY <1>10, MessageFacts
    <3> QED
      BY <1>3, <1>4, <1>6, <1>10, <3>1 DEF Said, Order, LastOwn
  <2>3. Talk(history[o])
    BY <1>0 DEF Said, Talks, o
  <2>4. Talk(history'[o])
    BY <1>9, <1>10, <2>1, <2>2, <2>3, TalkGoesOn
  <2> QED
    BY <1>1, <1>9, <2>4 DEF Said, Talks
<1> QED
  BY <1>13, <1>16, <1>17 DEF Said, Order

LEMMA SaidStep ==
  ASSUME TurnConstants, TurnInv, Smooth, Serial, Work, Said, [Next]_vars
  PROVE  Said'
<1>1. CASE (\E p \in Prompts : AsideStep(p)) \/ Cancel \/ RemoveSession \/ UNCHANGED vars
  BY <1>1, SaidAside
<1> QED
  BY <1>1, SaidPrompt, SaidSave, SaidOpen, SaidStream, SaidCounts, SaidAppends, SaidRecounts
     DEF AsideStep, Next, TurnStep, TailStep, AllDone

-----------------------------------------------------------------------------
(* The invariant of smooth sessions, and what it shows.                     *)

SmoothInv == Smooth => Serial /\ Work /\ Said

LEMMA SmoothInit == TurnConstants /\ Init => SmoothInv
<1> SUFFICES ASSUME TurnConstants, Init PROVE Serial /\ Work /\ Said
  BY DEF SmoothInv
<1>1. /\ \A p \in Prompts : pc[p] = "unsent"
      /\ \A r \in Runs : tail[r].at = "none"
      /\ \A o \in Objects : history[o] = <<>> /\ count[o] = 0
      /\ saved.messages = <<>>
  BY DEF Init, NoTail
<1>2. Len(<<>>) = 0 /\ DOMAIN <<>> = {}
  OBVIOUS
<1>3. Serial
  BY <1>1 DEF Serial, Active, Busy, Persisting
<1>4. Work
  BY <1>1, <1>2 DEF Work, Counted, Requested, ToWrite
<1>5. \A p \in Prompts : ~Written(p)
  <2>1. \A p \in Prompts : 1 \in 1..MaxRuns => <<p, 1>> \in Runs
    BY DEF Runs
  <2> QED
    BY <1>1, <2>1, PastFacts DEF Written
<1>6. Order
  BY <1>1, <1>2, <1>5 DEF Order, Silent, LastOwn, Mentions
<1>7. Talks
  BY <1>1, <1>2 DEF Talks, Talk
<1> QED
  BY <1>3, <1>4, <1>6, <1>7 DEF Said

LEMMA SmoothStep == TurnConstants /\ TurnInv /\ SmoothInv /\ [Next]_vars => SmoothInv'
<1> SUFFICES ASSUME TurnConstants, TurnInv, SmoothInv, [Next]_vars, Smooth'
             PROVE  Serial' /\ Work' /\ Said'
  BY DEF SmoothInv
<1>1. Smooth
  BY SmoothBefore
<1>2. Serial /\ Work /\ Said
  BY <1>1 DEF SmoothInv
<1> QED
  BY <1>1, <1>2, SerialStep, WorkStep, SaidStep

LEMMA SmoothConversation == SmoothInv => Conversation
  BY DEF SmoothInv, Said, Talks, Talk, Conversation

\* The sessions of a client that waits, whose turns are not resumed and which were
\* loaded from whole saves, hold every question once and every answer right after
\* a message of its own turn, whenever they are saved, removed and loaded again.
THEOREM SessionsConverse == TurnConstants => (Spec => []Conversation)
<1> SUFFICES ASSUME TurnConstants PROVE Spec => []Conversation
  OBVIOUS
<1> QED
  BY SmoothConversation, TurnInit, TurnStepInv, SmoothInit, SmoothStep, PTL DEF Spec

-----------------------------------------------------------------------------
(* What is stored, whatever turns and tasks overlap.                        *)

\* The session in the table begins with what is in the store.
SavedFirst == live # 0 => IsPrefix(saved.messages, history[live])

LEMMA PrefixFacts ==
  ASSUME NEW a \in Seq(Message)
  PROVE  /\ IsPrefix(a, a) /\ IsPrefix(<<>>, a)
         /\ \A b, c \in Seq(Message) : IsPrefix(a, b) => IsPrefix(a, b \o c)
<1>1. IsPrefix(a, a)
  BY LenProperties DEF IsPrefix
<1>2. IsPrefix(<<>>, a)
  <2>1. Len(<<>>) = 0 /\ SubSeq(<<>>, 1, 0) = <<>> /\ SubSeq(a, 1, 0) = <<>>
    BY SubSeqEmpty
  <2> QED
    BY <2>1, LenProperties DEF IsPrefix
<1>3. ASSUME NEW b \in Seq(Message), NEW c \in Seq(Message), IsPrefix(a, b)
      PROVE  IsPrefix(a, b \o c)
  <2> DEFINE n == Len(a)
             d == b \o c
  <2>1. n \in Nat /\ n <= Len(b) /\ SubSeq(a, 1, n) = SubSeq(b, 1, n)
    BY <1>3, LenProperties DEF IsPrefix
  <2>2. d \in Seq(Message) /\ n <= Len(d) /\ \A i \in 1..n : d[i] = b[i] /\ b[i] \in Message
    BY <2>1, LenProperties, ConcatProperties
  <2> HIDE DEF n, d
  <2>3. SubSeq(d, 1, n) = SubSeq(b, 1, n)
    <3>1. \A i \in 1..n : d[i] \in Message /\ b[i] \in Message
      BY <2>2
    <3>2. /\ SubSeq(d, 1, n) \in Seq(Message) /\ SubSeq(b, 1, n) \in Seq(Message)
          /\ Len(SubSeq(d, 1, n)) = n /\ Len(SubSeq(b, 1, n)) = n
          /\ \A i \in 1..n : SubSeq(d, 1, n)[i] = d[i] /\ SubSeq(b, 1, n)[i] = b[i]
      BY <2>1, <3>1, SubSeqProperties, SMTT(30)
    <3> QED
      BY <2>1, <2>2, <3>2, SeqEqual
  <2> QED
    BY <2>1, <2>2, <2>3 DEF IsPrefix, n, d
<1> QED
  BY <1>1, <1>2, <1>3

LEMMA SavedInit == TurnConstants /\ Init => SavedFirst
<1> SUFFICES ASSUME TurnConstants, Init PROVE IsPrefix(saved.messages, history[live])
  BY DEF SavedFirst
<1>1. saved.messages = <<>> /\ live \in Objects /\ history[live] = <<>> /\ <<>> \in Seq(Message)
  BY DEF Init, Objects, TurnConstants
<1> QED
  BY <1>1, PrefixFacts

LEMMA SavedStep ==
  ASSUME TurnConstants, TurnInv, SavedFirst, [Next]_vars
  PROVE  SavedFirst' /\ KeepsSaved
<1>0. /\ TypeOK /\ history \in [Objects -> Seq(Message)] /\ saved.messages \in Seq(Message)
      /\ live # 0 => live \in Objects
  <2>1. TypeOK /\ live \in 0..made /\ made \in 1..MaxObjects /\ MaxObjects \in Nat
    BY DEF TurnInv, TypeOK, Objects, TurnConstants
  <2> QED
    BY <2>1 DEF TypeOK, Objects
<1>1. ASSUME UNCHANGED saved PROVE KeepsSaved
  BY <1>0, <1>1, PrefixFacts DEF KeepsSaved
<1>2. ASSUME NEW p \in Prompts, Prompt(p) PROVE SavedFirst' /\ KeepsSaved
  <2>1. UNCHANGED saved
    BY <1>2 DEF Prompt
  <2>2. CASE live = 0
    <3>1. live' = made + 1 /\ history' = [history EXCEPT ![made + 1] = saved.messages] /\ made < MaxObjects
      BY <1>2, <2>2 DEF Prompt, NextObject, Loaded
    <3>2. made + 1 \in Objects
      BY <1>0, <3>1 DEF TypeOK, Objects, TurnConstants
    <3>3. history'[live'] = saved.messages
      BY <1>0, <3>1, <3>2
    <3> QED
      BY <1>0, <1>1, <2>1, <3>3, PrefixFacts DEF SavedFirst
  <2>3. CASE live # 0
    <3>1. live' = live /\ UNCHANGED history
      BY <1>2, <2>3 DEF Prompt
    <3> QED
      BY <1>1, <2>1, <2>3, <3>1 DEF SavedFirst
  <2> QED
    BY <2>2, <2>3
<1>3. ASSUME NEW p \in Prompts, Save(p) PROVE SavedFirst' /\ KeepsSaved
  <2>1. UNCHANGED <<live, history>>
    BY <1>3 DEF Save
  <2>2. CASE live = 0
    BY <1>1, <1>3, <2>1, <2>2 DEF Save, SavedFirst
  <2>3. CASE live # 0
    <3>1. \/ saved'.messages = history[live]
          \/ saved'.messages = <<>> /\ Writing(live, "history")
      BY <1>3, <2>3 DEF Save, Snapshots
    <3>2. history[live] \in Seq(Message)
      BY <1>0, <2>3
    <3>3. IsPrefix(saved'.messages, history[live])
      BY <3>1, <3>2, PrefixFacts
    <3>4. IsPrefix(saved.messages, history[live])
      BY <2>3 DEF SavedFirst
    <3> QED
      BY <2>1, <2>3, <3>1, <3>3, <3>4 DEF SavedFirst, KeepsSaved
  <2> QED
    BY <2>2, <2>3
<1>4. ASSUME NEW r \in Runs, TailAppends(r) PROVE SavedFirst' /\ KeepsSaved
  <2> DEFINE o == object[r[1]]
             m == Head(tail[r].writes)
  <2>1. UNCHANGED <<saved, live>> /\ history' = [history EXCEPT ![o] = history[o] \o m]
    BY <1>4 DEF TailAppends
  <2>2. m \in Seq(Message) /\ o \in Objects
    <3>1. tail[r].writes # <<>> /\ tail[r].writes \in Seq(Seq(Message)) /\ o \in Objects
      BY <1>0, <1>4, TypeFacts DEF TailAppends, TurnInv, RunsShape, Batches
    <3> QED
      BY <3>1, HeadTailProperties
  <2> HIDE DEF m, o
  <2>3. ASSUME live # 0 PROVE IsPrefix(saved.messages, history'[live])
    <3>1. IsPrefix(saved.messages, history[live]) /\ live \in Objects
      BY <1>0, <2>3 DEF SavedFirst
    <3>2. history'[live] = history[live] \/ history'[live] = history[live] \o m
      BY <1>0, <2>1, <3>1
    <3> QED
      BY <1>0, <2>2, <3>1, <3>2, PrefixFacts
  <2> QED
    BY <1>1, <2>1, <2>3 DEF SavedFirst
<1>5. CASE RemoveSession
  BY <1>1, <1>5 DEF RemoveSession, SavedFirst
<1>6. ASSUME UNCHANGED <<saved, live, history>> PROVE SavedFirst' /\ KeepsSaved
  BY <1>1, <1>6 DEF SavedFirst
<1>7. ASSUME NEW p \in Prompts,
             AsideStep(p) \/ OpenRun(p) \/ StreamStops(p) \/ StreamPauses(p) \/ Decide(p)
      PROVE  UNCHANGED <<saved, live, history>>
  BY <1>7 DEF AsideStep, StopCancelled, RunFails, SaveFails, Clear, OpenRun, StreamStops, StreamPauses,
              Decide, sessionVars
<1>8. ASSUME NEW r \in Runs, TailCounts(r) \/ TailRecounts(r) PROVE UNCHANGED <<saved, live, history>>
  BY <1>8 DEF TailCounts, TailRecounts, sessionVars
<1>9. CASE Cancel \/ UNCHANGED vars
  BY <1>6, <1>9 DEF Cancel, vars
<1> QED
  BY <1>2, <1>3, <1>4, <1>5, <1>6, <1>7, <1>8, <1>9
     DEF Next, TurnStep, TailStep, AsideStep, AllDone

\* However turns, tasks, removals and reloads overlap, a save loses nothing that an
\* earlier one stored, unless it reads an empty history while a task writes to it.
THEOREM SavedTurnsStay == TurnConstants => (Spec => TurnsStay)
<1> SUFFICES ASSUME TurnConstants PROVE Spec => TurnsStay
  OBVIOUS
<1>1. TurnInv /\ SavedFirst /\ [Next]_vars => [KeepsSaved]_vars
  BY SavedStep
<1>2. TurnInv /\ SavedFirst /\ [Next]_vars => (TurnInv /\ SavedFirst)'
  BY SavedStep, TurnStepInv
<1> QED
  BY <1>1, <1>2, TurnInit, SavedInit, PTL DEF Spec, TurnsStay

=============================================================================
