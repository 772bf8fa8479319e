----------------------------- MODULE DevPipeline ------------------------------
(* The development pipeline (coding/src): expert agents hand their artifacts  *)
(* on through the state of the workflow, and two coders work side by side.    *)
(* The edge that is to join the coders never opens (engine.rs:54), so a run   *)
(* ends behind them; the gateway that judges a review is reached in a graph   *)
(* of its own (coding/tests/feedback_loop.rs), the merger in none.            *)
EXTENDS Naturals, SequencesExt
VARIABLES
  unit,     \* "pipeline", or "review": the gateway's own graph
  queue,    \* per node the messages it has to handle
  state,    \* the state of the workflow: per key what was written last
  human,    \* the human task: "idle", "asking" or "answered"
  status,   \* running, failed or completed
  seen,     \* [stage, key, value] of every artifact an agent got
  review, judged  \* a review, and what the gateway made of it
vars == <<unit, queue, state, human, status, seen, review, judged>>

----------------------------------------------------------------------------
(* The stages: what the agent of each reads, where its answer is kept, and    *)
(* where its message goes; p5 and p6 are behind the coders.                   *)
StageOrder == <<"p1", "p2", "p3", "p4a", "alpha", "beta">>
Stages == ToSet(StageOrder)
Reads ==
  [p1 |-> {}, p2 |-> {"p1"}, p3 |-> {"p1", "p2"}, p4a |-> {"p1", "p2", "p3", "p6"},
   alpha |-> {"p4a", "p3"}, beta |-> {"p4a", "p3"}]
ResetKeys == {"alpha", "beta", "p5", "p6"}
Coders == {"alpha", "beta"}

Inject(s) == <<"inject", s>>
Agent(s) == <<"agent", s>>
Persist(s) == <<"persist", s>>
Confirm == <<"confirm", "p1">>
LoopReset == <<"reset", "p4a">>
Nodes == UNION {{Inject(s), Agent(s), Persist(s)} : s \in Stages} \cup {Confirm, LoopReset}
After ==
  [p1 |-> {Confirm}, p2 |-> {Inject("p3")}, p3 |-> {LoopReset},
   p4a |-> {Inject("alpha"), Inject("beta")}, alpha |-> {}, beta |-> {}]

(* Values of a key: never written, set to Null by the reset, or an answer.   *)
Absent == <<"absent">>
Null == <<"null">>
Answer(s) == <<"answer", s>>

----------------------------------------------------------------------------
(* The reviewer's answer: an object with a verdict and a string, in prose.   *)
Pieces == {<<"{">>, <<"}">>, <<"\\", "\"">>, <<"\\", "\\">>, <<"x">>}
Objects ==
  {<<"{", passed, "\"">> \o p \o r \o <<"\"", "}">> :
     passed \in {"true", "false"}, p \in Pieces, r \in Pieces}
  \cup {<<"{", passed, "{", "}", "}">> : passed \in {"true", "false"}}
Proses == {<<>>, <<"\"">>, <<"{", "}">>}
Reviews == {[before |-> b, object |-> o, after |-> a] : b \in Proses, o \in Objects, a \in {<<>>, <<"}", "{">>}}
Text(r) == r.before \o r.object \o r.after

(* extract_json_object: from the first brace to the one that closes it.       *)
Start(t) == SelectInSeq(t, LAMBDA c : c = "{")
Scan(acc, c) ==
  IF acc.done THEN acc
  ELSE LET more == [acc EXCEPT !.text = Append(@, c)] IN
       CASE c = "\"" /\ ~acc.escape -> [more EXCEPT !.inside = ~@]
         [] c = "\\" /\ acc.inside -> [more EXCEPT !.escape = ~@]
         [] c = "{" /\ ~acc.inside -> [more EXCEPT !.depth = @ + 1]
         [] c = "}" /\ ~acc.inside -> [more EXCEPT !.depth = @ - 1, !.done = acc.depth = 1]
         [] OTHER -> [more EXCEPT !.escape = FALSE]
Extract(t) ==
  LET r == FoldLeft(Scan, [text |-> <<>>, depth |-> 0, inside |-> FALSE, escape |-> FALSE, done |-> FALSE],
                    SubSeq(t, Start(t), Len(t)))
  IN  IF Start(t) = 0 \/ ~r.done THEN <<>> ELSE r.text
(* parse_from_text: what was extracted has to be a verdict.                  *)
Verdict(t) ==
  LET o == Extract(t) IN IF o \in Objects THEN o[2] ELSE "none"

----------------------------------------------------------------------------
Init ==
  /\ unit \in {"pipeline", "review"}
  /\ queue = [n \in Nodes |-> IF unit = "pipeline" /\ n = Inject("p1") THEN 1 ELSE 0]
  /\ state = [s \in Stages \cup ResetKeys |-> Absent]
  /\ human = "idle" /\ status = "running" /\ seen = {}
  /\ review \in (IF unit = "review" THEN {Text(r) : r \in Reviews} ELSE {<<>>})
  /\ judged = "no"

Handles(n) == status = "running" /\ human # "asking" /\ queue[n] > 0
Route(n, targets) ==
  queue' = [m \in Nodes |-> queue[m] - (IF m = n THEN 1 ELSE 0) + (IF m \in targets THEN 1 ELSE 0)]
(* context_inject: what is in the state goes into the prompt, Null as a word; *)
(* what the message says only if there is nothing.                            *)
Collect(s) ==
  /\ Handles(Inject(s))
  /\ seen' = seen \cup {[stage |-> s, key |-> k, value |-> state[k]] :
                          k \in {k \in Reads[s] : state[k] # Absent}}
  /\ Route(Inject(s), {Agent(s)})
  /\ UNCHANGED <<state, human, status>>

(* An agent answers, without a text there is no message, or fails the run.    *)
Work(s) == Handles(Agent(s)) /\ Route(Agent(s), {Persist(s)}) /\ UNCHANGED <<state, human, seen, status>>
Silent(s) == Handles(Agent(s)) /\ Route(Agent(s), {}) /\ UNCHANGED <<state, human, seen, status>>
Breaks(s) ==
  /\ Handles(Agent(s)) /\ status' = "failed"
  /\ UNCHANGED <<queue, state, human, seen>>

(* artifact_persist keeps the answer in the state first and then, but for the *)
(* coders, in a file: a file that cannot be written fails the run.            *)
Keep(s) ==
  /\ Handles(Persist(s))
  /\ state' = [state EXCEPT ![s] = Answer(s)]
  /\ Route(Persist(s), After[s])
  /\ UNCHANGED <<human, seen, status>>
KeepFails(s) ==
  /\ Handles(Persist(s)) /\ s \notin Coders
  /\ state' = [state EXCEPT ![s] = Answer(s)] /\ status' = "failed"
  /\ UNCHANGED <<queue, human, seen>>

Ask ==
  /\ Handles(Confirm) /\ human = "idle"
  /\ human' = "asking" /\ Route(Confirm, {})
  /\ UNCHANGED <<state, seen, status>>
(* Whatever the user replies lets the run go on.                              *)
Reply ==
  /\ status = "running" /\ human = "asking"
  /\ human' = "answered" /\ queue' = [queue EXCEPT ![Inject("p2")] = @ + 1]
  /\ UNCHANGED <<state, seen, status>>

(* loop_reset also runs before the first round; what git restores is left out.*)
Reset ==
  /\ Handles(LoopReset)
  /\ state' = [k \in DOMAIN state |-> IF k \in ResetKeys THEN Null ELSE state[k]]
  /\ Route(LoopReset, {Inject("p4a")})
  /\ UNCHANGED <<human, seen, status>>

Complete ==
  /\ status = "running" /\ human # "asking" /\ \A n \in Nodes : queue[n] = 0
  /\ status' = "completed"
  /\ UNCHANGED <<queue, state, human, seen>>

(* review_gateway: a review that passed is yielded, any other sent back.      *)
Judge ==
  /\ judged = "no"
  /\ judged' = IF Verdict(review) = "true" THEN "passed" ELSE "sent back"
  /\ UNCHANGED <<queue, state, human, seen, status>>

Next ==
  /\ \/ /\ unit = "pipeline"
        /\ \/ \E s \in Stages :
                Collect(s) \/ Work(s) \/ Silent(s) \/ Breaks(s) \/ Keep(s) \/ KeepFails(s)
           \/ Ask \/ Reply \/ Reset \/ Complete
        /\ UNCHANGED judged
     \/ unit = "review" /\ Judge
  /\ UNCHANGED <<unit, review>>

Spec == Init /\ [][Next]_vars

----------------------------------------------------------------------------
(* An agent that begins has been given the artifacts of all the stages before *)
(* it that it reads, each as it was kept, whichever coder is ahead.           *)
Before(s, k) == \E i, j \in DOMAIN StageOrder : i < j /\ StageOrder[i] = k /\ StageOrder[j] = s
HandedOn ==
  \A s \in Stages : \A k \in Reads[s] :
    Before(s, k) /\ (queue[Agent(s)] + queue[Persist(s)] > 0 \/ state[s] = Answer(s)) =>
      [stage |-> s, key |-> k, value |-> Answer(k)] \in seen

(* Nothing is designed before the user replied, and what was kept lasts: only *)
(* a failure or an agent without an answer keeps the run from its last stage. *)
Confirmed == (\E a \in seen : TRUE) => human = "answered"
KeptToTheEnd ==
  status = "completed" =>
    \A i \in DOMAIN StageOrder : state[StageOrder[i]] = Answer(StageOrder[i]) =>
      \A j \in 1..i - 1 : StageOrder[j] \in Coders \/ state[StageOrder[j]] = Answer(StageOrder[j])

(* The gateway finds the verdict whatever prose stands around it, unless the  *)
(* prose before it has braces of its own.                                     *)
VerdictFound ==
  judged # "no" =>
    \A r \in Reviews : Text(r) = review /\ "{" \notin ToSet(r.before) =>
      (judged = "passed" <=> r.object[2] = "true")

PipelineKept == HandedOn /\ Confirmed /\ KeptToTheEnd /\ VerdictFound
============================================================================
