------------------------------- MODULE AgentTurn -------------------------------
(* The prompts of one ACP session, end to end: the host's prompt handler with   *)
(* its cancel token and approval loop (host/src/handler/prompt.rs), the session *)
(* bridge and its store (host/src/bridge/session.rs), a run of the agent with   *)
(* the task that persists its messages in the background                        *)
(* (framework/src/agent/run.rs, post_invoke.rs, context/history.rs) and the     *)
(* session object they share (core/src/session.rs).  Handlers of a connection   *)
(* run one after another, so that looking a session up and registering a token  *)
(* are one action; the spawned turns and the persisting tasks interleave freely.*)
EXTENDS Naturals, Sequences, SequencesExt, FiniteSets

CONSTANTS
  Prompts,    \* the prompts a client sends to the session
  None,       \* no token: not one of the prompts
  MaxRuns,    \* bound: runs of the agent, over all turns
  MaxBusy,    \* the same bound where turns overlap freely
  MaxObjects  \* bound: session objects made for the one session id

VARIABLES
  pc,         \* pc[p]: where the task of turn p stands
  object,     \* object[p]: the session object the turn holds
  runs,       \* runs[p]: runs of the agent the turn has started
  cancelled,  \* cancelled[p]: the cancel flag of the turn
  granted,    \* granted[p]: the last run whose calls the client approved, or 0
  executed,   \* executed[p]: a resumed run found and executed its pending calls
  live,       \* the session object in the bridge's table, or 0
  token,      \* the turn whose cancel token is registered in it
  history,    \* history[o]: messages of session object o
  count,      \* count[o]: message_count in the metadata of o
  made,       \* session objects made so far
  tail,       \* tail[<<p, k>>]: the persisting task of run k of turn p
  saved,      \* the session in the store
  torn,       \* history: a session was loaded whose count is not that of its messages
  calm        \* the client waits: it sends a prompt when the last one is answered and kept

vars == <<pc, object, runs, cancelled, granted, executed, live, token, history,
          count, made, tail, saved, torn, calm>>
turnVars == <<object, cancelled, granted, executed>>
sessionVars == <<live, token, history, count, made, saved, torn>>

Objects == 1..MaxObjects
Runs == Prompts \X (1..MaxRuns)
Message == [role: {"user", "assistant"}, turn: Prompts, calls: BOOLEAN]
Question(p) == [role |-> "user", turn |-> p, calls |-> FALSE]
NoTail == [at |-> "none", request |-> <<>>, reply |-> <<>>, writes |-> <<>>]

Init ==
  /\ pc = [p \in Prompts |-> "unsent"]
  /\ object = [p \in Prompts |-> 1]
  /\ runs = [p \in Prompts |-> 0]
  /\ cancelled = [p \in Prompts |-> FALSE]
  /\ granted = [p \in Prompts |-> 0]
  /\ executed = [p \in Prompts |-> FALSE]
  /\ live = 1 /\ made = 1 /\ token = None
  /\ history = [o \in Objects |-> <<>>]
  /\ count = [o \in Objects |-> 0]
  /\ tail = [r \in Runs |-> NoTail]
  /\ saved = [messages |-> <<>>, count |-> 0]
  /\ torn = FALSE
  /\ calm \in BOOLEAN

-----------------------------------------------------------------------------
(* The client and the connection's handlers.                                   *)

\* A task that still has something to persist.
Persisting(r) == tail[r].at \in {"start", "history", "count"}

\* Nothing of the session is under way.
Quiet == /\ \A q \in Prompts : pc[q] \in {"unsent", "done"}
         /\ \A r \in Runs : ~Persisting(r)

\* load_or_create_session, and a mutant that never finds the stored session.
LoadedNothing == [messages |-> <<>>, count |-> 0]
Loaded == saved

\* The number of the next session object.
NextObject == made + 1

\* handle_prompt: look the session up, loading it from the store when it is not
\* in the table, and register a fresh cancel token over the one that is there.
Prompt(p) ==
  /\ pc[p] = "unsent"
  /\ calm => Quiet
  /\ live = 0 => made < MaxObjects
  /\ LET o == IF live = 0 THEN NextObject ELSE live
     IN  /\ live' = o
         /\ object' = [object EXCEPT ![p] = o]
         /\ IF live = 0
            THEN /\ made' = o
                 /\ history' = [history EXCEPT ![o] = Loaded.messages]
                 /\ count' = [count EXCEPT ![o] = Loaded.count]
                 /\ torn' = (torn \/ Loaded.count # Len(Loaded.messages))
            ELSE UNCHANGED <<made, history, count, torn>>
  /\ token' = p
  /\ pc' = [pc EXCEPT ![p] = "top"]
  /\ UNCHANGED <<runs, cancelled, granted, executed, tail, saved, calm>>

\* session/cancel: whichever token is registered is raised.
Cancel ==
  /\ live # 0 /\ token # None /\ ~cancelled[token]
  /\ cancelled' = [cancelled EXCEPT ![token] = TRUE]
  /\ UNCHANGED <<pc, object, runs, granted, executed, live, token, history,
                 count, made, tail, saved, torn, calm>>

\* session/delete and session/close: the table forgets the session; its turns
\* go on with the object they hold, and the store is left alone.
RemoveSession ==
  /\ live # 0 /\ made < MaxObjects
  /\ live' = 0 /\ token' = None
  /\ UNCHANGED <<pc, object, runs, cancelled, granted, executed, history, count,
                 made, tail, saved, torn, calm>>

-----------------------------------------------------------------------------
(* The task of a turn.                                                         *)

Goto(p, where) == pc' = [pc EXCEPT ![p] = where]

StopCancelled(p) ==
  /\ pc[p] = "top" /\ cancelled[p]
  /\ Goto(p, "save")
  /\ UNCHANGED <<runs, turnVars, sessionVars, tail, calm>>

\* agent.run or the chat client fails before there is a stream.
RunFails(p) ==
  /\ pc[p] = "top" /\ ~cancelled[p]
  /\ Goto(p, "save")
  /\ UNCHANGED <<runs, turnVars, sessionVars, tail, calm>>

\* The bound on runs.
MayRun == Cardinality({r \in Runs : tail[r].at # "none"})
            < (IF calm THEN MaxRuns ELSE MaxBusy)

\* What a run asks the model: the session, then what the caller passed, which is
\* the question on the first run and nothing on a resumed one.
Asked(p) ==
  history[object[p]] \o (IF runs[p] = 0 THEN <<Question(p)>> ELSE <<>>)

\* The calls a resumed run executes are those of the last assistant message that
\* has any.
HasPending(request) == \E i \in DOMAIN request : request[i].calls

OpenRun(p) ==
  /\ pc[p] = "top" /\ ~cancelled[p]
  /\ MayRun
  /\ runs' = [runs EXCEPT ![p] = @ + 1]
  /\ tail' = [tail EXCEPT ![<<p, runs[p] + 1>>] =
                [NoTail EXCEPT !.at = "open", !.request = Asked(p)]]
  /\ executed' = [executed EXCEPT
                    ![p] = @ \/ (granted[p] > 0 /\ HasPending(Asked(p)))]
  /\ Goto(p, "streaming")
  /\ UNCHANGED <<object, cancelled, granted, sessionVars, calm>>

\* AgentResponseConverter::finalize turns the calls that were announced and not
\* executed into complete calls only for these finish reasons.
Flushes(outcome) == outcome \in {"tool_calls", "stop", "max_rounds"}

\* build_turn_transcript without the caller's messages: the text of the stream
\* and its complete calls.  A paused stream has text: the approval requests.
Transcript(p, outcome, text) ==
  LET open == outcome = "awaiting"
  IN  IF text \/ open
      THEN <<[role |-> "assistant", turn |-> p, calls |-> open /\ Flushes(outcome)]>>
      ELSE <<>>

Current(p) == <<p, runs[p]>>

\* The stream ends for good: it is dropped with the loop that reads it.
StreamStops(p) ==
  /\ pc[p] = "streaming"
  /\ \E text \in BOOLEAN :
       tail' = [tail EXCEPT ![Current(p)].at = "start",
                            ![Current(p)].reply = Transcript(p, "stop", text)]
  /\ Goto(p, "save")
  /\ UNCHANGED <<runs, turnVars, sessionVars, calm>>

\* The stream pauses for approval; it stays open until the client has answered.
StreamPauses(p) ==
  /\ pc[p] = "streaming" /\ MayRun
  /\ tail' = [tail EXCEPT ![Current(p)].reply = Transcript(p, "awaiting", TRUE)]
  /\ Goto(p, "asking")
  /\ UNCHANGED <<runs, turnVars, sessionVars, calm>>

\* request_tool_approval for every pending call: with one approved the agent is
\* run again, with all rejected (or no answer) the turn ends.
Decide(p) ==
  /\ pc[p] = "asking"
  /\ tail' = [tail EXCEPT ![Current(p)].at = "start"]
  /\ \/ /\ granted' = [granted EXCEPT ![p] = runs[p]]
        /\ Goto(p, "top")
     \/ /\ Goto(p, "save")
        /\ UNCHANGED granted
  /\ UNCHANGED <<runs, object, cancelled, executed, sessionVars, calm>>

\* A field of the session whose writer is at work reads as its default.
Writing(o, where) == \E r \in Runs : object[r[1]] = o /\ tail[r].at = where
Snapshots(o) ==
  {s \in [messages : {history[o], <<>>}, count : {count[o], 0}] :
     /\ s.messages # history[o] => Writing(o, "history")
     /\ s.count # count[o] => Writing(o, "count")}

\* The response is sent; save_session then writes the object in the table,
\* whoever's turn it is, and waits for no task that still persists.
Save(p) ==
  /\ pc[p] = "save"
  /\ Goto(p, "clear")
  /\ IF live = 0 THEN UNCHANGED saved ELSE saved' \in Snapshots(live)
  /\ UNCHANGED <<runs, turnVars, live, token, history, count, made, torn, tail, calm>>

SaveFails(p) ==
  /\ pc[p] = "save"
  /\ Goto(p, "clear")
  /\ UNCHANGED <<runs, turnVars, sessionVars, tail, calm>>

\* A mutant that leaves the token in the table.
ClearKeeps(p) ==
  /\ pc[p] = "clear"
  /\ Goto(p, "done")
  /\ UNCHANGED <<runs, turnVars, sessionVars, tail, calm>>

\* clear_cancel_token: whichever token is registered is removed.
Clear(p) ==
  /\ pc[p] = "clear"
  /\ Goto(p, "done")
  /\ token' = None
  /\ UNCHANGED <<runs, turnVars, live, history, count, made, saved, torn, tail, calm>>

-----------------------------------------------------------------------------
(* The persisting task of a run, started when the stream has been dropped.     *)

IsQuestion(m) == m.role = "user"

\* A mutant that takes every question of the request for new.
FreshAll(request, n) == SelectSeq(request, IsQuestion)

\* InMemoryHistoryProvider::on_invoked takes for new what the request holds
\* beyond the messages counted in the session now.  The provider is the only one
\* that changes the request here and it loads the history: messages that another
\* context provider adds or replaces would shift the index.
Fresh(request, n) ==
  LET new == {i \in DOMAIN request : i > n /\ IsQuestion(request[i])}
  IN  [k \in 1..Cardinality(new) |->
         request[CHOOSE i \in new : Cardinality({j \in new : j < i}) = k - 1]]

\* A call of add_messages_batch, which is left out for no messages.
Batch(messages) == IF messages = <<>> THEN <<>> ELSE <<messages>>

\* The task with these batches left to write.
Left(writes) ==
  [NoTail EXCEPT !.at = IF writes = <<>> THEN "done" ELSE "history",
                 !.writes = writes]

TailCounts(r) ==
  /\ tail[r].at = "start"
  /\ \E n \in {s.count : s \in Snapshots(object[r[1]])} :
       tail' = [tail EXCEPT ![r] =
                  Left(Batch(Fresh(tail[r].request, n)) \o Batch(tail[r].reply))]
  /\ UNCHANGED <<pc, runs, turnVars, sessionVars, calm>>

\* add_messages_batch: the history under one lock ...
TailAppends(r) ==
  /\ tail[r].at = "history"
  /\ history' = [history EXCEPT ![object[r[1]]] = @ \o Head(tail[r].writes)]
  /\ tail' = [tail EXCEPT ![r].at = "count"]
  /\ UNCHANGED <<pc, runs, turnVars, live, token, count, made, saved, torn, calm>>

\* ... and the metadata under another.
TailRecounts(r) ==
  /\ tail[r].at = "count"
  /\ count' = [count EXCEPT ![object[r[1]]] = @ + Len(Head(tail[r].writes))]
  /\ tail' = [tail EXCEPT ![r] = Left(Tail(tail[r].writes))]
  /\ UNCHANGED <<pc, runs, turnVars, live, token, history, made, saved, torn, calm>>

-----------------------------------------------------------------------------
TurnStep(p) ==
  \/ StopCancelled(p) \/ RunFails(p) \/ OpenRun(p)
  \/ StreamStops(p) \/ StreamPauses(p) \/ Decide(p)
  \/ Save(p) \/ SaveFails(p) \/ Clear(p)

TailStep(r) == TailCounts(r) \/ TailAppends(r) \/ TailRecounts(r)

AllDone ==
  /\ Quiet
  /\ UNCHANGED vars

Next ==
  \/ \E p \in Prompts : Prompt(p) \/ TurnStep(p)
  \/ \E r \in Runs : TailStep(r)
  \/ Cancel \/ RemoveSession
  \/ AllDone

Spec == Init /\ [][Next]_vars

-----------------------------------------------------------------------------
TypeOK ==
  /\ pc \in [Prompts -> {"unsent", "top", "streaming", "asking", "save",
                         "clear", "done"}]
  /\ object \in [Prompts -> Objects]
  /\ runs \in [Prompts -> 0..MaxRuns]
  /\ cancelled \in [Prompts -> BOOLEAN]
  /\ granted \in [Prompts -> 0..MaxRuns]
  /\ executed \in [Prompts -> BOOLEAN]
  /\ live \in 0..made /\ made \in Objects
  /\ token \in Prompts \union {None}
  /\ history \in [Objects -> Seq(Message)]
  /\ count \in [Objects -> Nat]
  /\ tail \in [Runs -> [at : {"none", "open", "start", "history", "count", "done"},
                        request : Seq(Message), reply : Seq(Message),
                        writes : Seq(Seq(Message))]]
  /\ saved \in [messages : Seq(Message), count : Nat]
  /\ torn \in BOOLEAN
  /\ calm \in BOOLEAN

\* A cancel never reaches a turn that is over: whatever turns overlap, sessions
\* are removed and tokens are replaced, a token in the table belongs to a turn
\* that still runs (register_cancel_token, clear_cancel_token).
TokenOwned == token # None => pc[token] \notin {"unsent", "done"}

\* A client that waits, turns that were not run again after an approval, and no
\* session loaded from a save that a persisting task tore.
Smooth == calm /\ ~torn /\ \A p \in Prompts : runs[p] <= 1

\* Then a session is a conversation: every question is in it once, and an answer
\* follows the question of its own turn, across cancels, failed runs, sessions
\* removed under a turn, saves while a task persists and sessions loaded again
\* (on_invoked counting what is new, and the transcript added after it).
Conversation ==
  Smooth =>
    \A o \in Objects : \A i \in DOMAIN history[o] :
      LET m == history[o][i] IN
      /\ IsQuestion(m) => \A j \in 1..(i - 1) : history[o][j].turn # m.turn
      /\ ~IsQuestion(m) => i > 1 /\ history[o][i - 1].turn = m.turn

\* A save loses nothing that an earlier one stored: whatever turns overlap and
\* whichever sessions are removed and loaded again, the stored messages only
\* grow at their end, but for a save that reads an empty history because a task
\* is just writing to it (save_session, load_or_create_session).
KeepsSaved ==
  \/ IsPrefix(saved.messages, saved'.messages)
  \/ saved'.messages = <<>> /\ live # 0 /\ Writing(live, "history")
TurnsStay == [][KeepsSaved]_vars

\* Approved calls are executed: a turn that is run again after the client has
\* approved its calls, and that finds its paused answer in the session, executes
\* them (README.md and run_options.rs say that the session holds them).
ApprovedCallRuns ==
  calm => \A p \in Prompts :
    /\ granted[p] > 0 /\ runs[p] > granted[p]
    /\ \E m \in ToSet(tail[Current(p)].request) : m.turn = p /\ ~IsQuestion(m)
    => executed[p]

===============================================================================
