------------------------------- MODULE SuperBrain -------------------------------
(* The super brain: framework/src/super_brain. After every Interval-th turn of  *)
(* a session the provider adds the projected turn to the session's projection   *)
(* and queues a job; one worker per provider takes the newest job of the queue, *)
(* drops the older ones and runs the curator agent, which rewrites the memory   *)
(* files. A restart seeds the directory from the template again.                *)
EXTENDS Naturals, FiniteSets, Sequences, SequencesExt

CONSTANTS Sessions, Files, Interval,
          MaxTurns,   \* turns of all sessions
          MaxStarts   \* times the program starts

VARIABLES
    count, projection,   \* per session, and saved with it
    adding, channel, queued, running,  \* the job being queued per session, the queue, its counter, the job that runs
    done, dropped,       \* the last consolidated job of every session, those whose newest job was dropped
    runs, disk, mine, log, turns, starts

vars == <<count, projection, adding, channel, queued, running, done, dropped, runs, disk, mine, log,
          turns, starts>>

Nobody == [of |-> "nobody", messages |-> <<>>]
Tools == {"read_file", "echo", "run_command"}
Knowledge == {"read_file"}
Skipped == {"echo"}

User == [role |-> "user", calls |-> <<>>, id |-> 0]
Assistant(calls) == [role |-> "assistant", calls |-> calls, id |-> 0]
Result(i) == [role |-> "tool", calls |-> <<>>, id |-> i]

\* A turn as build_turn_transcript leaves it: question, calls with their results, answer.
Turn(calls) ==
    <<User>> \o (IF calls = <<>> THEN <<>>
                 ELSE <<Assistant(calls)>> \o [i \in DOMAIN calls |-> Result(i)])
             \o <<Assistant(<<>>)>>
Turns == {Turn(calls) : calls \in {<<>>} \cup [1 .. 1 -> Tools] \cup [1 .. 2 -> Tools]}

\* project_messages: skipped tools lose their call, other results are kept only for knowledge
\* tools. The calls of a turn are numbered, so a kept call is its number.
Orders == {<<>>, <<1>>, <<2>>, <<1, 2>>}
InOrder(ids) == CHOOSE q \in Orders : Range(q) = ids
Kept(calls) == InOrder({i \in DOMAIN calls : calls[i] \notin Skipped})
Results(calls) == InOrder({i \in DOMAIN calls : calls[i] \in Knowledge})
ProjectMessages(turn) ==
    LET calls == IF Len(turn) > 2 THEN turn[2].calls ELSE <<>>
        kept == Kept(calls)
        known == Results(calls)
    IN  <<User>> \o (IF kept = <<>> THEN <<>> ELSE <<Assistant(kept)>>)
        \o [i \in DOMAIN known |-> Result(known[i])] \o <<Assistant(<<>>)>>

\* The turn is added unless it is what the history already ends with.
Merge(history, turn) ==
    IF IsSuffix(turn, history) THEN history ELSE history \o turn

Init ==
    /\ count = [s \in Sessions |-> 0]
    /\ projection = [s \in Sessions |-> <<>>]
    /\ adding = [s \in Sessions |-> Nobody]
    /\ channel = <<>> /\ queued = 0
    /\ running = Nobody
    /\ done = [s \in Sessions |-> <<>>] /\ dropped = {}
    /\ runs = 0
    /\ disk = [f \in Files |-> "none"]
    /\ mine = {}
    /\ log = 0
    /\ turns = 0 /\ starts = 0

Up == starts > 0
InChannel(s) == \E i \in DOMAIN channel : channel[i].of = s
OnItsWay(s) == adding[s] # Nobody \/ InChannel(s) \/ running.of = s

\* maybe_copy: a file that differs from the template stays.
MaybeCopy(old) == IF old = "mine" THEN "mine" ELSE "template"

\* The sessions' state survives with the sessions; the queue does not.
Start ==
    /\ starts < MaxStarts
    /\ starts' = starts + 1
    /\ disk' = [f \in Files |-> MaybeCopy(disk[f])]
    /\ adding' = [s \in Sessions |-> Nobody]
    /\ channel' = <<>> /\ queued' = 0
    /\ running' = Nobody
    /\ dropped' = dropped \cup {s \in Sessions : OnItsWay(s)}
    /\ runs' = 0
    /\ UNCHANGED <<count, projection, done, mine, log, turns>>

\* on_invoked: the counter, then on every Interval-th turn the projection and the queue's counter.
TurnCounted(s) ==
    /\ Up /\ turns < MaxTurns /\ adding[s] = Nobody
    /\ count[s] + 1 < Interval
    /\ count' = [count EXCEPT ![s] = @ + 1]
    /\ turns' = turns + 1
    /\ UNCHANGED <<projection, adding, channel, queued, running, done, dropped, runs, disk, mine, log, starts>>

Enqueue(s, t) ==
    LET merged == Merge(projection[s], ProjectMessages(t)) IN
    /\ Up /\ turns < MaxTurns /\ adding[s] = Nobody
    /\ count[s] + 1 >= Interval
    /\ count' = [count EXCEPT ![s] = 0]
    /\ projection' = [projection EXCEPT ![s] = merged]
    /\ queued' = queued + 1
    /\ adding' = [adding EXCEPT ![s] = [of |-> s, messages |-> merged]]
    /\ dropped' = dropped \ {s}
    /\ turns' = turns + 1
    /\ UNCHANGED <<channel, running, done, runs, disk, mine, log, starts>>
Send(s) ==
    /\ adding[s] # Nobody
    /\ channel' = Append(channel, adding[s])
    /\ adding' = [adding EXCEPT ![s] = Nobody]
    /\ UNCHANGED <<count, projection, queued, running, done, dropped, runs, disk, mine, log, turns, starts>>

\* coalesce_after_recv: the last job wins, whatever sessions the dropped ones are of.
Coalesce(jobs) == jobs[Len(jobs)]

Take ==
    /\ running = Nobody /\ channel # <<>>
    /\ running' = Coalesce(channel)
    /\ queued' = queued - Len(channel)
    /\ channel' = <<>>
    /\ dropped' = dropped \cup {s \in Sessions : InChannel(s) /\ s # running'.of /\ adding[s] = Nobody}
    /\ UNCHANGED <<count, projection, adding, done, runs, disk, mine, log, turns, starts>>

\* The curator writes files while it runs, then the log, and its errors end the job as well.
Writes(f) ==
    /\ running # Nobody /\ running.messages # <<>>
    /\ disk' = [disk EXCEPT ![f] = "mine"]
    /\ mine' = mine \cup {f}
    /\ UNCHANGED <<count, projection, adding, channel, queued, running, done, dropped, runs, log, turns, starts>>
Finish(logged) ==
    /\ running # Nobody
    /\ log' = IF logged /\ log < MaxTurns THEN log + 1 ELSE log
    /\ done' = [done EXCEPT ![running.of] = running.messages]
    /\ running' = Nobody
    /\ runs' = runs + 1
    /\ UNCHANGED <<count, projection, adding, channel, queued, dropped, disk, mine, turns, starts>>

Next ==
    \/ Start
    \/ \E s \in Sessions : TurnCounted(s) \/ Send(s) \/ \E t \in Turns : Enqueue(s, t)
    \/ Take
    \/ \E f \in Files : Writes(f)
    \/ \E logged \in BOOLEAN : Finish(logged)

Spec == Init /\ [][Next]_vars

-------------------------------------------------------------------------------
\* worker_stats never says idle while a job waits, and the counter never goes below zero.
QueueCounted ==
    queued = Len(channel) + Cardinality({s \in Sessions : adding[s] # Nobody})

\* A job waiting or taken never holds less than what was consolidated before it for its session,
\* and with none on its way a session is consolidated as far as it is projected, unless its newest
\* job was dropped for one of another session, or lost by a restart.
NewestWins ==
    /\ \A i \in DOMAIN channel :
           /\ IsPrefix(done[channel[i].of], channel[i].messages)
           /\ channel[i].of = running.of => IsPrefix(running.messages, channel[i].messages)
    /\ running # Nobody => IsPrefix(done[running.of], running.messages)
    /\ \A s \in Sessions \ dropped : OnItsWay(s) \/ done[s] = projection[s]

\* A projected tool result follows the assistant message that holds its call.
ResultsFollowCalls ==
    \A s \in Sessions : \A i \in DOMAIN projection[s] :
        projection[s][i].role = "tool" =>
            \E j \in 1 .. i - 1 :
                /\ projection[s][j].role = "assistant"
                /\ Contains(projection[s][j].calls, projection[s][i].id)
                /\ \A k \in j + 1 .. i : projection[s][k].role = "tool"

\* What the curator wrote survives every start.
MemoriesStay == \A f \in mine : disk[f] = "mine"

BrainKeepsRules == QueueCounted /\ NewestWins /\ ResultsFollowCalls /\ MemoriesStay
===============================================================================
