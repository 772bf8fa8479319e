----------------------------- MODULE NodeHandlers -----------------------------
(* The nodes that wait: human tasks, timers, catch events and cron triggers.   *)
(* Their executors (executor/human_task.rs, engine/timer.rs, cron.rs,          *)
(* boundary_event.rs) hold one flag behind an Arc, which every run of a        *)
(* cloned graph shares.  Each run is reduced to what reaches the node.         *)
EXTENDS Naturals, Sequences, FiniteSets

CONSTANTS
  Runs,       \* runs of one graph
  MaxTraffic, \* bound: supersteps of a run in which other nodes are active
  MaxAsks,    \* bound: forms and timers of a run
  MaxCron     \* CronTrigger's max_iterations

VARIABLES
  kind,    \* the node: "human", "timer", "signal" or "cron"
  careful, \* one run at a time, one message at a time, every form answered
  flag,    \* awaiting / fired / is_fired
  ticks,   \* CronTrigger's iteration
  at,      \* per run: "fresh", "top", "step", "read", "set", "halted", "done" or "gone"
  inbox,   \* per run: the node's messages, as "message", "answer" or "timer"
  seen,    \* per run: the flag as the handler read it
  halting, \* per run: halt_flag
  pending, \* per run: timers scheduled and not fired
  traffic, \* per run: supersteps the other nodes still cause
  asked,   \* per run: forms and timers it started
  let,     \* per run: messages the node let through
  detached \* per run: its loop is gone and the node's task goes on

waitVars == <<kind, careful, flag, ticks, at, inbox, seen, halting, pending,
              traffic, asked, let, detached>>

Init ==
  /\ kind \in {"human", "timer", "signal", "cron"}
  /\ careful \in BOOLEAN
  /\ flag = FALSE /\ ticks = 0
  /\ at = [r \in Runs |-> "fresh"] /\ inbox = [r \in Runs |-> <<>>]
  /\ seen = [r \in Runs |-> FALSE] /\ halting = [r \in Runs |-> FALSE]
  /\ pending = [r \in Runs |-> 0] /\ asked = [r \in Runs |-> 0]
  /\ let = [r \in Runs |-> 0]
  /\ traffic \in [Runs -> 0..MaxTraffic]
  /\ detached = [r \in Runs |-> FALSE]

Go(r, to) == at' = [at EXCEPT ![r] = to]

\* The first message reaches the node.
Begin(r) ==
  /\ at[r] = "fresh"
  /\ careful => \A q \in Runs : at[q] \in {"fresh", "done", "gone"}
  /\ Go(r, "top") /\ inbox' = [inbox EXCEPT ![r] = <<"message">>]
  /\ UNCHANGED <<kind, careful, flag, ticks, seen, halting, pending, traffic, asked, let, detached>>

\* The loop's head: a halted run waits; else due timers fire, each of them
\* setting the flag and sending a message, and a run without messages is over,
\* its pending timers with it.
LoopHead(r) ==
  /\ at[r] = "top"
  /\ \/ /\ halting[r] /\ Go(r, "halted") /\ UNCHANGED <<inbox, pending, flag>>
     \/ /\ ~halting[r]
        /\ \E due \in 0..pending[r] :
             /\ pending' = [pending EXCEPT ![r] = @ - due]
             /\ flag' = (flag \/ due > 0)
             /\ inbox' = [inbox EXCEPT ![r] = @ \o [i \in 1..due |-> "timer"]]
             /\ Go(r, IF inbox'[r] = <<>> /\ traffic[r] = 0 THEN "done" ELSE "step")
  /\ UNCHANGED <<kind, careful, ticks, seen, halting, traffic, asked, let, detached>>

\* The handler reads the flag in a lock of its own.
ReadFlag(r) ==
  /\ at[r] = "step" /\ inbox[r] # <<>>
  /\ seen' = [seen EXCEPT ![r] = flag] /\ Go(r, "read")
  /\ UNCHANGED <<kind, careful, flag, ticks, inbox, halting, pending, traffic, asked, let, detached>>

\* A mutant that lets a message through and leaves the flag set.
LetThroughKeeping(r) ==
  /\ at[r] = "read" /\ seen[r] /\ kind # "cron"
  /\ inbox' = [inbox EXCEPT ![r] = Tail(@)]
  /\ let' = [let EXCEPT ![r] = @ + 1] /\ Go(r, "step")
  /\ UNCHANGED <<kind, careful, flag, ticks, seen, halting, pending, traffic, asked, detached>>

\* A set flag is taken back and the message at hand goes on, whatever it is.
LetThrough(r) ==
  /\ at[r] = "read" /\ seen[r] /\ kind # "cron"
  /\ flag' = FALSE /\ inbox' = [inbox EXCEPT ![r] = Tail(@)]
  /\ let' = [let EXCEPT ![r] = @ + 1] /\ Go(r, "step")
  /\ UNCHANGED <<kind, careful, ticks, seen, halting, pending, traffic, asked, detached>>

\* A fired cron trigger counts; at its maximum it stops, else it schedules its
\* next time and lets the message through.
Tick(r) ==
  /\ at[r] = "read" /\ seen[r] /\ kind = "cron"
  /\ flag' = FALSE /\ ticks' = ticks + 1
  /\ IF ticks' >= MaxCron THEN UNCHANGED <<pending, asked, let>>
     ELSE /\ asked[r] < MaxAsks
          /\ pending' = [pending EXCEPT ![r] = @ + 1]
          /\ asked' = [asked EXCEPT ![r] = @ + 1] /\ let' = [let EXCEPT ![r] = @ + 1]
  /\ inbox' = [inbox EXCEPT ![r] = Tail(@)] /\ Go(r, "step")
  /\ UNCHANGED <<kind, careful, seen, halting, traffic, detached>>

\* Otherwise the node starts waiting: a timer, a halt or a form and a halt.
Wait(r) ==
  /\ at[r] = "read" /\ ~seen[r] /\ asked[r] < MaxAsks
  /\ asked' = [asked EXCEPT ![r] = @ + 1]
  /\ inbox' = [inbox EXCEPT ![r] = Tail(@)]
  /\ IF kind \in {"timer", "cron"}
     THEN pending' = [pending EXCEPT ![r] = @ + 1] /\ UNCHANGED halting
     ELSE halting' = [halting EXCEPT ![r] = TRUE] /\ UNCHANGED pending
  /\ Go(r, IF kind = "human" THEN "set" ELSE "step")
  /\ UNCHANGED <<kind, careful, flag, ticks, seen, traffic, let, detached>>

\* Only after its two awaits does the human task note that it waits.
NoteWaiting(r) ==
  /\ at[r] = "set"
  /\ flag' = TRUE /\ Go(r, "step")
  /\ UNCHANGED <<kind, careful, ticks, inbox, seen, halting, pending, traffic, asked, let, detached>>

\* The superstep ends; another node may have sent to this one meanwhile.  With
\* the task of a run whose loop is gone, the run is over.
EndStep(r) ==
  /\ at[r] = "step" /\ inbox[r] = <<>>
  /\ traffic' = [traffic EXCEPT ![r] = IF @ = 0 THEN 0 ELSE @ - 1]
  /\ \/ UNCHANGED inbox
     \/ /\ ~careful /\ ~detached[r] /\ traffic[r] > 0
        /\ \E n \in 1..2 : inbox' = [inbox EXCEPT ![r] = [i \in 1..n |-> "message"]]
  /\ Go(r, IF detached[r] THEN "gone" ELSE "top")
  /\ UNCHANGED <<kind, careful, flag, ticks, seen, halting, pending, asked, let, detached>>

\* A resume command: an answer injected for the node, or a bare Continue.
Resume(r) ==
  /\ at[r] = "halted"
  /\ \/ inbox' = [inbox EXCEPT ![r] = Append(@, "answer")]
     \/ ~careful /\ UNCHANGED inbox
  /\ halting' = [halting EXCEPT ![r] = FALSE] /\ Go(r, "top")
  /\ UNCHANGED <<kind, careful, flag, ticks, seen, pending, traffic, asked, let, detached>>

\* Aborted, dropped, timed out or failed: the flag stays as it is, and a task
\* that has the node's messages goes through them all the same.
Abandon(r) ==
  /\ ~careful /\ ~detached[r] /\ at[r] \notin {"fresh", "done", "gone"}
  /\ detached' = [detached EXCEPT ![r] = TRUE]
  /\ Go(r, IF at[r] \in {"top", "halted"} THEN "gone" ELSE at[r])
  /\ UNCHANGED <<kind, careful, flag, ticks, inbox, seen, halting, pending, traffic, asked, let>>

Settled ==
  /\ \A r \in Runs : at[r] \in {"fresh", "done", "gone"} \/ asked[r] = MaxAsks
  /\ UNCHANGED waitVars

Next ==
  \/ \E r \in Runs :
       \/ Begin(r) \/ LoopHead(r) \/ ReadFlag(r) \/ LetThrough(r) \/ Tick(r) \/ Wait(r)
       \/ NoteWaiting(r) \/ EndStep(r) \/ Resume(r) \/ Abandon(r)
  \/ Settled

Spec == Init /\ [][Next]_waitVars

-----------------------------------------------------------------------------
\* What a handler asked for, over all runs.
Asked == UNION {{r} \X (1..asked[r]) : r \in Runs}

\* Whatever the runs of a graph do, overlapping, abandoned with the flag set or
\* answered by a bare Continue: a node lets no more of a run's messages through
\* than forms and timers all runs together have asked for.  Two handlers that
\* read one set flag each let one message through, but none of them two.
FlagsAreAsked == \A r \in Runs : let[r] <= Cardinality(Asked)

\* Of runs that follow each other and always answer: nothing goes on that the run
\* itself did not ask for, and a flag never outlives the run that set it.
WaitingIsOwn ==
  careful =>
    /\ \A r \in Runs : let[r] <= asked[r]
    /\ (\A r \in Runs : at[r] \in {"fresh", "done"}) => ~flag

\* All runs together get one message less through a cron trigger than its
\* maximum, however their reads of its flag interleave.
Passed == UNION {{r} \X (1..let[r]) : r \in Runs}
CronBounded == kind = "cron" => Cardinality(Passed) < MaxCron

NodesWait == FlagsAreAsked /\ WaitingIsOwn /\ CronBounded

-----------------------------------------------------------------------------
(* The invariant behind these rules.                                           *)

WaitConstants == IsFiniteSet(Runs) /\ MaxCron \in Nat \ {0} /\ {MaxAsks, MaxTraffic} \subseteq Nat

Messages == {"message", "answer", "timer"}

WaitType ==
  /\ kind \in {"human", "timer", "signal", "cron"} /\ careful \in BOOLEAN /\ flag \in BOOLEAN
  /\ at \in [Runs -> {"fresh", "top", "step", "read", "set", "halted", "done", "gone"}]
  /\ seen \in [Runs -> BOOLEAN] /\ halting \in [Runs -> BOOLEAN]
  /\ ticks \in Nat /\ pending \in [Runs -> Nat] /\ asked \in [Runs -> Nat]
  /\ let \in [Runs -> Nat] /\ traffic \in [Runs -> Nat]
  /\ inbox \in [Runs -> Seq(Messages)] /\ detached \in [Runs -> BOOLEAN]

\* A handler that runs has the message it was called for.
HasMessage == \A r \in Runs : at[r] = "read" => inbox[r] # <<>>

Active(r) == at[r] \notin {"fresh", "done", "gone"}

\* One run at a time; between runs nothing waits.
OneAtATime ==
  /\ \A r, q \in Runs : Active(r) /\ Active(q) => r = q
  /\ (\A r \in Runs : ~Active(r)) => ~flag
  /\ \A r \in Runs : at[r] # "gone"
  /\ \A r \in Runs : at[r] = "fresh" =>
       inbox[r] = <<>> /\ pending[r] = 0 /\ asked[r] = 0 /\ let[r] = 0 /\ ~halting[r]

\* A run waits for one thing: a timer, an answer or the node's next message.
WaitsFor(r) ==
  /\ pending[r] + Len(inbox[r]) <= 1
  /\ at[r] = "read" => (seen[r] <=> flag)
  /\ at[r] = "halted" => halting[r]
  /\ halting[r] => inbox[r] = <<>>
  /\ flag => halting[r] \/ inbox[r] # <<>>
  /\ kind \in {"timer", "cron"} => ~halting[r] /\ at[r] # "set"
  /\ kind \in {"human", "signal"} => pending[r] = 0
  /\ kind = "human" /\ at[r] = "set" => halting[r] /\ ~flag
  /\ kind = "signal" => ~flag /\ at[r] # "set"
WaitsForOne == \A r \in Runs : Active(r) => WaitsFor(r)

\* What was asked for and has not come yet is still ahead.
AsksOf(r) ==
  /\ let[r] <= asked[r]
  /\ Active(r) /\ kind = "timer" => let[r] + pending[r] + (IF flag THEN 1 ELSE 0) <= asked[r]
  /\ Active(r) /\ kind = "human" => let[r] + (IF flag \/ at[r] = "set" THEN 1 ELSE 0) <= asked[r]
  /\ kind = "signal" => let[r] = 0
AsksAhead == \A r \in Runs : AsksOf(r)

\* What was asked for and has come, or come to nothing, over all runs: each of
\* these has set the flag at most once, and a run lets one message through for
\* each time the flag was set.
Come(r) == asked[r] - pending[r] - (IF at[r] = "set" THEN 1 ELSE 0)
Came == UNION {{r} \X (1..Come(r)) : r \in Runs}
LetsNext(r) == flag \/ (at[r] = "read" /\ seen[r])
FlagsCounted ==
  \A r \in Runs :
    /\ Come(r) >= 0 /\ asked[r] <= MaxAsks
    /\ let[r] + (IF LetsNext(r) THEN 1 ELSE 0) <= Cardinality(Came)

\* A cron trigger ticks for each message it lets through.
CronCounted == IsFiniteSet(Passed) /\ Cardinality(Passed) <= ticks /\ Cardinality(Passed) < MaxCron

WaitInv ==
  /\ WaitType /\ HasMessage /\ FlagsCounted
  /\ careful => (\A r \in Runs : ~detached[r]) /\ OneAtATime /\ WaitsForOne /\ AsksAhead
  /\ kind = "cron" => CronCounted
===============================================================================
