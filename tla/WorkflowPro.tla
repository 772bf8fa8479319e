------------------------------ MODULE WorkflowPro ------------------------------
(* The business layer over the engine (crates/workflow-pro): sagas, the state  *)
(* of process instances, deadlines, the agent pool, the in-memory broker and   *)
(* the audit trail.  Each is used by many tasks at once; every operation but a *)
(* saga's is one critical section, so a run works on one `unit`.               *)
EXTENDS Integers, FiniteSets, SequencesExt

CONSTANTS
  MaxSteps,   \* bound: steps of a saga
  MaxClock,   \* bound: time
  Deadline,   \* max_duration of the deadline, idle_timeout of the pool
  PoolSize,   \* the pool's max_size
  MaxEntries, \* the trail's max_entries
  MaxOps      \* bound: messages published and entries recorded

VARIABLES unit, clock,
  policy, undoable, at, results, completed, ran, undone,  \* saga
  process, updates,                                       \* process instance
  tracked, told,                                          \* deadline
  pool,                                                   \* agent pool
  topic, receivers,                                       \* broker
  trail, recorded                                         \* audit trail

sagaVars == <<policy, undoable, at, results, completed, ran, undone>>
instanceVars == <<process, updates>>
slaVars == <<tracked, told>>
brokerVars == <<topic, receivers>>
trailVars == <<trail, recorded>>

proVars == <<unit, clock, sagaVars, instanceVars, slaVars, pool, brokerVars, trailVars>>

Units == {"saga", "instance", "sla", "pool", "broker", "audit"}

Init ==
  /\ unit \in Units /\ clock = 0
  /\ policy \in {"backward", "forward"}
  /\ undoable \in UNION {[1..n -> BOOLEAN] : n \in 0..MaxSteps}
  /\ at = 1 /\ results = <<>> /\ completed = <<>> /\ ran = <<>> /\ undone = <<>>
  /\ process = "created" /\ updates = <<>>
  /\ tracked = [since |-> 0, status |-> "pending"] /\ told = 0
  /\ pool = <<>>
  /\ topic = <<>> /\ receivers = {}
  /\ trail = <<>> /\ recorded = 0
  /\ unit # "saga" => policy = "forward" /\ undoable = <<>>

-----------------------------------------------------------------------------
(* SagaOrchestrator::execute: at is the step to run, 0 while compensating and  *)
(* MaxSteps + 2 once the call has returned.                                    *)

SagaOver == MaxSteps + 2

\* A step gets the last result there is, 0 for the initial message; it may have
\* none of its own.
RunStep ==
  /\ at \in DOMAIN undoable
  /\ ran' = Append(ran, <<at, IF results = <<>> THEN 0 ELSE Last(results)>>)
  /\ \E said \in BOOLEAN : results' = IF said THEN Append(results, at) ELSE results
  /\ completed' = Append(completed, at) /\ at' = at + 1
  /\ UNCHANGED <<policy, undoable, undone>>

\* A mutant that forgets to undo the step that completed last.
UndoFromBefore == IF completed = <<>> THEN <<>> ELSE Front(completed)

UndoFrom == completed

\* A failed step is passed over, or the completed ones are undone.
StepFails ==
  /\ at \in DOMAIN undoable
  /\ ran' = Append(ran, <<at, IF results = <<>> THEN 0 ELSE Last(results)>>)
  /\ IF policy = "forward" THEN at' = at + 1 /\ UNCHANGED completed
     ELSE at' = 0 /\ completed' = UndoFrom
  /\ UNCHANGED <<policy, undoable, results, undone>>

\* compensate: from the last completed step back, also past one that fails.
Undo ==
  /\ at = 0 /\ completed # <<>>
  /\ undone' = IF undoable[Last(completed)] THEN Append(undone, Last(completed)) ELSE undone
  /\ completed' = Front(completed)
  /\ UNCHANGED <<policy, undoable, at, results, ran>>

SagaReturns ==
  /\ (at = 0 /\ completed = <<>>) \/ at = Len(undoable) + 1
  /\ at' = SagaOver
  /\ UNCHANGED <<policy, undoable, results, completed, ran, undone>>

Saga == RunStep \/ StepFails \/ Undo \/ SagaReturns

-----------------------------------------------------------------------------
(* ProcessInstance: transitions asked for by anyone at any time.               *)

Final == {"completed", "terminated", "failed"}

Ends(s) == s \notin Final

Allowed(s, to) ==
  CASE to = "running" -> s \in {"created", "suspended"}  \* start and resume
    [] to = "suspended" -> s = "running"
    [] to = "completed" -> s = "running"
    [] OTHER -> Ends(s)

Transition ==
  \E to \in {"running", "suspended"} \cup Final :
    /\ Allowed(process, to)
    /\ process' = to /\ updates' = Append(updates, to)
    /\ Len(updates) < MaxOps

-----------------------------------------------------------------------------
(* SlaTracker: one deadline, its start time and its status.                    *)

IsTracked == tracked.status # "pending"

SlaStart ==
  /\ tracked' = [since |-> clock, status |-> "on_track"] /\ told' = 0

SlaComplete ==
  /\ IsTracked
  /\ tracked' = [tracked EXCEPT !.status =
                   IF clock - tracked.since > Deadline THEN "breached" ELSE "met"]
  /\ UNCHANGED told

NewBreach == tracked.status # "breached"

\* check_all decides by the elapsed time alone, whether or not it was completed.
SlaCheck ==
  /\ IsTracked
  /\ LET elapsed == clock - tracked.since
     IN  IF elapsed > Deadline
         THEN /\ told' = told + (IF NewBreach THEN 1 ELSE 0)
              /\ tracked' = [tracked EXCEPT !.status = "breached"]
         ELSE /\ tracked' = [tracked EXCEPT !.status =
                               IF 5 * elapsed > 4 * Deadline THEN "at_risk" ELSE "on_track"]
              /\ UNCHANGED told

Sla == SlaStart \/ SlaComplete \/ SlaCheck

-----------------------------------------------------------------------------
(* AgentPool.                                                                  *)

AddAgent ==
  /\ pool' = IF Len(pool) < PoolSize
             THEN Append(pool, [healthy |-> TRUE, used |-> clock, requests |-> 0]) ELSE pool

Healthy == {i \in DOMAIN pool : pool[i].healthy}

\* The first healthy agent is shared by everyone; nothing is ever given back.
Acquire ==
  /\ Healthy # {}
  /\ \E i \in Healthy :
       /\ \A j \in Healthy : i <= j
       /\ pool[i].requests < MaxOps
       /\ pool' = [pool EXCEPT ![i].used = clock, ![i].requests = @ + 1]

\* An agent idle for too long is degraded, and no call makes it healthy again.
Heartbeat ==
  pool' = [i \in DOMAIN pool |->
             [pool[i] EXCEPT !.healthy = @ /\ clock - pool[i].used <= Deadline]]

Pool == AddAgent \/ Acquire \/ Heartbeat

-----------------------------------------------------------------------------
(* InMemoryMessageBroker: messages are numbered in the order of publish().     *)

Publish == Len(topic) < MaxOps /\ topic' = Append(topic, Len(topic) + 1) /\ UNCHANGED receivers

Backlog == topic

\* A receiver is a copy of the queue as it is; nothing leaves the queue.
Subscribe ==
  /\ Cardinality(receivers) < 2
  /\ receivers' = receivers \cup
       {[id |-> Cardinality(receivers), queue |-> Backlog, got |-> <<>>]}
  /\ UNCHANGED topic

\* recv() does not wait: past its copy a receiver gets None at once.
Receive ==
  \E r \in receivers :
    /\ Len(r.got) < Len(r.queue)
    /\ receivers' = (receivers \ {r}) \cup {[r EXCEPT !.got = Append(@, r.queue[Len(r.got) + 1])]}
    /\ UNCHANGED topic

Broker == Publish \/ Subscribe \/ Receive

-----------------------------------------------------------------------------
(* AuditTrail, as a ring of its newest entries.                                *)

Full == Len(trail) >= MaxEntries

Record ==
  /\ recorded < MaxOps
  /\ recorded' = recorded + 1
  /\ trail' = Append(IF Full THEN Tail(trail) ELSE trail, recorded + 1)

ClearTrail == trail # <<>> /\ trail' = <<>> /\ UNCHANGED recorded

Audit == Record \/ ClearTrail

Tick == clock < MaxClock /\ clock' = clock + 1

-----------------------------------------------------------------------------
ProNext ==
  \/ unit = "saga" /\ Saga /\ UNCHANGED <<clock, instanceVars, slaVars, pool, brokerVars, trailVars>>
  \/ unit = "instance" /\ Transition /\ UNCHANGED <<clock, sagaVars, slaVars, pool, brokerVars, trailVars>>
  \/ unit = "sla" /\ Sla /\ UNCHANGED <<clock, sagaVars, instanceVars, pool, brokerVars, trailVars>>
  \/ unit = "pool" /\ Pool /\ UNCHANGED <<clock, sagaVars, instanceVars, slaVars, brokerVars, trailVars>>
  \/ unit = "broker" /\ Broker /\ UNCHANGED <<clock, sagaVars, instanceVars, slaVars, pool, trailVars>>
  \/ unit = "audit" /\ Audit /\ UNCHANGED <<clock, sagaVars, instanceVars, slaVars, pool, brokerVars>>
  \/ unit \in {"sla", "pool"} /\ Tick
     /\ UNCHANGED <<sagaVars, instanceVars, slaVars, pool, brokerVars, trailVars>>

Next == ProNext /\ UNCHANGED unit

Spec == Init /\ [][Next]_proVars

-----------------------------------------------------------------------------
\* When a saga that recovers backward returns after a failure, every completed
\* step that can be undone was, no step that never ran was, and the latest ones
\* first; its steps run in order, each fed by an earlier one.  Of the step that
\* failed it says nothing, of which the documentation says both.
SagaUndone ==
  LET failed == ran # <<>> /\ policy = "backward" /\ completed = <<>> /\ at = SagaOver
  IN  /\ failed =>
           /\ {i \in 1..Len(ran) - 1 : undoable[i]} \subseteq ToSet(undone)
           /\ ToSet(undone) \subseteq {i \in 1..Len(ran) : undoable[i]}
           /\ \A i, j \in DOMAIN undone : i < j => undone[j] < undone[i]
      /\ \A i \in DOMAIN ran : ran[i][1] = i /\ ran[i][2] < i

\* A process that has ended stays as it is: what it became is its last update,
\* and no update before that one was an end.
InstanceEndsOnce ==
  \A i \in DOMAIN updates : updates[i] \in Final => i = Len(updates) /\ process = updates[i]

\* A breach is reported once per start, and not before the deadline is over.
BreachOnce ==
  IsTracked => told <= 1 /\ (told = 1 => clock - tracked.since > Deadline)

\* Requests go to a later agent only after every earlier one was degraded.
PoolInOrder ==
  \A i \in DOMAIN pool : pool[i].requests > 0 => \A j \in 1..i - 1 : ~pool[j].healthy

\* However publishing and receiving interleave, receivers get the topic from its
\* beginning, in order and without a gap or a repetition.
ReceivedInOrder ==
  \A r \in receivers : Len(r.got) <= Len(topic) /\ \A i \in DOMAIN r.got : r.got[i] = topic[i]

\* The trail holds the newest entries, in order and up to its size.
TrailNewest ==
  /\ Len(trail) <= MaxEntries
  /\ \A i \in DOMAIN trail : trail[i] = recorded - Len(trail) + i

ServicesKeepRules ==
  /\ SagaUndone /\ InstanceEndsOnce /\ BreachOnce
  /\ PoolInOrder /\ ReceivedInOrder /\ TrailNewest

-----------------------------------------------------------------------------
(* The invariant behind these rules.                                           *)

\* A trail without room could not take its first entry.
ProConstants ==
  /\ MaxEntries \in Nat \ {0} /\ MaxSteps \in Nat /\ MaxClock \in Nat /\ Deadline \in Nat
  /\ PoolSize \in Nat /\ MaxOps \in Nat

SagaType ==
  /\ policy \in {"backward", "forward"} /\ undoable \in Seq(BOOLEAN) /\ Len(undoable) <= MaxSteps
  /\ at \in Nat /\ results \in Seq(Nat) /\ completed \in Seq(Nat) /\ undone \in Seq(Nat)
  /\ ran \in Seq(Nat \X Nat)
InstanceType ==
  /\ process \in {"created", "running", "suspended"} \cup Final
  /\ updates \in Seq({"running", "suspended"} \cup Final)
SlaType ==
  /\ tracked \in [since : Nat, status : {"pending", "on_track", "at_risk", "breached", "met"}]
  /\ told \in Nat
PoolType == pool \in Seq([healthy : BOOLEAN, used : Nat, requests : Nat])
BrokerType ==
  /\ topic \in Seq(Nat) /\ IsFiniteSet(receivers)
  /\ receivers \subseteq [id : Nat, queue : Seq(Nat), got : Seq(Nat)]
TrailType == trail \in Seq(Nat) /\ recorded \in Nat

ProType ==
  /\ unit \in Units /\ clock \in Nat
  /\ SagaType /\ InstanceType /\ SlaType /\ PoolType /\ BrokerType /\ TrailType

\* The steps ran in order, each with an earlier result.
StepsInOrder ==
  /\ \A i \in DOMAIN ran : ran[i][1] = i /\ ran[i][2] < i
  /\ \A i \in DOMAIN results : results[i] \in 1..Len(ran)

\* Before a failure every step is completed; after it those not yet undone are.
SagaProgress ==
  /\ at \in 1..Len(undoable) + 1 => Len(ran) = at - 1 /\ undone = <<>>
  /\ at \in 1..Len(undoable) + 1 /\ policy = "backward" => Len(completed) = at - 1
  /\ at \in 0..Len(undoable) + 1 \cup {SagaOver}
  /\ policy = "backward" => \A i \in DOMAIN completed : completed[i] = i
  /\ at = 0 => policy = "backward"
  /\ policy = "backward" /\ (at = 0 \/ (at = SagaOver /\ completed = <<>> /\ ran # <<>>)) =>
       /\ ran # <<>> /\ Len(ran) <= Len(undoable) /\ Len(completed) < Len(ran)
       /\ ToSet(undone) = {i \in Len(completed) + 1..Len(ran) - 1 : undoable[i]}
       /\ \A i, j \in DOMAIN undone : i < j => undone[j] < undone[i]

BreachKept ==
  /\ tracked.since <= clock /\ told <= 1
  /\ told = 1 => tracked.status = "breached" /\ clock - tracked.since > Deadline

QueuesInOrder ==
  /\ \A i \in DOMAIN topic : topic[i] = i
  /\ \A r \in receivers :
       /\ Len(r.queue) <= Len(topic) /\ \A i \in DOMAIN r.queue : r.queue[i] = i
       /\ Len(r.got) <= Len(r.queue) /\ \A i \in DOMAIN r.got : r.got[i] = i

TrailKept == TrailNewest /\ Len(trail) <= recorded

ProInv ==
  /\ ProType /\ StepsInOrder /\ SagaProgress /\ InstanceEndsOnce /\ BreachKept
  /\ PoolInOrder /\ QueuesInOrder /\ TrailKept
===============================================================================
