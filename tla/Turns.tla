--------------------------------- MODULE Turns ---------------------------------
(***************************************************************************)
(* What the tool loop promises about the conversation it builds, with no   *)
(* worker task, no channels and no approvals: the model is consulted only  *)
(* when every call it made has been answered, and a turn adds one message  *)
(* with its calls and one answer per call, in the order of the calls.      *)
(***************************************************************************)
EXTENDS Naturals, Sequences, FiniteSets

CONSTANTS
  Ids,       \* call ids
  Pending,   \* the calls a resumed conversation may be waiting for
  MaxRounds  \* how many turns there may be

VARIABLES
  log, turns, over,
  twice      \* the model's client may announce a call in two ways at once

vars == <<log, turns, over, twice>>

Asks(ids) == <<[kind |-> "asks", ids |-> ids]>>
Answers(ids) == [i \in DOMAIN ids |-> [kind |-> "answer", ids |-> <<ids[i]>>]]
Orders == UNION {[1 .. n -> Ids] : n \in 1 .. (IF twice THEN 2 ELSE 1) * Cardinality(Ids)}
Mentioned == UNION {{log[i].ids[j] : j \in DOMAIN log[i].ids} : i \in DOMAIN log}
Unanswered == log # <<>> /\ log[Len(log)].kind = "asks"

Init ==
  /\ \E p \in Pending : log = IF p = <<>> THEN <<>> ELSE Asks(p)
  /\ turns = 0 /\ over = FALSE /\ twice \in BOOLEAN

\* The calls the conversation was waiting for are answered.
Resume ==
  /\ ~over /\ Unanswered
  /\ log' = log \o Answers(log[Len(log)].ids)
  /\ turns' = turns + 1
  /\ UNCHANGED <<over, twice>>

\* The model makes calls it has not made before, and all are answered.
Turn ==
  /\ ~over /\ ~Unanswered /\ turns < MaxRounds
  /\ \E s \in Orders :
       /\ ~twice => \A i, j \in DOMAIN s : s[i] = s[j] => i = j
       /\ \A i \in DOMAIN s : s[i] \notin Mentioned
       /\ log' = log \o Asks(s) \o Answers(s)
  /\ turns' = turns + 1
  /\ UNCHANGED <<over, twice>>

End ==
  /\ ~over /\ over' = TRUE
  /\ UNCHANGED <<log, turns, twice>>

Next == Resume \/ Turn \/ End

Spec == Init /\ [][Next]_vars
================================================================================
