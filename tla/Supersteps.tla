------------------------------ MODULE Supersteps ------------------------------
(***************************************************************************)
(* What the workflow engine promises about supersteps, with no tasks, no   *)
(* barriers and no halting: a run is a sequence of atomic steps.  A step   *)
(* consumes all the mail there is and leaves the mail its active nodes     *)
(* sent to nodes within their reach; between two steps mail only arrives   *)
(* from outside (a resume command, a timer); a run that is over has thrown *)
(* its mail away and stays over.                                           *)
(***************************************************************************)
EXTENDS Naturals

CONSTANTS
  Target,  \* where mail can be addressed
  Start,   \* the node that gets the initial message
  Reach    \* the pairs <<n, t>> such that a step of n may send mail to t

VARIABLES mail, over

vars == <<mail, over>>

Silence == [t \in Target |-> 0]
Active == {t \in Target : mail[t] > 0}

Init ==
  /\ mail = [t \in Target |-> IF t = Start THEN 1 ELSE 0]
  /\ over = FALSE

Step ==
  /\ ~over /\ Active # {}
  /\ mail' \in [Target -> Nat]
  /\ \A t \in Target : mail'[t] > 0 => \E n \in Active : <<n, t>> \in Reach
  /\ UNCHANGED over

Arrive ==
  /\ ~over
  /\ mail' \in [Target -> Nat]
  /\ \A t \in Target : mail'[t] >= mail[t]
  /\ UNCHANGED over

Stop ==
  /\ ~over
  /\ over' = TRUE /\ mail' = Silence

Next == Step \/ Arrive \/ Stop

Spec == Init /\ [][Next]_vars
=============================================================================
