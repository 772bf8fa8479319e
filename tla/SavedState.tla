------------------------------ MODULE SavedState ------------------------------
(***************************************************************************)
(* What a workflow run needs of its checkpoints: one register that holds   *)
(* the last saved state of the run.  It changes in one step, and only to   *)
(* the state the run is in at that moment, whatever crashes, fails or is   *)
(* cleaned up.  WorkflowEngine writes its checkpoints into such a register *)
(* and CheckpointStore is the code that has to behave like one.            *)
(***************************************************************************)
CONSTANT NoState  \* what the register holds before the first save

VARIABLES live,  \* the run: its step number and variables
          saved  \* what a recovery would load

Init == saved = NoState

Work == live' # live /\ UNCHANGED saved

Save == saved' = live

Next == Work \/ Save

Spec == Init /\ [][Next]_<<live, saved>>
=============================================================================
