-------------------------- MODULE MCWorkflowsProofs --------------------------
(***************************************************************************)
(* What the runs check of the parts around the workflow engine, for every  *)
(* value of their constants: the checkpoints under overlapping clean-ups,  *)
(* the channels of a run, group chats, nodes that wait and the services.   *)
(***************************************************************************)
EXTENDS MCWorkflows, FiniteSetTheorems, SequenceTheorems, TLAPS

\* A step stays within its part.
LEMMA PartSteps ==
  ASSUME [Next]_vars
  PROVE  /\ part' = part
         /\ part = "overlap" => K!Next \/ UNCHANGED K!vars
         /\ part = "outputs" => W!O!Next \/ UNCHANGED W!O!vars
         /\ part = "chat" => W!C!Next \/ UNCHANGED W!C!chatVars
         /\ part = "node" => W!N!Next \/ UNCHANGED W!N!waitVars
         /\ part = "pro" => W!P!Next \/ UNCHANGED W!P!proVars
<1>1. CASE Next
  BY <1>1 DEF Next, OverlapStep, OutputsStep, GraphStep, ChatStep, NodeStep, ActionsStep, AgentsStep,
      PhasesStep, ScriptStep, ProStep
<1>2. CASE UNCHANGED vars
  BY <1>2 DEF vars, K!vars, K!diskVars, K!opVars, K!runVars, W!O!vars, W!O!engineVars, W!O!agentVars, W!C!chatVars, W!N!waitVars,
      W!P!proVars, W!P!sagaVars, W!P!instanceVars, W!P!slaVars, W!P!brokerVars, W!P!trailVars
<1> QED
  BY <1>1, <1>2

-----------------------------------------------------------------------------
(* The checkpoints of a run while clean-ups overlap its saves.              *)

OverlapInv == part = "overlap" => K!TypeInv /\ K!OverlapInv

\* For any keys and values, any interval of full snapshots and any bounds: if
\* two checkpoints or more are kept, the latest that is listed can be loaded,
\* wherever the process crashes and whatever a clean-up overlaps.
THEOREM LatestStaysLoadable == MaxCheckpoints >= 2 => (Spec => []LatestLoads)
<1> SUFFICES ASSUME MaxCheckpoints >= 2 PROVE Spec => []LatestLoads
  OBVIOUS
<1>1. Init => OverlapInv
  BY CheckpointConstants, K!TypeInit, K!OverlapInit DEF Init, OverlapInv
<1>2. OverlapInv /\ [Next]_vars => OverlapInv'
  <2> SUFFICES ASSUME OverlapInv, [Next]_vars, part' = "overlap" PROVE (K!TypeInv /\ K!OverlapInv)'
    BY DEF OverlapInv
  <2>1. part = "overlap" /\ [K!Next]_(K!vars)
    BY PartSteps
  <2> QED
    BY <2>1, CheckpointConstants, K!TypeStep, K!OverlapStep DEF OverlapInv
<1>3. OverlapInv => LatestLoads
  BY CheckpointConstants, K!OverlapSafe DEF OverlapInv, LatestLoads
<1> QED
  BY <1>1, <1>2, <1>3, PTL DEF Spec

\* For any bounds of the channels and any nodes: whoever reads a run learns everything that
\* was yielded and how it ended, also when the ring of its events overwrites some.
ChannelsInv == part = "outputs" => W!O!OutputsInv

THEOREM EverythingIsTold == Spec => []NothingLost
<1>1. Init => ChannelsInv
  BY PartConstants, W!ChannelsInit DEF Init, ChannelsInv
<1>2. ChannelsInv /\ [Next]_vars => ChannelsInv'
  <2> SUFFICES ASSUME ChannelsInv, [Next]_vars, part' = "outputs" PROVE W!O!OutputsInv'
    BY DEF ChannelsInv
  <2>1. part = "outputs" /\ [W!O!Next]_(W!O!vars)
    BY PartSteps
  <2> QED
    BY <2>1, PartConstants, W!ChannelsStep DEF ChannelsInv
<1>3. ChannelsInv => NothingLost
  BY PartConstants, W!ChannelsSafe DEF ChannelsInv, NothingLost
<1> QED
  BY <1>1, <1>2, <1>3, PTL DEF Spec

\* For any number of participants, runs and rounds: a chat hears as many rounds as it may,
\* turns are shared fairly and a keyword ends it.
ChatsInv == part = "chat" => W!C!ChatInv

THEOREM ChatsKeepRules == Spec => []ChatKeepsRules
<1>1. Init => ChatsInv
  BY PartConstants, W!ChatInit DEF Init, ChatsInv
<1>2. ChatsInv /\ [Next]_vars => ChatsInv'
  <2> SUFFICES ASSUME ChatsInv, [Next]_vars, part' = "chat" PROVE W!C!ChatInv'
    BY DEF ChatsInv
  <2>1. part = "chat" /\ [W!C!Next]_(W!C!chatVars)
    BY PartSteps
  <2> QED
    BY <2>1, PartConstants, W!ChatInvStep DEF ChatsInv
<1>3. ChatsInv => ChatKeepsRules
  BY PartConstants, W!ChatSafe DEF ChatsInv, ChatKeepsRules
<1> QED
  BY <1>1, <1>2, <1>3, PTL DEF Spec

\* For any runs of a graph: whatever they do, a node lets no more of a run through than all runs have
\* asked for, and a cron trigger keeps to its maximum; if they follow each other and are answered,
\* it lets nothing through that its own run did not ask for.
NodesInv == part = "node" => W!N!WaitInv

THEOREM NodesAlwaysWait == Spec => []NodesWait
<1>1. Init => NodesInv
  BY PartConstants, W!WaitInit DEF Init, NodesInv
<1>2. NodesInv /\ [Next]_vars => NodesInv'
  <2> SUFFICES ASSUME NodesInv, [Next]_vars, part' = "node" PROVE W!N!WaitInv'
    BY DEF NodesInv
  <2>1. part = "node" /\ [W!N!Next]_(W!N!waitVars)
    BY PartSteps
  <2> QED
    BY <2>1, PartConstants, W!WaitStep DEF NodesInv
<1>3. NodesInv => NodesWait
  BY PartConstants, W!WaitSafe DEF NodesInv, NodesWait
<1> QED
  BY <1>1, <1>2, <1>3, PTL DEF Spec

\* For any saga, deadline, sizes and bounds: completed steps are undone in reverse, ends are
\* final, breaches are told once, the pool fails over, receivers get a topic from its beginning
\* in order, and the trail is the newest of what was recorded.
ServicesInv == part = "pro" => W!P!ProInv

THEOREM ServicesAlwaysKeepRules == Spec => []ServicesKeepRules
<1>1. Init => ServicesInv
  BY PartConstants, W!ProInit DEF Init, ServicesInv
<1>2. ServicesInv /\ [Next]_vars => ServicesInv'
  <2> SUFFICES ASSUME ServicesInv, [Next]_vars, part' = "pro" PROVE W!P!ProInv'
    BY DEF ServicesInv
  <2>1. part = "pro" /\ [W!P!Next]_(W!P!proVars)
    BY PartSteps
  <2> QED
    BY <2>1, PartConstants, W!ProInvStep DEF ServicesInv
<1>3. ServicesInv => ServicesKeepRules
  BY PartConstants, W!ProSafe DEF ServicesInv, ServicesKeepRules
<1> QED
  BY <1>1, <1>2, <1>3, PTL DEF Spec

=============================================================================
