---------------------------- MODULE CheckpointStore ----------------------------
(***************************************************************************)
(* Checkpoints of one session: CheckpointManager over FileCheckpointStore  *)
(* (crates/workflow/src/checkpoint), driven by the run that commits after  *)
(* every superstep and by callers of cleanup().                            *)
(*                                                                         *)
(* A save writes the file of the checkpoint, reads the index, appends to   *)
(* it and replaces it by a rename of index.json.tmp.  Each file operation  *)
(* is a step of its own: a crash, an I/O error or the other actor may come *)
(* between any two.  Checkpoint ids are UUIDs in the code and 1, 2, ...    *)
(* here; the file of an id is written under a name of its own, so that its *)
(* temporary file and rename are one step.                                 *)
(***************************************************************************)
EXTENDS Integers, Sequences, FiniteSets

CONSTANTS
  Key, Val,       \* the keys and values of state_map
  Absent,         \* the value of a key that is not in the map
  Missing,        \* a checkpoint file that is not there
  NoFile,         \* the temporary file when it is not there
  Torn,           \* an index file with the bytes of two writers: not JSON
  Interval,       \* CheckpointConfig.full_snapshot_interval
  MaxCheckpoints, \* CheckpointConfig.max_checkpoints
  Concurrent,     \* whether cleanup() may overlap a commit
  MayClear,       \* whether handlers call clear_state
  MayFail,        \* whether file operations may fail
  MaxId,          \* bound: checkpoints ever written
  MaxStep,        \* bound: supersteps of a run
  MaxRuns,        \* bound: runs started on the session
  MaxCrashes      \* bound: crashes of the process

ASSUME StoreAssumption ==
  /\ Absent \notin Val
  /\ Interval \in Nat \ {0} /\ MaxCheckpoints \in Nat \ {0}
  /\ {Concurrent, MayClear, MayFail} \subseteq BOOLEAN
  /\ {MaxId, MaxStep, MaxRuns, MaxCrashes} \subseteq Nat

Id == 1..MaxId
NoId == 0
Step == -1..MaxStep
State == [Key -> Val \cup {Absent}]
NoEntries == [k \in Key |-> Absent]

Checkpoint == [step : Step, state : State, parent : Id \cup {NoId}, full : BOOLEAN]
Info == [id : Id, step : Step]

ASSUME SentinelAssumption ==
  Missing \notin Checkpoint /\ {Torn, NoFile} \cap Seq(Info) = {} /\ Torn # NoFile

\* The two actors: the engine of the run and a caller of cleanup().
Actor == {"engine", "janitor"}

VARIABLES
  \* ------------------------------------------------- the disk
  files,   \* {checkpoint_id}.json
  index,   \* {session_id}_index.json, a sequence of Info or Torn
  tmp,     \* {session_id}_index.json.tmp, shared by all writers
  \* ------------------------------------------------- the process
  counter, \* CheckpointManager.counter of the session
  pc,      \* where each actor is
  copy,    \* the index each actor is about to write
  out,     \* the inode an actor has open: "tmp", "index" or "gone"
  draft,   \* the checkpoint the engine is saving
  draftId, \* its id, NoId until the file is written
  todo,    \* ids cleanup() has still to delete
  \* ------------------------------------------------- the run
  alive,   \* a run is in progress, or a file operation it left
  left,    \* the place in a save at which a timeout dropped it, or "none"
  state,   \* its state_map
  step,    \* its step number, -1 until create_initial has returned
  halted,  \* the checkpoint of a halt was taken in this step
  started, \* runs started
  crashes, \* crashes so far
  issued,  \* ids handed out
  \* ------------------------------------------------- read by properties only
  acked,   \* ids whose save returned Ok, less those cleanup() chose
  newest,  \* [step, state] of the last save that returned Ok
  unacked  \* [step, state] of the saves a timeout dropped

diskVars == <<files, index, tmp>>
opVars == <<counter, pc, copy, out, draft, draftId, todo>>
runVars == <<alive, left, state, step, halted, started, crashes, issued>>
vars == <<diskVars, opVars, runVars, acked, newest, unacked>>

NoState == [step |-> -2, state |-> NoEntries]
NoDraft == [step |-> -1, state |-> NoEntries, parent |-> NoId, full |-> TRUE]

TypeOK ==
  /\ files \in [Id -> Checkpoint \cup {Missing}]
  /\ index \in Seq(Info) \cup {Torn} /\ tmp \in Seq(Info) \cup {Torn, NoFile}
  /\ counter \in Nat
  /\ pc \in [Actor -> {"idle", "list", "file", "remove", "load", "open", "fill", "rename"}]
  /\ copy \in [Actor -> Seq(Info)]
  /\ out \in [Actor -> {"none", "tmp", "index", "gone"}]
  /\ draft \in Checkpoint /\ draftId \in Id \cup {NoId}
  /\ todo \in Seq(Id)
  /\ alive \in BOOLEAN /\ halted \in BOOLEAN
  /\ left \in {"none", "list", "file", "load", "open", "fill", "rename"}
  /\ state \in State /\ step \in Step
  /\ started \in Nat /\ crashes \in Nat /\ issued \in 0..MaxId
  /\ acked \subseteq Id
  /\ newest \in [step : Step \cup {-2}, state : State]
  /\ unacked \subseteq [step : Step, state : State]

Init ==
  /\ files = [i \in Id |-> Missing] /\ index = <<>> /\ tmp = NoFile
  /\ counter = 0
  /\ pc = [a \in Actor |-> "idle"] /\ copy = [a \in Actor |-> <<>>]
  /\ out = [a \in Actor |-> "none"]
  /\ draft = NoDraft /\ draftId = NoId /\ todo = <<>>
  /\ alive = FALSE /\ left = "none" /\ state = NoEntries /\ step = -1 /\ halted = FALSE
  /\ started = 0 /\ crashes = 0 /\ issued = 0
  /\ acked = {} /\ newest = NoState /\ unacked = {}

-----------------------------------------------------------------------------
(* Reading the index.                                                      *)

\* Mutant of LatestEntry: the first of several maxima.
FirstLatestEntry(idx) ==
  CHOOSE i \in 1..Len(idx) : \A j \in 1..Len(idx) :
    idx[j].step < idx[i].step \/ (idx[j].step = idx[i].step /\ j >= i)

\* Iterator::max_by_key(step_number) returns the last of several maxima.
LatestEntry(idx) ==
  CHOOSE i \in 1..Len(idx) : \A j \in 1..Len(idx) :
    idx[j].step < idx[i].step \/ (idx[j].step = idx[i].step /\ j <= i)

\* Mutant of LatestId: the step number in place of the id.
LatestStep(idx) == IF idx = <<>> THEN NoId ELSE idx[LatestEntry(idx)].step

LatestId(idx) == IF idx = <<>> THEN NoId ELSE idx[LatestEntry(idx)].id

\* Mutant of Rank: sorted by ascending step number.
RankAscending(idx, i) ==
  Cardinality({j \in 1..Len(idx) : \/ idx[j].step < idx[i].step
                                   \/ idx[j].step = idx[i].step /\ j < i})

\* sort_by_key(Reverse(step_number)) is stable: where the entry i ends up.
Rank(idx, i) ==
  Cardinality({j \in 1..Len(idx) : \/ idx[j].step > idx[i].step
                                   \/ idx[j].step = idx[i].step /\ j < i})

\* skip(max_checkpoints): the ids cleanup() deletes, in the order it does.
Expired(idx) ==
  [r \in 1..(Len(idx) - MaxCheckpoints) |->
     idx[CHOOSE i \in 1..Len(idx) : Rank(idx, i) = MaxCheckpoints + r - 1].id]

Overlay(upper, lower) == [k \in Key |-> IF upper[k] = Absent THEN lower[k] ELSE upper[k]]

\* load_full_state: the entries of a checkpoint and, where it has none, those
\* of its ancestors up to a full snapshot or a missing file.  The file of a
\* parent is written before the id of its child is drawn.
Merged[i \in Nat] ==
  IF i \notin Id THEN NoEntries
  ELSE IF files[i] = Missing THEN NoEntries
  ELSE IF files[i].full THEN files[i].state
  ELSE Overlay(files[i].state, Merged[files[i].parent])

Readable == index # Torn /\ index # <<>> /\ files[LatestId(index)] # Missing

Recovered ==
  IF Readable THEN [step |-> files[LatestId(index)].step, state |-> Merged[LatestId(index)]]
  ELSE NoState

-----------------------------------------------------------------------------
(* The run.                                                                *)

\* execute_loop starts with an empty state_map and step 0 and begins with
\* create_initial: a full snapshot of nothing with step -1.  A bound: no run is
\* started while a file operation of a dropped one is under way.
StartRun ==
  /\ ~alive /\ started < MaxRuns
  /\ Concurrent \/ pc["janitor"] = "idle"
  /\ alive' = TRUE /\ started' = started + 1
  /\ state' = NoEntries /\ step' = -1 /\ halted' = FALSE
  /\ draft' = NoDraft /\ draftId' = NoId
  /\ pc' = [pc EXCEPT !["engine"] = "file"]
  /\ UNCHANGED <<diskVars, counter, copy, out, todo, crashes, issued, acked, newest,
                 unacked, left>>

\* write_state and clear_state of the handlers of a superstep.
Work ==
  /\ alive /\ pc["engine"] = "idle"
  /\ \E k \in Key : \E v \in Val \cup (IF MayClear THEN {Absent} ELSE {}) :
       state' = [state EXCEPT ![k] = v]
  /\ UNCHANGED <<diskVars, opVars, alive, left, step, halted, started, crashes, issued,
                 acked, newest, unacked>>

\* Mutant of IsFull: one increment too many.
IsFullLate == counter > 0 /\ counter % (Interval + 1) = 0

IsFull == counter > 0 /\ counter % Interval = 0

\* commit(): a full snapshot has no parent, any other one looks for it first.
\* A halt is saved before the step that resumes it, under the same number.
BeginCommit(kind) ==
  /\ alive /\ pc["engine"] = "idle" /\ step < MaxStep
  /\ Concurrent \/ pc["janitor"] = "idle"
  /\ kind = "halt" => ~halted
  /\ halted' = (kind = "halt")
  /\ draft' = [step |-> step, state |-> state, parent |-> NoId, full |-> IsFull]
  /\ draftId' = NoId
  /\ pc' = [pc EXCEPT !["engine"] = IF IsFull THEN "file" ELSE "list"]
  /\ UNCHANGED <<diskVars, counter, copy, out, todo, alive, left, state, step, started,
                 crashes, issued, acked, newest, unacked>>

\* The parent is the latest checkpoint of the session, whoever wrote it.
FindParent ==
  /\ left = "none" /\ pc["engine"] = "list" /\ index # Torn
  /\ draft' = [draft EXCEPT !.parent = LatestId(index)]
  /\ pc' = [pc EXCEPT !["engine"] = "file"]
  /\ UNCHANGED <<diskVars, counter, copy, out, draftId, todo, runVars, acked, newest,
                 unacked>>

WriteFile ==
  /\ pc["engine"] = "file" /\ issued < MaxId
  /\ issued' = issued + 1 /\ draftId' = issued + 1
  /\ files' = [files EXCEPT ![issued + 1] = draft]
  /\ pc' = [pc EXCEPT !["engine"] = "load"]
  /\ UNCHANGED <<index, tmp, counter, copy, out, draft, todo, alive, left, state, step,
                 halted, started, crashes, acked, newest, unacked>>

EndRun ==
  /\ alive /\ pc["engine"] = "idle"
  /\ alive' = FALSE
  /\ UNCHANGED <<diskVars, opVars, state, step, halted, started, crashes, issued, acked,
                 newest, unacked, left>>

-----------------------------------------------------------------------------
(* cleanup().                                                              *)

BeginCleanup ==
  /\ pc["janitor"] = "idle" /\ index # Torn
  /\ Concurrent \/ pc["engine"] = "idle"
  /\ Len(index) > MaxCheckpoints
  /\ todo' = Expired(index)
  /\ pc' = [pc EXCEPT !["janitor"] = "remove"]
  /\ acked' = acked \ {Expired(index)[r] : r \in DOMAIN Expired(index)}
  /\ UNCHANGED <<diskVars, counter, copy, out, draft, draftId, runVars, newest, unacked>>

\* delete() returns Ok without touching the index when the file is not there.
SkipMissing ==
  /\ pc["janitor"] = "remove" /\ todo # <<>> /\ files[Head(todo)] = Missing
  /\ todo' = Tail(todo)
  /\ UNCHANGED <<diskVars, counter, pc, copy, out, draft, draftId, runVars, acked, newest,
                 unacked>>

RemoveFile ==
  /\ pc["janitor"] = "remove" /\ todo # <<>> /\ files[Head(todo)] # Missing
  /\ files' = [files EXCEPT ![Head(todo)] = Missing]
  /\ pc' = [pc EXCEPT !["janitor"] = "load"]
  /\ UNCHANGED <<index, tmp, counter, copy, out, draft, draftId, todo, runVars, acked,
                 newest, unacked>>

CleanupDone ==
  /\ pc["janitor"] = "remove" /\ todo = <<>>
  /\ pc' = [pc EXCEPT !["janitor"] = "idle"]
  /\ UNCHANGED <<diskVars, counter, copy, out, draft, draftId, todo, runVars, acked, newest,
                 unacked>>

-----------------------------------------------------------------------------
(* Replacing the index: load_index, save_index, atomic_write.              *)

\* retain: the entries with another id, in their order.
Retained(idx, id) ==
  LET kept == {i \in 1..Len(idx) : idx[i].id # id}
  IN  [k \in 1..Cardinality(kept) |->
         idx[CHOOSE i \in kept : Cardinality({j \in kept : j < i}) = k - 1]]

LoadIndex(a) ==
  /\ pc[a] = "load" /\ index # Torn
  /\ a = "engine" => left = "none"
  /\ copy' = [copy EXCEPT ![a] =
       IF a = "engine" THEN Append(index, [id |-> draftId, step |-> draft.step])
       ELSE Retained(index, Head(todo))]
  /\ pc' = [pc EXCEPT ![a] = "open"]
  /\ UNCHANGED <<diskVars, counter, out, draft, draftId, todo, runVars, acked, newest,
                 unacked>>

\* Mutant of OpenTmp: the old index makes way before the new one is complete.
OpenTmpRemovesIndex(a) ==
  /\ pc[a] = "open"
  /\ index' = <<>> /\ tmp' = <<>>
  /\ out' = [out EXCEPT ![a] = "tmp"]
  /\ pc' = [pc EXCEPT ![a] = "fill"]
  /\ UNCHANGED <<files, counter, copy, draft, draftId, todo, runVars, acked, newest,
                 unacked>>

\* fs::write creates or truncates the temporary file ...
OpenTmp(a) ==
  /\ pc[a] = "open"
  /\ tmp' = <<>>
  /\ out' = [out EXCEPT ![a] = "tmp"]
  /\ pc' = [pc EXCEPT ![a] = "fill"]
  /\ UNCHANGED <<files, index, counter, copy, draft, draftId, todo, runVars, acked, newest,
                 unacked>>

\* Two writers of one inode: the later bytes win, the tail of the earlier ones
\* may stick out.
Written(old, new) == IF old = <<>> THEN {new} ELSE {new, Torn}

\* ... and writes into the inode it has open, wherever that is named by now.
FillTmp(a) ==
  /\ pc[a] = "fill"
  /\ \/ out[a] = "tmp" /\ tmp' \in Written(tmp, copy[a]) /\ UNCHANGED index
     \/ out[a] = "index" /\ index' \in Written(index, copy[a]) /\ UNCHANGED tmp
     \/ out[a] = "gone" /\ UNCHANGED <<index, tmp>>
  /\ out' = [out EXCEPT ![a] = "none"] /\ copy' = [copy EXCEPT ![a] = <<>>]
  /\ pc' = [pc EXCEPT ![a] = "rename"]
  /\ UNCHANGED <<files, counter, draft, draftId, todo, runVars, acked, newest, unacked>>

Moved == [none |-> "none", tmp |-> "index", index |-> "gone", gone |-> "gone"]

\* The engine goes on after a save, whether it returned Ok or an error.
StepOver ==
  /\ step' = IF halted THEN step ELSE step + 1
  /\ UNCHANGED <<alive, left, state, halted, started, crashes, issued>>

\* The save returned Ok: commit() counts it, create_initial() does not.
RenameEngine ==
  /\ left = "none" /\ pc["engine"] = "rename" /\ tmp # NoFile
  /\ index' = tmp /\ tmp' = NoFile
  /\ out' = [a \in Actor |-> Moved[out[a]]]
  /\ pc' = [pc EXCEPT !["engine"] = "idle"]
  /\ counter' = IF step = -1 THEN counter ELSE counter + 1
  /\ acked' = acked \cup {draftId}
  /\ newest' = [step |-> draft.step, state |-> draft.state]
  /\ draft' = NoDraft /\ draftId' = NoId
  /\ StepOver
  /\ UNCHANGED <<files, copy, todo, unacked>>

RenameJanitor ==
  /\ pc["janitor"] = "rename" /\ tmp # NoFile
  /\ index' = tmp /\ tmp' = NoFile
  /\ out' = [a \in Actor |-> Moved[out[a]]]
  /\ pc' = [pc EXCEPT !["janitor"] = "remove"]
  /\ todo' = Tail(todo)
  /\ UNCHANGED <<files, counter, copy, draft, draftId, runVars, acked, newest, unacked>>

-----------------------------------------------------------------------------
(* Failures.                                                               *)

\* What makes the operation of an actor return an error at this point.
Fails(a) ==
  \/ MayFail /\ pc[a] # "idle"
  \/ pc[a] \in {"list", "load"} /\ index = Torn
  \/ pc[a] = "rename" /\ tmp = NoFile

\* The engine logs the error of a commit and goes on with the run.
CommitFails ==
  /\ left = "none" /\ Fails("engine")
  /\ pc' = [pc EXCEPT !["engine"] = "idle"] /\ out' = [out EXCEPT !["engine"] = "none"]
  /\ copy' = [copy EXCEPT !["engine"] = <<>>] /\ draft' = NoDraft /\ draftId' = NoId
  /\ StepOver
  /\ UNCHANGED <<diskVars, counter, todo, acked, newest, unacked>>

CleanupFails ==
  /\ Fails("janitor")
  /\ pc' = [pc EXCEPT !["janitor"] = "idle"] /\ out' = [out EXCEPT !["janitor"] = "none"]
  /\ copy' = [copy EXCEPT !["janitor"] = <<>>] /\ todo' = <<>>
  /\ UNCHANGED <<diskVars, counter, draft, draftId, runVars, acked, newest, unacked>>

\* The global timeout drops execute_loop, and the commit it is awaiting with it.
\* The file operation in hand goes on: tokio::fs has given it to a thread.
TimeoutRun ==
  /\ alive /\ left = "none" /\ pc["engine"] # "idle"
  /\ left' = pc["engine"]
  /\ unacked' = unacked \cup {[step |-> draft.step, state |-> draft.state]}
  /\ UNCHANGED <<diskVars, opVars, alive, state, step, halted, started, crashes, issued,
                 acked, newest>>

\* What a timeout left is over and changes nothing more: it was a read, the
\* operation is done and nobody goes on, it had not got to the rename of the
\* checkpoint's file, or it failed.
LeftFades ==
  /\ \/ left \in {"list", "file", "load"}
     \/ left \in {"open", "fill"} /\ pc["engine"] = "rename"
     \/ left # "none" /\ Fails("engine")
  /\ alive' = FALSE /\ left' = "none"
  /\ pc' = [pc EXCEPT !["engine"] = "idle"] /\ out' = [out EXCEPT !["engine"] = "none"]
  /\ copy' = [copy EXCEPT !["engine"] = <<>>] /\ draft' = NoDraft /\ draftId' = NoId
  /\ UNCHANGED <<diskVars, counter, todo, state, step, halted, started, crashes, issued,
                 acked, newest, unacked>>

\* The rename of the index lands after the timeout was reported: the checkpoint
\* is listed although its save never returned.
LeftLands ==
  /\ left = "rename" /\ pc["engine"] = "rename" /\ tmp # NoFile
  /\ index' = tmp /\ tmp' = NoFile
  /\ out' = [a \in Actor |-> Moved[out[a]]]
  /\ alive' = FALSE /\ left' = "none"
  /\ pc' = [pc EXCEPT !["engine"] = "idle"]
  /\ draft' = NoDraft /\ draftId' = NoId
  /\ UNCHANGED <<files, counter, copy, todo, state, step, halted, started, crashes, issued,
                 acked, newest, unacked>>

\* The process dies: the disk stays as it is.
Crash ==
  /\ crashes < MaxCrashes
  /\ crashes' = crashes + 1
  /\ alive' = FALSE /\ left' = "none" /\ counter' = 0
  /\ pc' = [a \in Actor |-> "idle"] /\ out' = [a \in Actor |-> "none"]
  /\ copy' = [a \in Actor |-> <<>>] /\ todo' = <<>>
  /\ draft' = NoDraft /\ draftId' = NoId
  /\ UNCHANGED <<diskVars, state, step, halted, started, issued, acked, newest, unacked>>

EngineStep ==
  \/ StartRun \/ Work \/ FindParent \/ WriteFile \/ RenameEngine \/ EndRun
  \/ \E kind \in {"halt", "step"} : BeginCommit(kind)

JanitorStep ==
  BeginCleanup \/ SkipMissing \/ RemoveFile \/ RenameJanitor \/ CleanupDone

Next ==
  \/ EngineStep \/ JanitorStep
  \/ \E a \in Actor : LoadIndex(a) \/ OpenTmp(a) \/ FillTmp(a)
  \/ CommitFails \/ CleanupFails \/ TimeoutRun \/ LeftFades \/ LeftLands \/ Crash

Spec == Init /\ [][Next]_vars

-----------------------------------------------------------------------------
(* What must hold in every run.                                            *)

\* Whenever the index can be read its latest entry can be loaded: a crash, or an
\* error between any two file operations of a save or of a cleanup, never leaves
\* load_full_state with a latest checkpoint whose file is not there.  Where the
\* two overlap, a cleanup must not fail between its write and its rename.
LatestLoads == index # Torn /\ index # <<>> => files[LatestId(index)] # Missing

\* Every save that returned Ok stays listed until a cleanup picks it, across
\* crashes and failed operations.
AckedAreListed ==
  index # Torn /\ \A id \in acked : \E i \in 1..Len(index) : index[i].id = id

\* How many incremental checkpoints a recovery reads before a full one.
Depth[i \in Nat] ==
  IF i \notin Id THEN 0
  ELSE IF files[i] = Missing \/ files[i].full THEN 0
  ELSE 1 + Depth[files[i].parent]

\* Recovery walks over at most full_snapshot_interval increments.
ChainBounded == index # Torn => Depth[LatestId(index)] <= Interval

\* A recovery yields the state of the last save that returned Ok, exactly, or
\* that of a save which a timeout dropped and whose rename landed all the same.
RecoversNewest == Recovered = newest \/ Recovered \in unacked

\* Values are interchangeable.
Symmetry == {[v \in Val |-> p[v]] : p \in {q \in [Val -> Val] : {q[v] : v \in Val} = Val}}

Register == INSTANCE SavedState WITH
  live <- [step |-> step, state |-> state], saved <- Recovered

\* The files and the index implement one register that is written atomically:
\* what a recovery yields changes only at the commit point of a save, and only
\* to what the run is in, through crashes, I/O errors and cleanups.
ImplementsRegister == Register!Spec
=============================================================================
