---------------------------- MODULE MCAgentsProofs ----------------------------
(***************************************************************************)
(* What the runs check of the parts around an agent, for every value of    *)
(* their constants: the invariants of a part hold of the behaviours that   *)
(* are it, and the steps of the others leave it out.                       *)
(***************************************************************************)
EXTENDS MCAgents, TLAPS

\* A step stays within its part.
LEMMA PartSteps ==
  ASSUME [Next]_vars
  PROVE  /\ part' = part
         /\ part = "turns" => T!Next \/ UNCHANGED T!vars
         /\ part = "mcp" => M!Next \/ UNCHANGED M!mcpVars
         /\ part = "store" => M!D!Next \/ UNCHANGED M!D!sessVars
         /\ part = "index" => M!I!Next \/ UNCHANGED M!I!vars
         /\ part = "spaces" => M!S!Next \/ UNCHANGED M!S!vars
         /\ part = "brain" => M!B!Next \/ UNCHANGED M!B!vars
         /\ part = "web" => M!X!Next \/ UNCHANGED M!X!vars
<1>1. CASE Next
  BY <1>1 DEF Next, TurnsStep, McpStep, StoreStep, ToolsStep, WebStep, FetchStep, BrainStep, IndexStep,
      SpacesStep, FactsStep, PagesStep, LinksStep, TypesStep, LintStep, SearchStep, ArgsStep, AnswerStep,
      KnowStep, BudgetStep
<1>2. CASE UNCHANGED vars
  BY <1>2 DEF vars, T!vars, M!mcpVars, M!D!sessVars, M!I!vars, M!S!vars, M!S!settings, M!B!vars, M!X!vars
<1> QED
  BY <1>1, <1>2

-----------------------------------------------------------------------------
(* The turns of an ACP session.                                             *)

TurnsInv == part = "turns" => T!TurnInv /\ T!TokenOwned /\ T!SmoothInv /\ T!SavedFirst

LEMMA TurnsInit == T!TurnConstants /\ Init => TurnsInv
  BY T!TurnInit, T!TokenInit, T!SmoothInit, T!SavedInit DEF Init, TurnsInv

LEMMA TurnsNext == T!TurnConstants /\ TurnsInv /\ [Next]_vars => TurnsInv'
<1> SUFFICES ASSUME T!TurnConstants, TurnsInv, [Next]_vars, part' = "turns"
             PROVE  (T!TurnInv /\ T!TokenOwned /\ T!SmoothInv /\ T!SavedFirst)'
  BY DEF TurnsInv
<1>1. part = "turns" /\ [T!Next]_(T!vars)
  BY PartSteps
<1>2. T!TypeOK
  BY <1>1 DEF TurnsInv, T!TurnInv
<1> QED
  BY <1>1, <1>2, T!TurnStepInv, T!SmoothStep, T!TokenStep, T!SavedStep DEF TurnsInv

\* For any finite set of prompts and any bounds: however turns overlap and
\* sessions are removed, a registered cancel token belongs to a turn that runs.
THEOREM TokensStayOwned == T!TurnConstants => (Spec => []TokenOwned)
<1> SUFFICES ASSUME T!TurnConstants PROVE Spec => []TokenOwned
  OBVIOUS
<1>1. TurnsInv => TokenOwned
  BY DEF TurnsInv, TokenOwned
<1> QED
  BY <1>1, TurnsInit, TurnsNext, PTL DEF Spec

\* For any finite set of prompts and any bounds: a client that waits, whose turns are
\* not resumed and whose session was loaded from whole saves, finds every question in
\* it once and every answer right after a message of its own turn.
THEOREM TurnsConverse == T!TurnConstants => (Spec => []Conversation)
<1> SUFFICES ASSUME T!TurnConstants PROVE Spec => []Conversation
  OBVIOUS
<1>1. TurnsInv => Conversation
  BY T!SmoothConversation DEF TurnsInv, Conversation
<1> QED
  BY <1>1, TurnsInit, TurnsNext, PTL DEF Spec

\* For any finite set of prompts and any bounds: however turns, tasks, removals and
\* reloads overlap, a save loses nothing that an earlier one stored, unless it reads
\* an empty history because a task is writing to it.
THEOREM TurnsAreKept == T!TurnConstants => (Spec => TurnsStay)
<1> SUFFICES ASSUME T!TurnConstants PROVE Spec => TurnsStay
  OBVIOUS
<1>1. TurnsInv /\ [Next]_vars => [part = "turns" => T!KeepsSaved]_vars
  <2> SUFFICES ASSUME TurnsInv, [Next]_vars, part = "turns", vars' # vars PROVE T!KeepsSaved
    OBVIOUS
  <2>1. [T!Next]_(T!vars)
    BY PartSteps
  <2> QED
    BY <2>1, T!SavedStep DEF TurnsInv
<1> QED
  BY <1>1, TurnsInit, TurnsNext, PTL DEF Spec, TurnsStay

-----------------------------------------------------------------------------
(* The client of an MCP server.                                             *)

ClientInv == part = "mcp" => M!McpInv

\* For any finite set of callers: every response ends one request and every
\* request takes one response, its own when nothing was owed as it was sent and
\* nobody joined it; and who waits on a server that lives has a response ahead.
THEOREM ClientKeepsRules == M!McpConstants => (Spec => []McpKeepsRules)
<1> SUFFICES ASSUME M!McpConstants PROVE Spec => []McpKeepsRules
  OBVIOUS
<1>1. Init => ClientInv
  BY M!McpInit DEF Init, ClientInv
<1>2. ClientInv /\ [Next]_vars => ClientInv'
  <2> SUFFICES ASSUME ClientInv, [Next]_vars, part' = "mcp" PROVE M!McpInv'
    BY DEF ClientInv
  <2>1. part = "mcp" /\ [M!Next]_(M!mcpVars)
    BY PartSteps
  <2> QED
    BY <2>1, M!McpStep DEF ClientInv
<1>3. ClientInv => McpKeepsRules
  BY M!McpSafe DEF ClientInv, McpKeepsRules
<1> QED
  BY <1>1, <1>2, <1>3, PTL DEF Spec

-----------------------------------------------------------------------------
(* The stored sessions.                                                     *)

StoredInv == part = "store" => M!SessionsInv

\* For any idle time and lifetime: where no save, load and clean-up overlap, a
\* session that is live again goes on from what the last save was given, and a
\* clean-up spares what has not expired.
THEOREM SessionsStayKept == M!SessionConstants => (Spec => []SessionsKept)
<1> SUFFICES ASSUME M!SessionConstants PROVE Spec => []SessionsKept
  OBVIOUS
<1>1. Init => StoredInv
  BY M!SessionsInit DEF Init, StoredInv
<1>2. StoredInv /\ [Next]_vars => StoredInv'
  <2> SUFFICES ASSUME StoredInv, [Next]_vars, part' = "store" PROVE M!SessionsInv'
    BY DEF StoredInv
  <2>1. part = "store" /\ [M!D!Next]_(M!D!sessVars)
    BY PartSteps
  <2> QED
    BY <2>1, M!SessionsStep DEF StoredInv
<1>3. StoredInv => SessionsKept
  BY M!SessionsSafe DEF StoredInv, SessionsKept
<1> QED
  BY <1>1, <1>2, <1>3, PTL DEF Spec

-----------------------------------------------------------------------------
(* What several actors keep together: the index, the spaces, the curator and *)
(* the web search.                                                           *)

SharedInv ==
  /\ part = "index" => M!IndexInv
  /\ part = "spaces" => M!SpacesInv
  /\ part = "brain" => M!BrainInv
  /\ part = "web" => M!SearchInv
SharedConstants == M!IndexConstants /\ M!BrainConstants /\ M!SearchConstants

\* For any pages, types of which "page" is one, finite set of sessions, wikis, clients, searchers and
\* bounds, and times of which a probe takes less than half as long as its answer is
\* good: whatever edits, rebuilds, crashes, saves, updates and searches interleave,
\* a quiet index shows every page that no event was lost for, the engine and its
\* config file agree, every session is consolidated to its end unless its newest
\* job was dropped for another session's or lost in a restart, and searches keep
\* their distance to what they saw and to their own last request, and believe only
\* what was fresh.
THEOREM SharedStateStaysKept == SharedConstants => (Spec => []SharedStateKept)
<1> SUFFICES ASSUME SharedConstants PROVE Spec => []SharedStateKept
  OBVIOUS
<1>1. Init => SharedInv
  BY M!IndexInit, M!SpacesInit, M!BrainInit, M!SearchInit DEF Init, SharedInv, SharedConstants
<1>2. SharedInv /\ [Next]_vars => SharedInv'
  <2> SUFFICES ASSUME SharedInv, [Next]_vars PROVE SharedInv'
    OBVIOUS
  <2>1. ASSUME part' = "index" PROVE M!IndexInv'
    <3>1. part = "index" /\ [M!I!Next]_(M!I!vars)
      BY <2>1, PartSteps
    <3> QED
      BY <3>1, M!IndexStep DEF SharedInv, SharedConstants
  <2>2. ASSUME part' = "spaces" PROVE M!SpacesInv'
    <3>1. part = "spaces" /\ [M!S!Next]_(M!S!vars)
      BY <2>2, PartSteps
    <3> QED
      BY <3>1, M!SpacesStep DEF SharedInv
  <2>3. ASSUME part' = "brain" PROVE M!BrainInv'
    <3>1. part = "brain" /\ [M!B!Next]_(M!B!vars)
      BY <2>3, PartSteps
    <3> QED
      BY <3>1, M!BrainStep DEF SharedInv, SharedConstants
  <2>4. ASSUME part' = "web" PROVE M!SearchInv'
    <3>1. part = "web" /\ [M!X!Next]_(M!X!vars)
      BY <2>4, PartSteps
    <3> QED
      BY <3>1, M!SearchStep DEF SharedInv, SharedConstants
  <2> QED
    BY <2>1, <2>2, <2>3, <2>4 DEF SharedInv
<1>3. SharedInv => SharedStateKept
  BY M!IndexSafe, M!SpacesSafe, M!BrainSafe, M!SearchSafe DEF SharedInv, SharedStateKept, SharedConstants
<1> QED
  BY <1>1, <1>2, <1>3, PTL DEF Spec

=============================================================================
