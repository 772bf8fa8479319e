------------------------------- MODULE GroupChat -------------------------------
(* The runtime of a group chat (workflow/src/orchestrations/group_chat.rs):    *)
(* runs of one GroupChatRunnerAgent, which share their selector.               *)
EXTENDS Naturals, FiniteSets, Sequences

CONSTANTS
  Chats,        \* the runs
  Participants, \* how many agents take part
  MaxRounds,    \* MaxRoundsTermination
  Order,        \* FixedOrderSelector: a sequence of indices
  MaxPicks      \* bound: speakers selected

VARIABLES
  selector,     \* "round_robin", "fixed" or "coordinator"
  termination,  \* "rounds" or "keyword"
  counter,      \* the selector's counter
  chat,         \* per run: "idle", "choosing", "speaking", "stopped", "failed" or "left"
  history,      \* per run: the messages, as "user", "assistant" or "keyword"
  speaker,      \* per run: the index selected last
  spoke,        \* per run: text of the turn so far, "" for none
  turns         \* per participant: turns given by the selector

chatVars == <<selector, termination, counter, chat, history, speaker, spoke, turns>>

Index == 0..Participants - 1
Histories == {<<"user">>, <<"user", "assistant", "user">>}

Init ==
  /\ selector \in {"round_robin", "fixed", "coordinator"}
  /\ termination \in {"rounds", "keyword"}
  /\ counter = 0 /\ turns = [i \in Index |-> 0]
  /\ chat = [r \in Chats |-> "idle"]
  /\ history \in [Chats -> Histories]
  /\ speaker = [r \in Chats |-> 0] /\ spoke = [r \in Chats |-> ""]

Assistant(m) == m \in {"assistant", "keyword"}

\* A mutant that counts every message as a round.
RoundsOfAll(h) == Len(h)

Rounds(h) == Cardinality({i \in DOMAIN h : Assistant(h[i])})

ShouldTerminate(h) ==
  IF termination = "rounds" THEN Rounds(h) >= MaxRounds
  ELSE \E i \in DOMAIN h : h[i] = "keyword"

Move(r, to) == chat' = [chat EXCEPT ![r] = to]

\* run() spawns the loop; it looks at the termination before anything else.
Start(r) ==
  /\ chat[r] = "idle"
  /\ Move(r, IF ShouldTerminate(history[r]) THEN "stopped" ELSE "choosing")
  /\ UNCHANGED <<selector, termination, counter, history, speaker, spoke, turns>>

Stop(r) ==
  /\ chat[r] = "choosing" /\ ShouldTerminate(history[r])
  /\ Move(r, "stopped")
  /\ UNCHANGED <<selector, termination, counter, history, speaker, spoke, turns>>

Least(a, b) == IF a < b THEN a ELSE b

\* A coordinator's answer that is no index selects the first participant, and a
\* fixed order is cut to the participants there are; the counter is under a lock.
SelectNext(r) ==
  /\ chat[r] = "choosing" /\ ~ShouldTerminate(history[r])
  /\ counter < MaxPicks
  /\ counter' = counter + 1
  /\ \E i \in Index :
       /\ selector = "round_robin" => i = counter % Participants
       /\ selector = "fixed" => i = Least(Order[(counter % Len(Order)) + 1], Participants - 1)
       /\ speaker' = [speaker EXCEPT ![r] = i]
       /\ turns' = [turns EXCEPT ![i] = @ + 1]
  /\ Move(r, "speaking") /\ spoke' = [spoke EXCEPT ![r] = ""]
  /\ UNCHANGED <<selector, termination, history>>

\* A chunk with text; a chunk that meets a closed channel ends the run.
Chunk(r) ==
  /\ chat[r] = "speaking"
  /\ \/ \E text \in {"assistant", "keyword"} :
          /\ spoke[r] # "keyword"
          /\ spoke' = [spoke EXCEPT ![r] = text]
          /\ UNCHANGED chat
     \/ Move(r, "left") /\ UNCHANGED spoke
  /\ UNCHANGED <<selector, termination, counter, history, speaker, turns>>

\* Selector, participant or stream fail: the error is sent and the run ends.
Fails(r) ==
  /\ chat[r] \in {"choosing", "speaking"}
  /\ Move(r, "failed")
  /\ UNCHANGED <<selector, termination, counter, history, speaker, spoke, turns>>

\* A turn without text leaves no message, hence no round.
EndTurn(r) ==
  /\ chat[r] = "speaking"
  /\ history' = IF spoke[r] = "" THEN history
                ELSE [history EXCEPT ![r] = Append(@, spoke[r])]
  /\ Move(r, "choosing")
  /\ UNCHANGED <<selector, termination, counter, speaker, spoke, turns>>

Rest ==
  /\ \A r \in Chats : chat[r] \in {"stopped", "failed", "left"} \/ counter = MaxPicks
  /\ UNCHANGED chatVars

Next ==
  \/ \E r \in Chats :
       Start(r) \/ Stop(r) \/ SelectNext(r) \/ Chunk(r) \/ Fails(r) \/ EndTurn(r)
  \/ Rest

Spec == Init /\ [][Next]_chatVars

-----------------------------------------------------------------------------
\* A chat bounded by rounds hears exactly that many assistants, those of its
\* input included: a silent turn is no round and a finished chat has them all.
RoundsHeard ==
  termination = "rounds" =>
    \A r \in Chats :
      LET heard == {i \in DOMAIN history[r] : history[r][i] = "assistant" \/ history[r][i] = "keyword"}
      IN  /\ Cardinality(heard) <= MaxRounds
          /\ chat[r] = "stopped" => Cardinality(heard) = MaxRounds

\* Round robin is fair over all runs that share the selector together.
TurnsShared ==
  selector = "round_robin" => \A i, j \in Index : turns[i] <= turns[j] + 1

\* A keyword is the last word of a chat that waits for it.
KeywordLast ==
  termination = "keyword" =>
    \A r \in Chats : \A i \in DOMAIN history[r] :
      history[r][i] = "keyword" => i = Len(history[r])

ChatKeepsRules == RoundsHeard /\ TurnsShared /\ KeywordLast

-----------------------------------------------------------------------------
(* The invariant behind these rules.                                           *)

\* Somebody takes part, and a chat has a round.
ChatConstants ==
  /\ Participants \in Nat \ {0} /\ MaxPicks \in Nat
  /\ MaxRounds \in Nat \ {0}

ChatType ==
  /\ selector \in {"round_robin", "fixed", "coordinator"} /\ termination \in {"rounds", "keyword"}
  /\ counter \in Nat /\ turns \in [Index -> Nat]
  /\ chat \in [Chats -> {"idle", "choosing", "speaking", "stopped", "failed", "left"}]
  /\ history \in [Chats -> Seq({"user", "assistant", "keyword"})]
  /\ spoke \in [Chats -> {"", "assistant", "keyword"}]

\* Who speaks was chosen before the rounds were over.
RoundsLeft ==
  termination = "rounds" =>
    \A r \in Chats :
      /\ Rounds(history[r]) <= MaxRounds
      /\ chat[r] = "speaking" => Rounds(history[r]) < MaxRounds
      /\ chat[r] = "stopped" => Rounds(history[r]) = MaxRounds

\* Every participant had a turn per full round of the counter, and those the
\* counter has passed since one more.
TurnsCounted ==
  selector = "round_robin" =>
    \E full \in Nat, next \in Index :
      /\ counter = full * Participants + next
      /\ \A i \in Index : turns[i] = IF i < next THEN full + 1 ELSE full

\* Who speaks has not heard the keyword.
KeywordUnheard ==
  termination = "keyword" =>
    \A r \in Chats : chat[r] = "speaking" =>
      \A i \in DOMAIN history[r] : history[r][i] # "keyword"

ChatInv == ChatType /\ RoundsLeft /\ TurnsCounted /\ KeywordUnheard /\ KeywordLast
===============================================================================
