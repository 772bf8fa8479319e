------------------------------- MODULE McpClient -------------------------------
(* A client of one MCP server (crates/mcp): the handshake, requests by many    *)
(* tasks over one transport, and the tool list an agent's context provider     *)
(* caches.  The server is external: it answers each request once.              *)
EXTENDS Naturals, FiniteSets, SequencesExt

CONSTANTS
  Callers,  \* tasks that use the client
  MaxIds    \* bound: requests sent

VARIABLES
  solo,    \* ids of the requests sent when nothing was owed, and not joined
  lists,   \* the server's capability to list tools
  link,    \* "new", "greeting", "up" or "failed"
  nextId,
  calls,   \* per caller: its request and what came of it
  asked,   \* requests the server holds
  wire,    \* messages on their way to the client, in order
  alive,   \* the server and its transport
  cache,   \* McpContextProvider's tools: "none", "tools" or "empty"
  taken    \* responses taken: which request took which

mcpVars == <<solo, lists, link, nextId, calls, asked, wire, alive, cache, taken>>

\* What a caller is at, the id of its request and its kind: "enrich" fills the cache.
NoCall == [at |-> "idle", id |-> 0, op |-> "call"]

Init ==
  /\ solo = {} /\ lists \in BOOLEAN
  /\ link = "new" /\ nextId = 1 /\ calls = [c \in Callers |-> NoCall]
  /\ asked = {} /\ wire = <<>> /\ alive = TRUE
  /\ cache = "none" /\ taken = {}

Waiting == {c \in Callers : calls[c].at = "waiting"}

-----------------------------------------------------------------------------
(* connect(): nobody else has the client yet.                                  *)

Greet ==
  /\ link = "new" /\ alive
  /\ asked' = asked \cup {[id |-> nextId, op |-> "initialize"]}
  /\ nextId' = nextId + 1 /\ link' = "greeting"
  /\ UNCHANGED <<solo, lists, calls, wire, alive, cache, taken>>

\* Its answer, then the initialized notification; a notification is passed over.
Greeted ==
  /\ link = "greeting" /\ wire # <<>>
  /\ wire' = Tail(wire)
  /\ link' = CASE Head(wire).kind = "notification" -> "greeting"
               [] Head(wire).kind = "result" /\ alive -> "up"
               [] OTHER -> "failed"
  /\ UNCHANGED <<solo, lists, nextId, calls, asked, alive, cache, taken>>

GreetFails ==
  /\ ~alive
  /\ link = "new" \/ (link = "greeting" /\ wire = <<>>)
  /\ link' = "failed"
  /\ UNCHANGED <<solo, lists, nextId, calls, asked, wire, alive, cache, taken>>

-----------------------------------------------------------------------------
(* Requests.                                                                   *)

Free(c) == link = "up" /\ calls[c].at = "idle"

\* The server holds no request, and no response is under way.
NothingOwed == asked = {} /\ \A i \in DOMAIN wire : wire[i].kind \notin {"result", "error"}

\* enrich_tools keeps the cache locked while it asks.
Enriching == {c \in Waiting : calls[c].op = "enrich"}

Set(c, at) == calls' = [calls EXCEPT ![c].at = at]

\* send_request up to its wait: numbered, written, waiting.
Send(c, op) ==
  /\ Free(c) /\ nextId <= MaxIds
  /\ op = "enrich" => lists /\ cache = "none" /\ Enriching = {}
  /\ nextId' = nextId + 1
  /\ IF alive THEN /\ asked' = asked \cup {[id |-> nextId, op |-> op]}
                   /\ calls' = [calls EXCEPT ![c] = [at |-> "waiting", id |-> nextId, op |-> op]]
                   /\ solo' = IF NothingOwed /\ Waiting = {} THEN solo \cup {nextId}
                              ELSE solo \ {calls[d].id : d \in Waiting}
     ELSE UNCHANGED <<solo, asked, calls>>
  /\ cache' = IF ~alive /\ op = "enrich" THEN "empty" ELSE cache
  /\ UNCHANGED <<lists, link, wire, alive, taken>>

\* A server that lists no tools is not asked: the agent has none of them.
EnrichWithout(c) ==
  /\ Free(c) /\ ~lists /\ cache = "none"
  /\ cache' = "empty"
  /\ UNCHANGED <<solo, lists, link, nextId, calls, asked, wire, alive, taken>>

\* discover_all_tools turns a failure into an empty list, which is then cached.
Finish(c, ok) ==
  /\ Set(c, "idle")
  /\ cache' = IF calls[c].op # "enrich" THEN cache ELSE IF ok THEN "tools" ELSE "empty"

\* A mutant that throws away the responses to others.
TakeMatching(c) ==
  /\ calls[c].at = "waiting" /\ wire # <<>>
  /\ LET m == Head(wire)
     IN  /\ wire' = Tail(wire)
         /\ IF m.id # calls[c].id THEN UNCHANGED <<calls, cache, taken>>
            ELSE /\ Finish(c, m.kind = "result" /\ m.op = calls[c].op)
                 /\ taken' = taken \cup {<<calls[c].id, m.id>>}
  /\ UNCHANGED <<solo, lists, link, nextId, asked, alive>>

\* The first response there is ends the wait of whoever reads it: ids are not
\* compared.  A broken line is an error, a notification is passed over.
Take(c) ==
  /\ calls[c].at = "waiting" /\ wire # <<>>
  /\ LET m == Head(wire)
     IN  /\ wire' = Tail(wire)
         /\ IF m.kind = "notification" THEN UNCHANGED <<calls, cache, taken>>
            ELSE /\ Finish(c, m.kind = "result" /\ m.op = calls[c].op)
                 /\ taken' = IF m.kind = "broken" THEN taken
                             ELSE taken \cup {<<calls[c].id, m.id>>}
  /\ UNCHANGED <<solo, lists, link, nextId, asked, alive>>

\* End of the stream.
Closed(c) ==
  /\ calls[c].at = "waiting" /\ ~alive /\ wire = <<>>
  /\ Finish(c, FALSE)
  /\ UNCHANGED <<solo, lists, link, nextId, asked, wire, alive, taken>>

\* A caller is cancelled: its answer stays on the wire, and a line it had begun
\* to read has lost its beginning.
Cancel(c) ==
  /\ calls[c].at = "waiting"
  /\ Set(c, "idle")
  /\ \/ UNCHANGED wire
     \/ wire # <<>> /\ wire' = [wire EXCEPT ![1].kind = "broken"]
  /\ UNCHANGED <<solo, lists, link, nextId, asked, alive, cache, taken>>

-----------------------------------------------------------------------------
(* The server.                                                                 *)

Answer ==
  /\ alive
  /\ \E q \in asked, kind \in {"result", "error"} :
       /\ asked' = asked \ {q}
       /\ wire' = Append(wire, [kind |-> kind, id |-> q.id, op |-> q.op])
  /\ UNCHANGED <<solo, lists, link, nextId, calls, alive, cache, taken>>

Notify ==
  /\ alive /\ wire = <<>>
  /\ wire' = Append(wire, [kind |-> "notification", id |-> 0, op |-> "none"])
  /\ UNCHANGED <<solo, lists, link, nextId, calls, asked, alive, cache, taken>>

Die ==
  /\ alive
  /\ alive' = FALSE
  /\ UNCHANGED <<solo, lists, link, nextId, calls, asked, wire, cache, taken>>

Quiet == Waiting = {} /\ link \notin {"new", "greeting"} /\ UNCHANGED mcpVars

Next ==
  \/ Greet \/ Greeted \/ GreetFails
  \/ \E c \in Callers :
       \/ \E op \in {"call", "enrich"} : Send(c, op)
       \/ EnrichWithout(c) \/ Take(c) \/ Closed(c) \/ Cancel(c)
  \/ Answer \/ Notify \/ Die \/ Quiet

Spec == Init /\ [][Next]_mcpVars

-----------------------------------------------------------------------------
\* A request sent when nothing was owed, that nobody joined while it waited, takes
\* no other response than its own, whatever was dropped, crossed or broken before.
\* (The comment on the loop in send_request promises this of every request.)
OwnAnswer == \A p \in taken : p[1] \in solo => p[1] = p[2]

\* Always, every response ends one request and every request takes one response.
AnswersTakenOnce ==
  /\ OwnAnswer
  /\ \A p, q \in taken : p[1] = q[1] \/ p[2] = q[2] => p = q

\* Requests the server holds and responses on the wire, but for the handshake's.
Requested == {q \in asked : q.op # "initialize"}
OnTheWay == {i \in DOMAIN wire : wire[i].kind # "notification" /\ wire[i].op # "initialize"}

\* A waiting request has its response ahead, in the server or on the wire, or
\* somebody else's in its place: as many as there are requests waiting, unless
\* the server is gone.
NobodyWaitsInVain == alive => Cardinality(Waiting) <= Cardinality(Requested) + Cardinality(OnTheWay)

McpKeepsRules == AnswersTakenOnce /\ NobodyWaitsInVain
===============================================================================
