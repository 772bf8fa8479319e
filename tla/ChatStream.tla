----------------------------- MODULE ChatStream -----------------------------
(* A request to a model and its answer: bytes of server-sent events arrive in *)
(* any pieces, lines become updates and the agent's converter turns updates   *)
(* into contents. Two wire formats: OpenAI and compatible ones, Anthropic.    *)
EXTENDS Naturals, SequencesExt, FiniteSets
CONSTANTS
  Histories,  \* conversations to send: [role, calls, call]
  Replies,    \* what a model answers: steps <<"text">>, <<"open", i>>, <<"args", i, piece>>
  MaxPiece    \* half-lines that arrive at once
VARIABLES
  format,    \* "openai" or "anthropic"
  request,   \* [sent, got]: a conversation and what the provider receives of it
  reply,     \* [steps, reason, usage, fault]: the answer, and whether it holds a "bad" line or an "error"
  wire,      \* half-lines that have not arrived: <<line, last half>>
  buffer,    \* half-lines that have arrived and were not taken
  line,      \* the state of the connection: "open", "closed", "broken"
  stream,    \* [pending, done, blocks, usage]: the SSE stream; usage is <<input, output>>
  tools,     \* the converter's calls: [name, started, args]
  index,     \* call ids by index
  contents,  \* what the caller sees
  final      \* the finish reason of the answer, "none" before
vars == <<format, request, reply, wire, buffer, line, stream, tools, index, contents, final>>

None == "none"
NoId == <<>>
Id(i) == <<"id", i>>  \* a call's id; its index is i
Indices(s) == 1..Len(s)

----------------------------------------------------------------------------
(* convert_messages: results of a round go into one user message.            *)
Results(ids) == IF ids = <<>> THEN <<>> ELSE <<[role |-> "results", calls |-> ids, call |-> None]>>
ConvertMessages(ms) ==
  LET r == FoldLeft(LAMBDA acc, m :
             CASE m.role = "system" -> acc
               [] m.role = "tool" -> [acc EXCEPT !.results = Append(@, m.call)]
               [] OTHER -> [out |-> Append(acc.out \o Results(acc.results), m), results |-> <<>>],
             [out |-> <<>>, results |-> <<>>], ms)
  IN r.out \o Results(r.results)
RequestBody(ms) == IF format = "anthropic" THEN ConvertMessages(ms) ELSE ms

----------------------------------------------------------------------------
(* The wire: what the two kinds of servers send for a reply.                 *)
OpenAi(kind, text, calls, reason, usage) ==
  [kind |-> kind, text |-> text, calls |-> calls, reason |-> reason, usage |-> usage]
Calls(steps) == {s[2] : s \in {steps[i] : i \in {i \in Indices(steps) : steps[i][1] = "open"}}}
OpenAiLine(s) ==
  CASE s[1] = "text" -> OpenAi("chunk", TRUE, <<>>, None, 0)
    [] s[1] = "open" -> OpenAi("chunk", FALSE, <<<<s[2], Id(s[2]), TRUE, None>>>>, None, 0)
    [] s[1] = "args" -> OpenAi("chunk", FALSE, <<<<s[2], NoId, FALSE, s[3]>>>>, None, 0)
OpenAiWire(steps, reason, usage) ==
  [i \in Indices(steps) |-> OpenAiLine(steps[i])]
    \o (IF usage = "late"
        THEN <<OpenAi("chunk", FALSE, <<>>, reason, 0), OpenAi("chunk", FALSE, <<>>, None, 2)>>
        ELSE <<OpenAi("chunk", FALSE, <<>>, reason, 2)>>)
    \o <<OpenAi("done", FALSE, <<>>, None, 0)>>
(* What Anthropic's server counts is told as it starts and, the output again, as *)
(* it ends; after an error event it sends nothing.                           *)
Untold == <<0, 0>>
Event(kind, block, reason, piece, usage) ==
  [kind |-> kind, block |-> block, reason |-> reason, piece |-> piece, usage |-> usage]
AnthropicLine(s) ==
  CASE s[1] = "text" -> Event("text", None, None, None, Untold)
    [] s[1] = "open" -> Event("start", s[2], None, None, Untold)
    [] s[1] = "args" -> Event("json", s[2], None, s[3], Untold)
AnthropicWire(steps, reason) ==
  <<Event("message", None, None, None, <<1, 1>>)>> \o [i \in Indices(steps) |-> AnthropicLine(steps[i])]
    \o <<Event("delta", None, reason, None, <<0, 2>>), Event("stop", None, None, None, Untold)>>
Lead == IF format = "openai" THEN 0 ELSE 1  \* lines before the first step
Lines(r) ==
  LET all == IF format = "openai" THEN OpenAiWire(r.steps, r.reason, r.usage) ELSE AnthropicWire(r.steps, r.reason)
      at == Lead + 1 + Len(r.steps)
      fault == [all[at] EXCEPT !.kind = r.fault]
  IN CASE r.fault = None -> all [] r.fault = "bad" -> InsertAt(all, at, fault)
       [] r.fault = "error" -> Append(SubSeq(all, 1, at - 1), fault)
Halves(lines) == FlattenSeq([i \in Indices(lines) |-> <<<<lines[i], FALSE>>, <<lines[i], TRUE>>>>])

----------------------------------------------------------------------------
(* map_chunk and map_event: the updates of a line. *)
Delta(i, id, name, piece) == <<"args", i, id, name, piece>>
MapChunk(c) ==
  (IF c.text THEN <<<<"text">>>> ELSE <<>>)
    \o [i \in Indices(c.calls) |-> Delta(c.calls[i][1], c.calls[i][2], c.calls[i][3], c.calls[i][4])]
    \o (IF c.reason # None THEN <<<<"finish", c.reason, c.usage>>>> ELSE <<>>)
    \o (IF c.usage > 0 /\ c.reason = None THEN <<<<"usage", c.usage>>>> ELSE <<>>)
MergeInto(u, partial) == [i \in 1..2 |-> IF partial[i] > 0 THEN partial[i] ELSE u[i]]
Total(u) == u[1] + u[2]
MapEvent(s, e) ==
  LET usage == MergeInto(s.usage, e.usage) IN
  CASE e.kind = "message" -> [s EXCEPT !.usage = usage, !.pending = <<<<"usage", Total(usage)>>>>]
    [] e.kind = "text" -> [s EXCEPT !.pending = <<<<"text">>>>]
    [] e.kind = "start" -> [s EXCEPT !.blocks = @ \cup {e.block}, !.pending = <<<<"start", Id(e.block)>>>>]
    [] e.kind = "json" ->
         LET known == e.block \in s.blocks
         IN [s EXCEPT !.pending = <<Delta(e.block, IF known THEN Id(e.block) ELSE NoId, known, e.piece)>>]
    [] e.kind = "delta" -> [s EXCEPT !.usage = usage, !.pending = <<<<"finish", e.reason, Total(usage)>>>>]
    [] e.kind = "error" -> [s EXCEPT !.pending = <<<<"error">>>>]
    [] e.kind = "stop" -> [s EXCEPT !.done = TRUE]
MapLine(s, l) ==
  CASE l.kind = "bad" -> [s EXCEPT !.pending = <<<<"error">>>>]
    [] l.kind = "done" -> [s EXCEPT !.done = TRUE]
    [] l.kind = "chunk" -> [s EXCEPT !.pending = MapChunk(l)]
    [] OTHER -> MapEvent(s, l)

----------------------------------------------------------------------------
(* AgentResponseConverter::consume: the contents of an update.               *)
Fresh == [name |-> FALSE, started |-> FALSE, args |-> <<>>]
State(id) == IF id \in DOMAIN tools THEN tools[id] ELSE Fresh
With(f, k, v) == [x \in DOMAIN f \cup {k} |-> IF x = k THEN v ELSE f[x]]
CallId(u) ==
  IF u[3] # NoId THEN u[3] ELSE IF u[2] \in DOMAIN index THEN index[u[2]] ELSE <<"tc", u[2]>>
ConsumeStart(u) ==
  /\ tools' = With(tools, u[2], [State(u[2]) EXCEPT !.name = TRUE, !.started = TRUE])
  /\ contents' = Append(contents, <<"start", u[2]>>) /\ UNCHANGED index
ConsumeDelta(u) ==
  LET id == CallId(u)
      opens == u[4] /\ ~State(id).started
      t == IF opens THEN [State(id) EXCEPT !.name = TRUE, !.started = TRUE] ELSE State(id)
      given == u[5] # None
  IN /\ tools' = With(tools, id, IF given THEN [t EXCEPT !.args = Append(@, u[5])] ELSE t)
     /\ contents' = contents \o (IF opens THEN <<<<"start", id>>>> ELSE <<>>)
                      \o (IF given /\ t.name THEN <<<<"args", id, u[5]>>>> ELSE <<>>)
     /\ index' = IF u[3] # NoId THEN With(index, u[2], u[3]) ELSE index
ConsumePlain(u) ==
  /\ contents' = IF u[1] # "finish" THEN Append(contents, u)
                 ELSE IF u[3] > 0 THEN Append(contents, <<"usage", u[3]>>) ELSE contents
  /\ UNCHANGED <<tools, index>>
Consume(u) ==
  CASE u[1] = "start" -> ConsumeStart(u) [] u[1] = "args" -> ConsumeDelta(u) [] OTHER -> ConsumePlain(u)

(* finalize: what was started ends, calls are handed over when called for.   *)
Flushed == {id \in DOMAIN tools : tools[id].name /\ tools[id].args # <<>>}
Finalize ==
  LET ends == {id \in DOMAIN tools : tools[id].started} IN
  \E order \in SetToSeqs(ends), calls \in SetToSeqs(IF final \in {"tool_calls", "stop"} THEN Flushed ELSE {}) :
    /\ contents' = contents \o [i \in Indices(order) |-> <<"end", order[i]>>]
                     \o [i \in Indices(calls) |-> <<"call", calls[i], tools[calls[i]].args>>]
                     \o <<<<"over", final>>>>
    /\ tools' = IF final \in {"tool_calls", "stop"} THEN <<>> ELSE tools

----------------------------------------------------------------------------
Idle == [pending |-> <<>>, done |-> FALSE, blocks |-> {}, usage |-> Untold]
Nothing == [steps |-> <<>>, reason |-> None, usage |-> None, fault |-> None]
Init ==
  /\ format \in {"openai", "anthropic"}
  /\ request \in {[sent |-> ms, got |-> RequestBody(ms)] : ms \in Histories}
  /\ reply = Nothing /\ wire = <<>> /\ buffer = <<>> /\ line = "none"
  /\ stream = Idle /\ tools = <<>> /\ index = <<>> /\ contents = <<>> /\ final = None

(* chat_stream: the server accepts and will answer. *)
Answered ==
  /\ line = "none" /\ line' = "open" /\ request' = [sent |-> <<>>, got |-> <<>>]
  /\ \E steps \in Replies, usage \in {"late", "with"}, fault \in {None, "bad", "error"} :
       /\ fault = "error" => format = "anthropic"
       /\ LET reason == IF Calls(steps) = {} THEN "stop" ELSE "tool_calls" IN
          \E r \in {reason, "length"} :
            reply' = [steps |-> steps, reason |-> r, usage |-> usage, fault |-> fault]
  /\ wire' = Halves(Lines(reply'))
  /\ UNCHANGED <<format, buffer, stream, tools, index, contents, final>>
(* Bytes arrive; the server closes after the last; the connection may break. *)
Arrive(n) ==
  /\ line = "open" /\ n <= Len(wire) /\ Len(buffer) < 2 * MaxPiece
  /\ buffer' = buffer \o SubSeq(wire, 1, n) /\ wire' = SubSeq(wire, n + 1, Len(wire))
  /\ UNCHANGED <<format, request, reply, line, stream, tools, index, contents, final>>
Close ==
  /\ line = "open" /\ line' \in {"closed", "broken"} /\ (line' = "closed" => wire = <<>>)
  /\ UNCHANGED <<format, request, reply, wire, buffer, stream, tools, index, contents, final>>

(* poll_next: an update that waits, else a line, else the end.               *)
Over == contents # <<>> /\ Last(contents)[1] = "over"
Polling == line # "none" /\ ~Over
Give ==
  /\ Polling /\ stream.pending # <<>>
  /\ LET u == Head(stream.pending) IN
     /\ Consume(u)
     /\ final' = IF u[1] = "finish" THEN u[2] ELSE final
  /\ stream' = [stream EXCEPT !.pending = Tail(@)]
  /\ UNCHANGED <<format, request, reply, wire, buffer, line>>
HasLine == \E i \in Indices(buffer) : buffer[i][2]
TakeLine ==
  /\ Polling /\ stream.pending = <<>> /\ ~stream.done /\ HasLine
  /\ LET n == CHOOSE i \in Indices(buffer) : buffer[i][2] /\ \A j \in 1..(i - 1) : ~buffer[j][2] IN
     buffer' = SubSeq(buffer, n + 1, Len(buffer)) /\ stream' = MapLine(stream, buffer[n][1])
  /\ UNCHANGED <<format, request, reply, wire, line, tools, index, contents, final>>
Breaks ==
  /\ Polling /\ stream.pending = <<>> /\ ~stream.done /\ ~HasLine /\ line = "broken"
  /\ stream' = [stream EXCEPT !.pending = <<<<"error">>>>, !.done = TRUE]
  /\ UNCHANGED <<format, request, reply, wire, buffer, line, tools, index, contents, final>>
Ends ==
  /\ Polling /\ stream.pending = <<>> /\ (stream.done \/ (~HasLine /\ line = "closed"))
  /\ Finalize /\ stream' = [stream EXCEPT !.done = TRUE]
  /\ UNCHANGED <<format, request, reply, wire, buffer, line, index, final>>
Next == Answered \/ Close \/ Give \/ TakeLine \/ Breaks \/ Ends \/ \E n \in 1..MaxPiece : Arrive(n)
Spec == Init /\ [][Next]_vars
----------------------------------------------------------------------------
Of(kinds) == SelectSeq(contents, LAMBDA c : c[1] \in kinds)
Steps ==
  [i \in Indices(reply.steps) |->
     LET s == reply.steps[i] IN
     CASE s[1] = "text" -> <<"text">> [] s[1] = "open" -> <<"start", Id(s[2])>>
       [] s[1] = "args" -> <<"args", Id(s[2]), s[3]>>]

(* The pieces the bytes arrive in do not matter: the caller sees the steps of *)
(* the answer in their order, all whose lines arrived even if it breaks off.  *)
Taken == Len(Lines(reply)) - Len(SelectSeq(buffer \o wire, LAMBDA h : h[2]))
InSteps ==
  LET seen == Of({"text", "start", "args"})
      taken == Taken - Lead
  IN /\ IsPrefix(seen, Steps) /\ (Over /\ final # None => seen = Steps)
     /\ stream.pending = <<>> /\ taken \in Indices(Steps) => Len(seen) = taken

(* Calls are handed over with all their arguments, once, if the model meant  *)
(* them: not when the answer was cut.                                        *)
PiecesOf(id) == LET mine == SelectSeq(Steps, LAMBDA c : c[1] = "args" /\ c[2] = id)
                IN [i \in Indices(mine) |-> mine[i][3]]
HandedOver ==
  /\ \A i \in Indices(contents) : contents[i][1] = "call" =>
       /\ contents[i][3] = PiecesOf(contents[i][2])
       /\ \A j \in Indices(contents) : contents[j][1] = "call" /\ contents[j][2] = contents[i][2] => i = j
  /\ Over => LET handed == {c[2] : c \in {contents[i] : i \in {i \in Indices(contents) : contents[i][1] = "call"}}}
             IN handed = IF final = "tool_calls" THEN {Id(i) : i \in {i \in Calls(reply.steps) : PiecesOf(Id(i)) # <<>>}}
                         ELSE {}

(* A call is started before its arguments come and ended once, after them. *)
Bracketed ==
  \A i \in Indices(contents) : contents[i][1] \in {"args", "end"} =>
    /\ Cardinality({j \in 1..(i - 1) : contents[j] = <<"start", contents[i][2]>>}) = 1
    /\ \A j \in (i + 1)..Len(contents) : contents[i][1] = "end" /\ contents[j][1] \in {"args", "start", "end"} =>
         contents[j][2] # contents[i][2]

(* The tokens of an answer are told, once by OpenAI; Anthropic's last count  *)
(* is the whole one, no token counted twice. A broken connection, an error of *)
(* the server and a line that cannot be read are told as errors.             *)
Accounted ==
  LET used == Of({"usage"})
      errors == Len(Of({"error"}))
      cut == reply.fault = "error"
  IN /\ Over /\ line = "closed" =>
          /\ used = CASE format = "openai" -> <<<<"usage", 2>>>> [] cut -> <<<<"usage", 2>>>>
                     [] OTHER -> <<<<"usage", 2>>, <<"usage", 3>>>>
          /\ final = (IF cut THEN None ELSE reply.reason) /\ errors = (IF reply.fault # None THEN 1 ELSE 0)
     /\ Over /\ final = None => errors > 0
     /\ errors > 0 => reply.fault # None \/ line = "broken"

(* The results of a round are one message right after its calls. *)
Rounds ==
  format = "anthropic" =>
    \A i \in Indices(request.got) :
      /\ request.got[i].calls # <<>> /\ request.got[i].role = "assistant" =>
           i < Len(request.got) /\ request.got[i + 1].role = "results"
           /\ ToSet(request.got[i + 1].calls) = ToSet(request.got[i].calls)
      /\ request.got[i].role = "results" => i > 1 /\ request.got[i - 1].role = "assistant"

StreamTold == InSteps /\ HandedOver /\ Bracketed /\ Accounted /\ Rounds
=============================================================================
