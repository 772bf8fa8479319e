---------------------------- MODULE Orchestrations ----------------------------
(* The workflow builder with its validation (workflow/src/builder, graph) and  *)
(* the orchestration patterns built on it (workflow/src/orchestrations), run   *)
(* by supersteps.  The interleavings inside a superstep are WorkflowEngine's;  *)
(* here a superstep is one step, and what counts is which node is reached.     *)
EXTENDS Naturals, FiniteSets, SequencesExt, Relation, TLC

CONSTANTS
  MaxAgents, \* bound: agents of a pattern
  FreeNodes, \* bound: nodes of a graph built call by call
  MaxEdges   \* bound: edge calls of such a graph

VARIABLES
  calls,    \* the builder calls still to make
  graph,    \* the builder: nodes with their kinds, edges, start, outputs, count
  phase,    \* "calling", "built", "running", "rejected", "completed" or "failed"
  inbox,    \* per node: the types of its queued messages
  runs,     \* per node: messages handled
  said      \* pairs (n, m): something n said was let through to m

orchVars == <<calls, graph, phase, inbox, runs, said>>

-----------------------------------------------------------------------------
(* Builder calls and the patterns as sequences of them.                        *)

Node(id, kind) == [op |-> "node", id |-> id, kind |-> kind]
Start(id) == [op |-> "start", id |-> id]
Output(id) == [op |-> "output", id |-> id]
Edge(op, from, to) == [op |-> op, from |-> from, to |-> to]

Agent(i) == <<"agent", i>>
Lead == <<"lead", 0>>      \* the triage agent, orchestrator or coordinator
Source == <<"source", 0>>  \* passes the initial messages on
Sink == <<"sink", 0>>      \* aggregates texts

Agents(n) == [i \in 1..n |-> Node(Agent(i), "agent")]
Names(n) == {Agent(i) : i \in 1..n}

\* A chain in the order of the agents.
Sequential(n) ==
  Agents(n) \o <<Start(Agent(1))>>
  \o [i \in 1..n - 1 |-> Edge("edge", {Agent(i)}, {Agent(i + 1)})] \o <<Output(Agent(n))>>

\* The static graph of a group chat with a coordinator.
GroupGraph(n) ==
  <<Node(Lead, "agent"), Start(Lead)>> \o Agents(n)
  \o <<Edge("edge", {Lead}, {Agent(1)})>>
  \o [i \in 1..n - 1 |-> Edge("edge", {Agent(i)}, {Agent(i + 1)})] \o <<Output(Agent(n))>>

\* Concurrent agents and voters: fan out from a source, fan in to a sink.
Concurrent(n) ==
  <<Node(Source, "source"), Start(Source)>> \o Agents(n)
  \o <<Edge("fan_out", {Source}, Names(n)), Node(Sink, "sink"),
       Edge("fan_in", Names(n), {Sink}), Output(Sink)>>

\* Triage, then every expert whose name the triage text contains.
Handoff(n) ==
  <<Node(Lead, "agent"), Start(Lead)>> \o Agents(n)
  \o [i \in 1..n |-> Edge("if", {Lead}, {Agent(i)})] \o [i \in 1..n |-> Output(Agent(i))]

\* An orchestrator that fans out once to all its sub-agents.
Magentic(n) ==
  <<Node(Lead, "agent"), Start(Lead)>> \o Agents(n)
  \o <<Edge("fan_out", {Lead}, Names(n))>> \o [i \in 1..n |-> Output(Agent(i))]
  \o <<Output(Lead)>>

Patterns ==
  UNION {{Sequential(n), GroupGraph(n), Concurrent(n), Handoff(n), Magentic(n)} : n \in 1..MaxAgents}

Task(i) == <<"task", i>>

\* A process definition that a gateway splits between two tasks and an event may
\* interrupt: its nodes, its edges source by source, its start and its end.
Gateway(kind, default) ==
  CASE kind = "parallel" -> <<Edge("fan_out", {Task(2)}, {Task(3), Task(4)})>>
    [] kind = "inclusive" -> <<Edge("inc", {Task(2)}, {Task(3), Task(4)})>>
    [] kind = "exclusive" -> <<[op |-> "xor", from |-> {Task(2)}, to |-> {Task(3)}, default |-> default]>>
    [] OTHER -> <<Edge("if", {Task(2)}, {Task(3)}), Edge("edge", {Task(2)}, {Task(4)})>>

Process(kind, default, event) ==
  [i \in 1..5 |-> Node(Task(i), "task")]
  \o (IF event THEN <<Node(Task(6), "task")>> ELSE <<>>)
  \o <<Edge("edge", {Task(1)}, {Task(2)})>> \o Gateway(kind, default)
  \o [i \in 1..2 |-> Edge("edge", {Task(i + 2)}, {Task(5)})]
  \o (IF event THEN <<Edge("edge", {Task(3)}, {Task(6)})>> ELSE <<>>)
  \o <<Start(Task(1)), Output(Task(5))>>

Processes ==
  {Process(k, d, e) : k \in {"parallel", "inclusive", "exclusive", "plain"},
                      d \in {{}, {Task(4)}}, e \in BOOLEAN}

\* Graphs built call by call: any edges between some nodes, one of which may
\* never have been added.
FreeEdges ==
  {Edge(op, {a}, {b}) : op \in {"edge", "loopback"}, a \in FreeNodes, b \in FreeNodes}
  \cup {Edge("fan_out", {a}, FreeNodes \ {a}) : a \in FreeNodes}
  \cup {[op |-> "xor", from |-> {a}, to |-> FreeNodes \ {a}, default |-> d] :
          a \in FreeNodes, d \in {{}} \cup {{b} : b \in FreeNodes}}
  \cup {Edge("inc", {a}, FreeNodes \ {a}) : a \in FreeNodes}

-----------------------------------------------------------------------------
(* The builder.                                                                *)

Empty == [nodes |-> <<>>, edges |-> <<>>, start |-> {}, outputs |-> {}, count |-> 0]

Init ==
  /\ calls \in Patterns \cup Processes \cup
       {<<Node(CHOOSE a \in FreeNodes : TRUE, "agent")>>,
        SetToSeq({Node(a, "agent") : a \in FreeNodes})
          \o <<Start(CHOOSE a \in FreeNodes : TRUE)>>}
  /\ graph = Empty /\ phase = "calling"
  /\ inbox = <<>> /\ runs = <<>> /\ said = {}

NewEdge(id, kind, from, to, guarded) ==
  [id |-> id, kind |-> kind, from |-> from, to |-> to,
   guarded |-> guarded, loopback |-> FALSE]

\* A mutant that numbers every edge with the number of its kind of call only.
AdvanceNever(g) == g

\* next_edge_id counts every call once, also the calls that add several edges.
Advance(g) == [g EXCEPT !.count = @ + 1]

AddEdges(g, es) == [g EXCEPT !.edges = @ \o es]

\* One guarded edge per branch, numbered from the count on.
Branches(g, c) ==
  LET to == SetToSeq(c.to)
  IN  [i \in 1..Len(to) |-> NewEdge(<<c.op, g.count + i - 1>>, "direct", c.from, {to[i]}, TRUE)]

Plain(g, c) ==
  LET kind == IF c.op \in {"fan_out", "fan_in"} THEN c.op ELSE "direct"
      e == NewEdge(<<"edge", g.count>>, kind, c.from, c.to, c.op = "if")
  IN  Advance(AddEdges(g, <<[e EXCEPT !.loopback = c.op = "loopback"]>>))

\* The guarded branches first, then the default as an edge without a condition.
Exclusive(g, c) ==
  LET h == Advance(AddEdges(g, Branches(g, c)))
  IN  IF c.default = {} THEN h
      ELSE Advance(AddEdges(h, <<NewEdge(<<"edge", h.count>>, "direct", c.from, c.default, FALSE)>>))

Apply(g, c) ==
  CASE c.op = "node" -> [g EXCEPT !.nodes = (c.id :> c.kind) @@ @]
    [] c.op = "start" -> [g EXCEPT !.start = {c.id}]
    [] c.op = "output" -> [g EXCEPT !.outputs = @ \cup {c.id}]
    [] c.op = "xor" -> Exclusive(g, c)
    [] c.op = "inc" -> Advance(AddEdges(g, Branches(g, c)))
    [] OTHER -> Plain(g, c)

Call ==
  /\ phase = "calling" /\ calls # <<>>
  /\ calls' = Tail(calls)
  /\ graph' = Apply(graph, Head(calls))
  /\ UNCHANGED <<phase, inbox, runs, said>>

CallFree ==
  /\ phase = "calling" /\ calls = <<>>
  /\ DOMAIN graph.nodes \subseteq FreeNodes /\ Len(graph.edges) < MaxEdges
  /\ \E e \in FreeEdges : graph' = Apply(graph, e)
  /\ UNCHANGED <<calls, phase, inbox, runs, said>>

-----------------------------------------------------------------------------
(* build() and validate().                                                     *)

\* Edges are grouped by source in hash sets: of two with one id the first stays.
EdgesOf(n) ==
  {graph.edges[i] : i \in {j \in DOMAIN graph.edges :
     /\ n \in graph.edges[j].from
     /\ \A k \in 1..j - 1 : n \in graph.edges[k].from => graph.edges[k].id # graph.edges[j].id}}

Registered ==
  LET ends == UNION ({e.from \cup e.to : e \in ToSet(graph.edges)} \cup {graph.start, graph.outputs})
  IN  graph.start # {} /\ ends \subseteq DOMAIN graph.nodes

\* Only a node that is still being searched closes a cycle.
ClosesCycle(colour) == colour = "grey"

\* detect_cycles: depth first from the start with three colours; loopback edges
\* are passed over.
Search ==
  LET nodes == DOMAIN graph.nodes
      sinks(n) == SetToSeq(UNION {e.to : e \in {e \in EdgesOf(n) : ~e.loopback}})
      search[n \in nodes, colours \in [nodes -> {"white", "grey", "black"}]] ==
        LET visit(s, m) ==
              CASE s.cycle \/ ClosesCycle(s.colours[m]) -> [s EXCEPT !.cycle = TRUE]
                [] s.colours[m] = "white" -> search[m, s.colours]
                [] OTHER -> s
            all == FoldLeft(visit, [cycle |-> FALSE, colours |-> [colours EXCEPT ![n] = "grey"]], sinks(n))
        IN  [all EXCEPT !.colours[n] = "black"]
  IN  search

HasCycle ==
  \E n \in graph.start : Search[n, [m \in DOMAIN graph.nodes |-> "white"]].cycle

\* Graphs with a loopback edge are not run here: loops are WorkflowEngine's.
BuildOk ==
  /\ phase = "calling" /\ calls = <<>>
  /\ Registered /\ ~HasCycle
  /\ phase' = IF \E e \in ToSet(graph.edges) : e.loopback THEN "built" ELSE "running"
  /\ inbox' = [n \in DOMAIN graph.nodes |-> IF n \in graph.start THEN <<"chats">> ELSE <<>>]
  /\ runs' = [n \in DOMAIN graph.nodes |-> 0]
  /\ UNCHANGED <<calls, graph, said>>

BuildRejected ==
  /\ phase = "calling" /\ calls = <<>>
  /\ ~(Registered /\ ~HasCycle)
  /\ phase' = "rejected"
  /\ UNCHANGED <<calls, graph, inbox, runs, said>>

-----------------------------------------------------------------------------
(* The run.                                                                    *)

Active == {n \in DOMAIN inbox : inbox[n] # <<>>}

\* A sink is a function of texts; a source one of the initial messages.
Accepts(n, type) ==
  CASE graph.nodes[n] = "sink" -> type = "text"
    [] graph.nodes[n] = "source" -> type = "chats"
    [] OTHER -> TRUE

Produces(n) ==
  CASE graph.nodes[n] = "sink" -> "text"
    [] graph.nodes[n] = "source" -> "chats"
    [] OTHER -> "chat"

\* A fan-in edge has a runner, hence a barrier, per source: it opens only when
\* that source is the only one.
Lets(e, n, passed) ==
  CASE e.kind = "fan_in" -> e.from = {n}
    [] e.guarded -> e \in passed
    [] OTHER -> TRUE

\* The targets of what a node produced, as a sequence: one entry per delivery.
Deliveries(n, passed) ==
  LET es == SetToSeq({e \in EdgesOf(n) : Lets(e, n, passed)})
  IN  FoldLeft(LAMBDA s, e : s \o SetToSeq(e.to), <<>>, es)

\* Every message a node handled produced one, if it spoke at all.
Received(m, spoke, passed) ==
  LET from(n) == SelectSeq(Deliveries(n, passed), LAMBDA t : t = m)
      sent(n) == IF n \in spoke THEN [i \in 1..Len(inbox[n]) * Len(from(n)) |-> Produces(n)] ELSE <<>>
  IN  FoldLeft(LAMBDA s, n : s \o sent(n), <<>>, SetToSeq(Active))

\* The conditions of a process definition have no state to read: they are false.
MayPass(e) == e.guarded /\ \A n \in e.from : graph.nodes[n] # "task"

\* Agents may have nothing to say: then they send no message.
Superstep ==
  /\ phase = "running" /\ Active # {}
  /\ \A n \in Active : \A i \in DOMAIN inbox[n] : Accepts(n, inbox[n][i])
  /\ \E spoke \in SUBSET Active,
        passed \in SUBSET {e \in UNION {EdgesOf(n) : n \in Active} : MayPass(e)} :
       /\ {n \in Active : graph.nodes[n] # "agent"} \subseteq spoke
       /\ inbox' = [m \in DOMAIN inbox |-> Received(m, spoke, passed)]
       /\ runs' = [n \in DOMAIN runs |-> runs[n] + Len(inbox[n])]
       /\ said' = said \cup {p \in spoke \X DOMAIN inbox :
                     \E e \in ToSet(graph.edges) :
                       p[1] \in e.from /\ p[2] \in e.to /\ (e.guarded => e \in passed)}
  /\ UNCHANGED <<calls, graph, phase>>

\* A node fails, or gets a message of a type it does not take.
SuperstepFails ==
  /\ phase = "running" /\ Active # {}
  /\ phase' = "failed"
  /\ UNCHANGED <<calls, graph, inbox, runs, said>>

Complete ==
  /\ phase = "running" /\ Active = {}
  /\ phase' = "completed"
  /\ UNCHANGED <<calls, graph, inbox, runs, said>>

Ended == phase \in {"built", "rejected", "completed", "failed"} /\ UNCHANGED orchVars

Next ==
  \/ Call \/ CallFree \/ BuildOk \/ BuildRejected \/ Superstep \/ SuperstepFails \/ Complete
  \/ Ended

Spec == Init /\ [][Next]_orchVars

-----------------------------------------------------------------------------
\* build() refuses exactly the graphs with a dangling end or with a cycle that
\* the start reaches over edges that are not loopbacks.
BuildSound ==
  LET nodes == DOMAIN graph.nodes
      step == [p \in nodes \X nodes |-> \E e \in EdgesOf(p[1]) : ~e.loopback /\ p[2] \in e.to]
      path == TransitiveClosure(step, nodes)
      cyclic == \E s \in graph.start : \E n \in nodes : (n = s \/ path[s, n]) /\ path[n, n]
  IN  /\ phase = "rejected" => ~Registered \/ cyclic
      /\ phase \in {"built", "running"} => Registered /\ ~cyclic

\* The graph keeps every edge that was added, unless two gateways of one kind
\* leave the same node: those number their branches alike.
NoEdgeLost ==
  phase \in {"built", "running"} =>
    \A n \in DOMAIN graph.nodes :
      LET mine == SelectSeq(graph.edges, LAMBDA e : n \in e.from)
          branches(op) == {e.id[2] : e \in {e \in ToSet(mine) : e.id[1] = op}}
          alone(op) == Cardinality(branches(op)) <= Cardinality(FreeNodes) - 1
      IN  alone("xor") /\ alone("inc") => Cardinality(EdgesOf(n)) = Len(mine)

\* A run reaches a node only when something was said to it that its edge lets
\* through, an agent of a pattern at most once; and whoever something was said to
\* is reached, but for the sinks: whether a join opens is not claimed here.
RunAsTold ==
  phase = "completed" =>
    \A n \in DOMAIN runs :
      LET told == n \in graph.start \/ \E m \in DOMAIN runs : <<m, n>> \in said
      IN  /\ runs[n] > 0 => told
          /\ told /\ graph.nodes[n] # "sink" => runs[n] > 0
          /\ graph.nodes[n] = "agent" /\ n \notin FreeNodes => runs[n] <= 1

GraphsAsBuilt == BuildSound /\ NoEdgeLost /\ RunAsTold
===============================================================================
