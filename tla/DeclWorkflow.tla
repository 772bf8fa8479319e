--------------------------- MODULE DeclWorkflow ----------------------------
(* The workflow compiler of the declarative layer: a list of actions becomes *)
(* nodes and edges, the graph is validated, and the engine runs it. Edge     *)
(* conditions made by VariableEdgeCondition::new have no state to read and   *)
(* never hold; a node made from a function takes text only.                  *)
EXTENDS Naturals, SequencesExt, FiniteSets
CONSTANTS MaxSteps  \* supersteps of a run
VARIABLES
  program,  \* the actions
  graph,    \* [status, start, nodes, edges]; not compiled, failed or ready
  pending,  \* messages of the next superstep: [to, type]
  store,    \* the prefixes under which the variable of the conditions was set
  results,  \* condition nodes that ran, with their result
  log       \* the nodes of each superstep
vars == <<program, graph, pending, store, results, log>>

None == 0
Act(kind, id) == [kind |-> kind, id |-> id]
Straight(kinds, n, from) == {[i \in 1..n |-> Act(k[i], from + i)] : k \in [1..n -> kinds]}
Bodies(from) == {<<>>} \cup Straight({"agent", "send"}, 1, from) \cup Straight({"agent", "send"}, 2, from)
Compounds ==
  [kind : {"if"}, id : {2}, then : Bodies(10), else : Bodies(20)]
    \cup {[kind |-> "group", id |-> 2, bodies |-> <<a, b>>, else |-> e] :
            a \in Bodies(10), b \in Straight({"agent"}, 1, 20), e \in Bodies(30)}
    \cup {[kind |-> "each", id |-> 2, body |-> b] :
            b \in Bodies(10) \cup {<<Act("send", 11), Act(k, 12)>> : k \in {"break", "continue"}}
              \cup {<<[kind |-> "if", id |-> 11, then |-> t, else |-> <<>>]>> : t \in Bodies(20)}}
Gotos == {<<Act("agent", 1), [kind |-> "goto", id |-> 2, to |-> t], Act("agent", 3)>> : t \in {1, 3, 9}}
         \cup {<<Act("send", 1), [kind |-> "goto", id |-> 2, to |-> 3], Act("agent", 3)>>}
Atoms == {"agent", "send", "tool", "set", "end"}
Programs ==
  UNION {Straight(Atoms, n, 0) : n \in 0..3} \cup Gotos
    \cup {pre \o <<c>> \o post : pre \in {<<>>} \cup Straight({"send", "set", "tool", "toolLocal"}, 1, 0),
                                 c \in Compounds, post \in {<<>>} \cup Straight({"send"}, 1, 4)}

----------------------------------------------------------------------------
(* emit_node: the first and the last node of an action and its edges.        *)
Edge(a, b, gate) == [from |-> a, to |-> b, gate |-> gate]
Or(a, b) == IF a # None THEN a ELSE b
Nothing == [first |-> None, last |-> None, nodes |-> {}, edges |-> {}]
If(T, E) == IF T THEN E ELSE {}

(* What the bodies of an action come to is emitted[body, loop].              *)
Emit(a, loop, emitted) ==
  CASE a.kind = "break" -> Nothing
    [] a.kind = "continue" -> [Nothing EXCEPT !.last = loop]
    [] a.kind = "if" ->
         LET t == emitted[a.then, loop]
             f == emitted[a.else, loop]
         IN [first |-> a.id, last |-> Or(t.last, f.first), nodes |-> {a} \cup t.nodes \cup f.nodes,
             edges |-> t.edges \cup f.edges
                         \cup If(t.first # None, {Edge(a.id, t.first, "gate")})
                         \cup If(t.first # None /\ f.first # None, {Edge(a.id, f.first, "none")})]
    [] a.kind = "group" ->
         LET b == [i \in DOMAIN a.bodies |-> emitted[a.bodies[i], loop]]
             e == emitted[a.else, loop]
             started == {i \in DOMAIN b : b[i].first # None}
             fallback == Or(e.first, FoldLeft(LAMBDA acc, x : Or(acc, x.last), None, b))
         IN [first |-> a.id, last |-> fallback,
             nodes |-> {a} \cup e.nodes \cup UNION {b[i].nodes : i \in DOMAIN b},
             edges |-> e.edges \cup UNION {b[i].edges : i \in DOMAIN b}
                         \cup {Edge(a.id, b[i].first, "gate") : i \in started}
                         \cup If(started # {} /\ fallback # None, {Edge(a.id, fallback, "none")})]
    [] a.kind = "each" ->
         LET b == emitted[a.body, a.id]
         IN [first |-> a.id, last |-> a.id, nodes |-> {a} \cup b.nodes,
             edges |-> b.edges \cup If(b.first # None, {Edge(a.id, b.first, "none")})
                         \cup If(b.last # None, {Edge(b.last, a.id, "back")})]
    [] OTHER -> [first |-> a.id, last |-> a.id, nodes |-> {a}, edges |-> {}]

(* A program and the bodies in it, which are nested at most three deep.      *)
BodiesOf(a) ==
  CASE a.kind = "if" -> {a.then, a.else}
    [] a.kind = "group" -> ToSet(a.bodies) \cup {a.else}
    [] a.kind = "each" -> {a.body}
    [] OTHER -> {}
Sequences(p) ==
  FoldLeft(LAMBDA acc, i : acc \cup UNION {BodiesOf(a) : a \in UNION {ToSet(s) : s \in acc}}, {p}, <<1, 2, 3>>)

(* A sequence joins the last node of each child to the last of the next one. *)
EmitAll(p) ==
  LET emitted[s \in Sequences(p), loop \in Nat] ==
        LET join(acc, a) ==
              LET c == Emit(a, loop, emitted) IN
              [first |-> Or(acc.first, c.first), last |-> Or(c.last, c.first),
               nodes |-> acc.nodes \cup c.nodes,
               edges |-> acc.edges \cup c.edges
                           \cup If(acc.last # None /\ c.last # None, {Edge(acc.last, c.last, "none")})]
        IN  IF Len(s) = 1 THEN Emit(s[1], loop, emitted) ELSE FoldLeft(join, Nothing, s)
  IN  emitted[p, None]

(* A goto names an agent; build wants a start and no cycle but by loops.     *)
Agents(nodes) == {a.id : a \in {n \in nodes : n.kind = "agent"}}
GotosOf(nodes) == {n \in nodes : n.kind = "goto"}
Reach(start, edges, n) ==
  FoldLeft(LAMBDA acc, i : acc \cup {e.to : e \in {e \in edges : e.from \in acc}}, start, [i \in 1..n |-> i])
Cyclic(g) ==
  LET n == Cardinality(g.nodes)
      reachable == Reach({g.start}, g.edges, n)
      edges == {e \in g.edges : e.gate # "back" /\ e.from \in reachable}
  IN \E e \in edges : e.from \in Reach({e.to}, edges, n)
Compiled(p) ==
  LET r == EmitAll(p)
      g == [status |-> "ready", start |-> r.first, nodes |-> r.nodes,
            edges |-> r.edges \cup {Edge(n.id, n.to, "none") : n \in GotosOf(r.nodes)}]
  IN IF \/ \E n \in GotosOf(r.nodes) : n.to \notin Agents(r.nodes)
        \/ r.first = None \/ Cyclic(g)
     THEN [g EXCEPT !.status = "failed"] ELSE g

----------------------------------------------------------------------------
(* What the executors take and send. *)
Node(i) == CHOOSE n \in graph.nodes : n.id = i
(* An agent answers with a chat message, after up to fifty runs of its loop.  *)
Replies == {"chat"}
Takes(n, type) == n.kind \in {"each", "goto", "end"} => type = "text"
Sends(n) == CASE n.kind = "agent" -> Replies
              [] n.kind \in {"send", "tool", "toolLocal", "if", "group", "each"} -> {"text"}
              [] OTHER -> {}
(* A variable is kept under the name it was declared with. *)
Written(ran) ==
  {"" : n \in {n \in ran : n.kind \in {"set", "tool"}}} \cup {"Local." : n \in {n \in ran : n.kind = "toolLocal"}}
(* A condition reads it without its prefix.                                  *)
Holds == "" \in store
Tested(ran) == {<<n.id, Holds>> : n \in {n \in ran : n.kind \in {"if", "group"}}}
EdgeHolds(e) == e.gate # "gate"

Uncompiled == [status |-> "none", start |-> None, nodes |-> {}, edges |-> {}]
Init ==
  /\ program \in Programs /\ graph = Uncompiled /\ pending = {} /\ store = {} /\ results = {} /\ log = <<>>
Compile ==
  /\ graph.status = "none" /\ graph' = Compiled(program)
  /\ pending' = IF graph'.status = "failed" THEN {} ELSE {[to |-> graph'.start, type |-> "chat"]}
  /\ UNCHANGED <<program, store, results, log>>
(* A superstep; a message of the wrong type fails the run.                   *)
Superstep ==
  /\ pending # {} /\ Len(log) < MaxSteps
  /\ LET ran == {Node(m.to) : m \in pending} IN
     IF \E m \in pending : ~Takes(Node(m.to), m.type)
     THEN pending' = {} /\ log' = Append(log, {0}) /\ UNCHANGED <<store, results>>
     ELSE /\ pending' = UNION {{[to |-> e.to, type |-> t] : t \in Sends(n),
                                e \in {e \in graph.edges : e.from = n.id /\ EdgeHolds(e)}} : n \in ran}
          /\ log' = Append(log, {n.id : n \in ran})
          /\ store' = store \cup Written(ran)
          /\ results' = results \cup Tested(ran)
  /\ UNCHANGED <<program, graph>>
Next == Compile \/ Superstep
Spec == Init /\ [][Next]_vars

----------------------------------------------------------------------------
(* What the actions say: one after the other, a branch by its condition.     *)
Add(acc, a) == [acc EXCEPT !.ids = Append(@, a.id)]
Said == [ids : Seq(Nat), holds : BOOLEAN, ended : BOOLEAN]
Told(p) ==
  LET told[acc \in Said, s \in Sequences(p)] ==
        FoldLeft(LAMBDA r, a :
          IF r.ended THEN r
          ELSE CASE a.kind \in {"set", "tool", "toolLocal"} -> [Add(r, a) EXCEPT !.holds = TRUE]
                 [] a.kind = "if" -> told[Add(r, a), IF r.holds THEN a.then ELSE a.else]
                 [] a.kind = "group" -> told[Add(r, a), IF r.holds THEN a.bodies[1] ELSE a.else]
                 [] a.kind = "end" -> [Add(r, a) EXCEPT !.ended = TRUE]
                 [] OTHER -> Add(r, a), acc, s)
  IN  told[[ids |-> <<>>, holds |-> FALSE, ended |-> FALSE], p]
Kinds == {program[i].kind : i \in DOMAIN program}
Running == graph.status = "ready"

(* ir.rs:18 has a sequence run its children in order ("顺序链：子节点按序串联执行"): *)
(* every action without loops and jumps runs when its turn comes.            *)
InOrder ==
  Running /\ Kinds \cap {"each", "goto"} = {} =>
    LET told == Told(program).ids IN
    /\ \A i \in DOMAIN log : i <= Len(told) /\ log[i] = {told[i]}
    /\ pending = {} => Len(log) = Len(told)

(* It does in programs of actions that pass a message on, with at most one   *)
(* last action that does not and takes what it gets.                         *)
Plain ==
  \A i \in DOMAIN program :
    \/ program[i].kind \in {"agent", "send", "tool"}
    \/ /\ i = Len(program)
       /\ \/ program[i].kind = "set"
          \/ program[i].kind = "end" /\ i > 1 /\ program[i - 1].kind \in {"send", "tool"}
PlainInOrder == Plain => InOrder

(* Whatever the actions are: a graph joins its own nodes, a run without a    *)
(* loop ends, and jumps go to agents of the program.                         *)
GraphSound ==
  Running =>
    LET ids == {n.id : n \in graph.nodes} IN
    /\ \A e \in graph.edges : {e.from, e.to} \subseteq ids
    /\ "each" \notin Kinds => Len(log) <= Cardinality(ids)
    /\ \A e \in graph.edges : Node(e.from).kind = "goto" => Node(e.to).kind = "agent"

(* A first action is run first, and nothing comes after an end.              *)
RunsSound ==
  Running =>
    /\ log # <<>> /\ log[1] # {0} => log[1] = {program[1].id}
    /\ \A i, j \in DOMAIN program : program[i].kind = "end" /\ i < j =>
         \A k \in DOMAIN log : program[j].id \notin log[k]

(* A condition that held had its variable set, by an action before it.       *)
HoldsIfSet ==
  \A r \in results : r[2] =>
    \E i \in DOMAIN program : program[i].kind \in {"set", "tool", "toolLocal"}

DeclKept == PlainInOrder /\ GraphSound /\ RunsSound /\ HoldsIfSet
=============================================================================
