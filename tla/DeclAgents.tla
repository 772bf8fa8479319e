----------------------------- MODULE DeclAgents ------------------------------
(* Agents built from declarations (decl/src): the tools and the connection of *)
(* each agent, the contexts it inherits, the team an orchestration makes of   *)
(* the sub-agents, and the wrappers that hand messages along a sequence.      *)
EXTENDS Naturals, SequencesExt, FiniteSets
CONSTANTS
  MaxDepth,   \* references followed to find a connection
  Questions,  \* what runs of a sequence are asked
  MaxRuns     \* bound: runs of a sequence
VARIABLES
  decl,    \* the agent definition, and what the caller of the builder gives
  built,   \* [status, agents, lead, team, nodes, edges, back] of build()
  report,  \* agents validate() reports an error of
  hist,    \* the history that the agents of a sequence share
  pinned,  \* per agent of a sequence: the input it was given first
  runs,    \* runs of the sequence: [question, at, step, handed, said, alone, kept]
  heard    \* inputs of agents: their run then, its number, what they got
vars == <<decl, built, report, hist, pinned, runs, heard>>

Nobody == "nobody"
Root == "root"
If(T, E) == IF T THEN E ELSE {}

----------------------------------------------------------------------------
(* Connections: a key, a variable of the environment, or a reference to a    *)
(* connection registered by name.                                            *)
Conn(kind, key, url, name) == [kind |-> kind, key |-> key, url |-> url, name |-> name]
Key(k, url) == Conn("key", k, url, Nobody)
Reference(n) == Conn("reference", "none", "none", n)
Failed == [ok |-> FALSE, key |-> "none", url |-> "none"]
Found(k, url) == [ok |-> TRUE, key |-> k, url |-> url]

(* What a connection comes to when references are followed, up to MaxDepth.  *)
Credentials(conn, registry, env) ==
  LET after[depth \in Nat] ==
        IF depth = 0 THEN conn
        ELSE LET c == after[depth - 1]
             IN  IF c.kind = "reference" /\ c.name \in DOMAIN registry THEN registry[c.name] ELSE c
      c == after[MaxDepth]
  IN  CASE c.kind = "key" ->
             IF c.key = "none" \/ (c.key = "$VAR" /\ ~env) THEN Failed ELSE Found(c.key, c.url)
        [] c.kind = "remote" ->
             IF c.url = "none" \/ ~env THEN Failed ELSE Found("$VAR", c.url)
        [] c.kind = "oauth" -> IF env THEN Found("$VAR", c.url) ELSE Failed
        [] c.kind = "anonymous" -> Found("", "none")
        [] c.kind = "reference" -> Failed  \* to nothing, or too far

(* The chat client: the custom provider has no address of its own.           *)
Client(provider, conn, d) ==
  LET c == Credentials(conn, d.registry, d.env)
  IN  IF c.ok /\ (provider = "custom" => c.url # "none") THEN c ELSE Failed

----------------------------------------------------------------------------
(* Tools: <<kind, name>>; without a name a kind stands for all of its tools. *)
Unnamed == ""
BuiltIn == [web |-> {"web_search", "web_fetch"}, code |-> {"code_interpreter"}, function |-> {}]
Expanded(t) == IF t[2] = Unnamed THEN {<<t[1], n>> : n \in BuiltIn[t[1]]} ELSE {t}
(* A factory of the caller stands in for the interpreter, not for the others.*)
Resolve(t, factories) ==
  CASE t[1] = "code" /\ t[2] \in factories -> "factory"
    [] t[2] \in BuiltIn[t[1]] -> "builtin"
    [] t[2] \in factories -> "factory"
    [] OTHER -> "unknown"
ToolsOf(tools, factories) ==
  {<<t[2], Resolve(t, factories)>> : t \in UNION {Expanded(t) : t \in tools}}
ToolsFail(tools, factories) == \E t \in ToolsOf(tools, factories) : t[2] = "unknown"

----------------------------------------------------------------------------
(* One prompt agent.                                                         *)
Sub(name, kind, tools, contexts) ==
  [name |-> name, kind |-> kind, provider |-> "openai", conn |-> Key("own", "own"),
   tools |-> tools, contexts |-> contexts]
Context(kind, name, of) == [kind |-> kind, name |-> name, of |-> of]

Override(a, d) == IF d.key = "none" THEN a ELSE [a EXCEPT !.conn = Key(d.key, "none")]
Inherit(a, parent) ==
  [a EXCEPT !.contexts = @ \cup
     {p \in parent.contexts : \A c \in a.contexts : c.kind # p.kind \/ c.name # p.name}]
Ready(a, d) == ~ToolsFail(a.tools, d.factories) /\ Client(a.provider, a.conn, d).ok
History(cs) == If(\A c \in cs : c.kind # "history", {Context("history", "default", "builder")})
Single(a, d) ==
  [name |-> a.name, key |-> Client(a.provider, a.conn, d).key, tools |-> ToolsOf(a.tools, d.factories),
   contexts |-> a.contexts \cup d.added \cup History(a.contexts \cup d.added)]

----------------------------------------------------------------------------
(* The orchestration object, or a word, or nothing.                          *)
Default == 15
ModeOf(o) == IF o.form = "absent" THEN "magentic" ELSE o.mode
MaxOf(o) ==
  CASE o.form = "absent" -> Default
    [] o.form = "object" /\ o.max >= 0 -> o.max
    [] o.legacy >= 0 -> o.legacy
    [] OTHER -> Default
LeadOf(o) == IF o.form = "object" THEN o.lead ELSE Nobody
PhasesOf(o) == IF o.form = "object" THEN o.phases ELSE <<>>
UsesRoot(o) ==
  ModeOf(o) \in {"magentic", "pipeline"} \/ (ModeOf(o) \in {"handoff", "groupChat"} /\ LeadOf(o) = Nobody)

(* Who leads and who takes part, in the order the map of sub-agents gives.    *)
Named(s) == {s[i].name : i \in DOMAIN s}
Orders(S) == {s \in [1..Cardinality(S) -> S] : ToSet(s) = S}
Split(o, order) ==
  IF ModeOf(o) \notin {"handoff", "groupChat"} \/ LeadOf(o) = Nobody
  THEN [lead |-> IF UsesRoot(o) THEN Root ELSE Nobody, team |-> order]
  ELSE [lead |-> LeadOf(o), team |-> SelectSeq(order, LAMBDA n : n # LeadOf(o))]
SplitFails(o, order) ==
  \/ LeadOf(o) # Nobody /\ ModeOf(o) \in {"handoff", "groupChat"} /\ LeadOf(o) \notin ToSet(order)
  \/ ModeOf(o) = "handoff" /\ LeadOf(o) # Nobody /\ Split(o, order).team = <<>>

(* The graphs this layer builds itself: edges, nodes, the way back.           *)
Plan(nodes, edges, back) == [nodes |-> nodes, edges |-> edges, back |-> back]
NoPlan == Plan({}, {}, {})
Spread(from, targets, to) == {<<from, t>> : t \in targets} \cup {<<t, to>> : t \in targets}

Magentic(order, max) ==
  LET targets == {<<"agent", i>> : i \in DOMAIN order}
      all == {<<Root>>, <<"fanout">>, <<"fanin">>}
  IN  Plan(all \cup targets, {<<<<Root>>, <<"fanout">>>>} \cup Spread(<<"fanout">>, targets, <<"fanin">>),
           If(max > 1, {<<<<"fanin">>, <<Root>>>>}))

Entry(i, p) == IF p.how = "par" THEN <<i, "fanout">> ELSE <<i, p.agents[1]>>
Exit(i, p) == IF p.how = "par" THEN <<i, "fanin">> ELSE <<i, Last(p.agents)>>
Inside(i, p) ==
  LET at == [k \in DOMAIN p.agents |-> <<i, p.agents[k]>>]
  IN  IF p.how = "par" THEN Spread(<<i, "fanout">>, ToSet(at), <<i, "fanin">>)
      ELSE {<<at[k], at[k + 1]>> : k \in 1..Len(at) - 1}
ConnectPhase(phases, i) ==
  <<IF i = 1 THEN <<Root>> ELSE Exit(i - 1, phases[i - 1]), Entry(i, phases[i])>>
Pipeline(phases, from, max) ==
  LET edges == UNION {Inside(i, phases[i]) \cup {ConnectPhase(phases, i)} : i \in DOMAIN phases}
      n == Len(phases)
  IN  Plan({<<Root>>} \cup {e[2] : e \in edges}, edges,
           If(max > 0 /\ from < n, {<<Exit(n, phases[n]), Entry(from + 1, phases[from + 1])>>}))
PipelineFails(phases, known) ==
  phases = <<>> \/ \E p \in ToSet(phases) : p.agents = <<>> \/ ~(ToSet(p.agents) \subseteq known)

After(edges, from) ==
  FoldLeft(LAMBDA s, i : s \cup {e[2] : e \in {e \in edges : e[1] \in s}},
           {e[2] : e \in {e \in edges : e[1] = from}}, [i \in 1..Cardinality(edges) |-> i])
Cyclic(p) == \E n \in p.nodes : n \in After(p.edges, n)

GraphOf(o, order) ==
  CASE ModeOf(o) = "magentic" -> Magentic(order, MaxOf(o))
    [] ModeOf(o) = "pipeline" -> Pipeline(PhasesOf(o), o.from, MaxOf(o))
    [] OTHER -> NoPlan
TeamFails(o, order) ==
  \/ o.form = "bad" \/ ModeOf(o) \in {"workflow", "custom"}
  \/ SplitFails(o, order)
  \/ ModeOf(o) = "pipeline" /\ PipelineFails(PhasesOf(o), ToSet(order))
  \/ ModeOf(o) = "pipeline" /\ Cyclic(GraphOf(o, order))

----------------------------------------------------------------------------
(* build(): the agents under the names they are registered with; of two      *)
(* sub-agents with one name the later one stays.                             *)
Child(a, d) == Inherit(Override(a, d), d.root)
RootOf(d) == Override(d.root, d)
Leaders(d) == If(UsesRoot(d.orch), {Root})
AgentOf(d, n) ==
  IF n = Root THEN Single(RootOf(d), d)
  ELSE LET i == CHOOSE i \in DOMAIN d.subs :
                  d.subs[i].name = n /\ \A j \in DOMAIN d.subs : d.subs[j].name = n => j <= i
       IN  Single(Child(d.subs[i], d), d)
BuildFails(d, order) ==
  IF d.subs = <<>> THEN ~Ready(RootOf(d), d)
  ELSE \/ \E a \in ToSet(d.subs) : a.kind # "prompt" \/ ~Ready(Child(a, d), d)
       \/ UsesRoot(d.orch) /\ ~Ready(RootOf(d), d)
       \/ TeamFails(d.orch, order)

(* validate() looks at kinds and tools only.                                 *)
Reported(d) ==
  If(ToolsFail(d.root.tools, d.factories), {Root})
    \cup {a.name : a \in {a \in ToSet(d.subs) : a.kind = "workflow" \/ ToolsFail(a.tools, d.factories)}}

Unbuilt == [status |-> "no", agents |-> {}, lead |-> Nobody, team |-> <<>>, plan |-> NoPlan]
Build ==
  /\ built.status = "no"
  /\ \E order \in Orders(Named(decl.subs)) :
       built' = CASE BuildFails(decl, order) -> [Unbuilt EXCEPT !.status = "failed"]
                  [] ~BuildFails(decl, order) /\ decl.subs = <<>> ->
                       [Unbuilt EXCEPT !.status = "ready", !.agents = {AgentOf(decl, Root)}]
                  [] OTHER ->
                       [status |-> "ready",
                        agents |-> {AgentOf(decl, n) : n \in ToSet(order) \cup Leaders(decl)},
                        lead |-> Split(decl.orch, order).lead, team |-> Split(decl.orch, order).team,
                        plan |-> GraphOf(decl.orch, order)]
  /\ report' = Reported(decl)
  /\ UNCHANGED <<decl, hist, pinned, runs, heard>>

----------------------------------------------------------------------------
(* A sequence of agents: each chained to a shared history, or each pinned to *)
(* the input it was given first.                                             *)
User(q) == <<"user", q>>
Running(r) == r.at > 0
Ask(q) ==
  /\ built.status = "ready" /\ ModeOf(decl.orch) = "sequential" /\ decl.subs # <<>>
  /\ Len(runs) < MaxRuns
  /\ LET others == \E i \in DOMAIN runs : Running(runs[i])
         past == [i \in DOMAIN runs |->
                    [runs[i] EXCEPT !.alone = @ /\ ~Running(runs[i])]]
     IN  runs' = Append(past, [question |-> q, at |-> 1, step |-> "asked", handed |-> User(q),
                               said |-> <<>>, alone |-> ~others, kept |-> TRUE])
  /\ UNCHANGED <<decl, built, report, hist, pinned, heard>>

Chained(h, m) == IF h = <<>> THEN <<m>> ELSE IF m \in ToSet(h) THEN h ELSE Append(h, m)

Begin(i) ==
  LET r == runs[i]
      next == Chained(hist, r.handed)
      pin == IF pinned[r.at] = <<>> THEN <<r.handed>> ELSE pinned[r.at]
  IN  /\ Running(r) /\ r.step = "asked"
      /\ IF decl.orch.pass THEN hist' = next /\ UNCHANGED pinned
         ELSE pinned' = [pinned EXCEPT ![r.at] = pin] /\ UNCHANGED hist
      /\ heard' = heard \cup {[run |-> i, at |-> r.at, input |-> IF decl.orch.pass THEN next ELSE pin,
                               handed |-> r.handed, said |-> r.said,
                               alone |-> r.alone, kept |-> r.kept]}
      /\ runs' = [runs EXCEPT ![i].step = "running"]
      /\ UNCHANGED <<decl, built, report>>

(* The spawned task adds what was said before its consumer sees the end; a   *)
(* run that fails adds nothing, one that says nothing ends the sequence.     *)
Done(i, text) ==
  LET r == runs[i]
      more == text # "none" /\ text # "error" /\ r.at < Len(built.team)
      m == <<"assistant", text, i, r.at>>
  IN  /\ Running(r) /\ r.step = "running"
      /\ hist' = IF decl.orch.pass /\ text = "text" THEN Append(hist, m) ELSE hist
      /\ runs' = [runs EXCEPT ![i] = [r EXCEPT
                    !.at = IF more THEN @ + 1 ELSE 0, !.step = "asked", !.handed = m,
                    !.said = Append(@, m)]]
      /\ UNCHANGED <<decl, built, report, pinned, heard>>

(* reset of the orchestration resets the wrappers, also under a run.         *)
Reset ==
  /\ hist # <<>> \/ \E k \in DOMAIN pinned : pinned[k] # <<>>
  /\ hist' = <<>> /\ pinned' = [k \in DOMAIN pinned |-> <<>>]
  /\ runs' = [i \in DOMAIN runs |-> [runs[i] EXCEPT !.kept = FALSE]]
  /\ heard' = {}
  /\ UNCHANGED <<decl, built, report>>

----------------------------------------------------------------------------
(* The declarations.                                                         *)
Orch(form, mode) ==
  [form |-> form, mode |-> mode, max |-> -1, legacy |-> -1, lead |-> Nobody, phases |-> <<>>,
   from |-> 0, pass |-> TRUE]
Plain(n) == Sub(n, "prompt", {}, {})
Given(root, subs, orch, key) ==
  [root |-> root, subs |-> subs, orch |-> orch, key |-> key, env |-> TRUE, registry |-> <<>>,
   factories |-> {"mine"}, added |-> {}]

Conns == {Key("own", "none"), Key("$VAR", "u"), Key("none", "u"), Conn("remote", "none", "u", Nobody),
          Conn("oauth", "none", "none", Nobody), Conn("anonymous", "none", "none", Nobody),
          Reference("missing")}
Registries == [{"x", "y", "z"} -> {Key("own", "u"), Key("$VAR", "none"), Reference("y"), Reference("z")}]
Connecting ==
  {[Given([Plain(Root) EXCEPT !.provider = p, !.conn = c], <<>>, Orch("absent", "none"), k)
      EXCEPT !.env = e, !.registry = r] :
     p \in {"openai", "custom"}, k \in {"none", "given"}, e \in BOOLEAN,
     c \in {Reference("x")}, r \in Registries}
  \cup {[Given([Plain(Root) EXCEPT !.provider = p, !.conn = c], <<>>, Orch("absent", "none"), k)
          EXCEPT !.env = e] :
         p \in {"openai", "custom"}, k \in {"none", "given"}, e \in BOOLEAN, c \in Conns}

ToolSets == {{}, {<<"web", Unnamed>>, <<"code", Unnamed>>}, {<<"function", "mine">>, <<"web", "mine">>},
             {<<"function", "web_search">>}, {<<"code", "other">>}}
Equipped ==
  {[Given([Plain(Root) EXCEPT !.tools = t, !.contexts = {Context("workspace", "w", "root"),
                                                         Context("memory", "m", "root")}],
          <<Sub("a", "prompt", u, cs), Plain("b")>>, Orch("short", m), "none")
      EXCEPT !.factories = f, !.added = x] :
     t \in ToolSets, u \in ToolSets, m \in {"vote", "magentic"},
     f \in {{"mine"}, {"mine", "code_interpreter"}},
     cs \in {{}, {Context("workspace", "w", "a"), Context("memory", "n", "a")}},
     x \in {{}, {Context("history", "h", "caller")}}}

Teams == {<<Plain("a")>>, <<Plain("a"), Plain("b")>>, <<Plain("a"), Plain("b"), Plain("c")>>,
          <<Plain("a"), [Plain("a") EXCEPT !.conn = Key("$VAR", "u")]>>,
          <<Plain("a"), Sub("b", "workflow", {}, {})>>, <<Sub("a", "nested", {}, {}), Plain("b")>>}
Led == {[Orch("object", m) EXCEPT !.lead = l] : m \in {"handoff", "groupChat"}, l \in {Nobody, "a", "z"}}
Looping ==
  {[Orch("object", "magentic") EXCEPT !.max = m, !.legacy = l] : m \in {-1, 0, 1, 2}, l \in {-1, 1}}
    \cup {[Orch(f, "magentic") EXCEPT !.legacy = l] : f \in {"short", "absent", "bad"}, l \in {-1, 1}}
Phase(how, agents) == [how |-> how, agents |-> agents]
Phases == {Phase("seq", <<"a">>), Phase("par", <<"a", "b">>), Phase("seq", <<"a", "b", "a">>),
           Phase("seq", <<"b", "a">>), Phase("par", <<"z">>)}
Piped ==
  {[Orch("object", "pipeline") EXCEPT !.phases = p, !.from = f, !.max = m] :
     p \in SeqOf(Phases, 2), f \in 0..2, m \in {-1, 0, 1}}
Sequences == {[Orch("object", "sequential") EXCEPT !.pass = p] : p \in BOOLEAN}
Teamed ==
  {Given(Plain(Root), t, o, k) :
     t \in Teams, k \in {"none", "given"},
     o \in Led \cup Looping
             \cup {Orch("short", m) : m \in {"concurrent", "vote", "handoff", "workflow"}}}
  \cup {Given(Plain(Root), <<Plain("a"), Plain("b")>>, o, "none") : o \in Piped \cup Sequences}

Init ==
  /\ decl \in Connecting \cup Equipped \cup Teamed
  /\ built = Unbuilt /\ report = {}
  /\ hist = <<>> /\ pinned = [k \in 1..3 |-> <<>>]
  /\ runs = <<>> /\ heard = {}

Next ==
  \/ Build \/ Reset
  \/ \E q \in Questions : Ask(q)
  \/ \E i \in DOMAIN runs : Begin(i)
  \/ \E i \in DOMAIN runs, text \in {"text", "none", "error"} : Done(i, text)

Spec == Init /\ [][Next]_vars

----------------------------------------------------------------------------
IsReady == built.status = "ready"
Team == decl.subs # <<>>
(* Every declared sub-agent can be found, and takes part once or leads; in a *)
(* pipeline those its phases name take part.                                 *)
EveryoneTakesPart ==
  IsReady /\ Team =>
    /\ Named(decl.subs) \subseteq {a.name : a \in built.agents}
    /\ ToSet(built.team) \cup {built.lead} = Named(decl.subs) \cup {built.lead}
    /\ IsInjective(built.team) /\ built.lead \notin ToSet(built.team)
    /\ Root \in {a.name : a \in built.agents} <=> built.lead = Root
    /\ ModeOf(decl.orch) = "handoff" => built.team # <<>>

(* Everything in the graph is reached from its one start without the way     *)
(* back, of which there is one at most; from the end of the last phase.      *)
GraphConnected ==
  LET p == built.plan
      reached == {<<Root>>} \cup After(p.edges, <<Root>>)
  IN  IsReady /\ p # NoPlan =>
        /\ p.nodes = reached /\ ~Cyclic(p)
        /\ \A e \in p.back : {n \in p.nodes : After(p.edges, n) = {}} = {e[1]}
        /\ \A e \in p.back : e[2] = <<Root>> \/ e[2][1] = decl.orch.from + 1
        /\ p.back # {} => \E e \in p.back : e[1] \in {e[2]} \cup After(p.edges, e[2])
        /\ Cardinality(p.back) <= 1

(* What the caller gives and what the parent declares reaches every agent;   *)
(* what an agent declares itself stays, and nothing is declared twice.       *)
SettingsReachAll ==
  IsReady =>
    \A a \in built.agents :
      /\ decl.key # "none" => a.key = decl.key
      /\ \A c \in a.contexts, e \in a.contexts : c.kind = e.kind /\ c.name = e.name => c = e
      /\ \A c \in decl.root.contexts : \E e \in a.contexts : e.kind = c.kind /\ e.name = c.name
      /\ \A s \in ToSet(decl.subs) : s.name = a.name /\ Cardinality(Named(decl.subs)) = Len(decl.subs) =>
           s.contexts \subseteq a.contexts
      /\ Cardinality({c \in a.contexts : c.kind = "history"}) = 1
      /\ \A t \in a.tools : t[2] # "unknown"

(* A reference means the connection at the end of its chain.                 *)
EndOfChain(c, registry) ==
  LET at[i \in 0..MaxDepth] ==
        IF i = 0 THEN c
        ELSE LET b == at[i - 1] IN
             IF b.kind = "reference" /\ b.name \in DOMAIN registry THEN registry[b.name] ELSE b
  IN  at[MaxDepth]
ConnectedAsReferred ==
  built.status # "no" /\ ~Team /\ decl.key = "none" =>
    LET end == EndOfChain(decl.root.conn, decl.registry)
        key == CASE end.kind \in {"remote", "oauth"} -> "$VAR"
                 [] end.kind = "key" -> end.key
                 [] OTHER -> ""
        missing == end.kind = "reference" \/ key = "none" \/ (key = "$VAR" /\ ~decl.env)
                     \/ (decl.root.provider = "custom" /\ (end.url = "none"))
    IN  /\ IsReady <=> ~missing
        /\ IsReady => \A a \in built.agents : a.key = key

(* What validate reports of an agent that takes part keeps it from being     *)
(* built.                                                                    *)
ReportedFails ==
  built.status # "no" /\ (\E n \in report : n # Root \/ ~Team \/ UsesRoot(decl.orch)) =>
    built.status = "failed"

(* A chained agent hears the question and all that was said in its run, in   *)
(* order and once, and, while its run is alone, last what it is to answer.   *)
ChainHeard ==
  decl.orch.pass => \A h \in heard :
    /\ IsInjective(h.input)
    /\ h.kept => /\ User(runs[h.run].question) \in ToSet(h.input)
                 /\ SelectSeq(h.input, LAMBDA m : m \in ToSet(h.said)) = h.said
    /\ h.kept /\ h.alone /\ (\A j \in 1..h.run - 1 : runs[j].question # runs[h.run].question) =>
         Last(h.input) = h.handed
KeptForLater ==
  decl.orch.pass => \A i \in DOMAIN runs : runs[i].kept =>
    \A m \in ToSet(runs[i].said) : m[2] = "text" => m \in ToSet(hist)

DeclaredAsBuilt ==
  /\ EveryoneTakesPart /\ GraphConnected /\ SettingsReachAll /\ ConnectedAsReferred
  /\ ReportedFails /\ ChainHeard /\ KeptForLater
============================================================================
