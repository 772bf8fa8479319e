--------------------------- MODULE MCWorkflowEngine ---------------------------
(* Graphs and node behaviours for the runs of WorkflowEngine.              *)
EXTENDS WorkflowEngine

Direct(s, t) == [kind |-> "direct", from |-> {s}, to |-> {t}, guarded |-> FALSE]
Guarded(s, t) == [kind |-> "direct", from |-> {s}, to |-> {t}, guarded |-> TRUE]
FanOut(s, T) == [kind |-> "fanout", from |-> {s}, to |-> T, guarded |-> FALSE]
FanIn(S, t) == [kind |-> "fanin", from |-> S, to |-> {t}, guarded |-> FALSE]

Const(v) == [n \in Node |-> v]

\* a feeds b and c at once; both feed d.
DiamondNodes == {"a", "b", "c", "d"}
DiamondEdges == {FanOut("a", {"b", "c"}), Direct("b", "d"), FanIn({"b", "c"}, "d")}
DiamondRetries == [Const(0) EXCEPT !["b"] = 1]
DiamondExhausted == [Const("fail") EXCEPT !["b"] = "skip", !["c"] = "d"]

\* The same shape with a barrier: ConcurrentWorkflowBuilder's graph.
BarrierEdges == {FanOut("a", {"b", "c"}), FanIn({"b", "c"}, "d")}

\* a and b form a loop, closed by a loopback edge; a is the loop entry.
LoopNodes == {"a", "b", "c"}
LoopEdges == {Direct("a", "b"), Direct("b", "a"), Guarded("b", "c")}
LoopLimit == [Const(0) EXCEPT !["a"] = 2]

\* A pipeline a, h, c in which h waits for a human.
HitlNodes == {"a", "h", "c"}
HitlEdges == {Direct("a", "h"), Direct("h", "c"), Direct("a", "c")}

\* A pipeline.
LineNodes == {"a", "b", "c"}
LineEdges == {Direct("a", "b"), Direct("b", "c")}

\* b falls back to c, which no edge leads to: with_retry(FallbackNode("c")).
FallbackEdges == {Direct("a", "b"), Direct("c", "a")}
FallbackExhausted == [Const("fail") EXCEPT !["b"] = "c"]

NoRetries == Const(0)
AlwaysFail == Const("fail")
NoLimit == Const(0)
OneMessage == Const(1)
TwoFromA == [Const(1) EXCEPT !["a"] = 2]
=============================================================================
