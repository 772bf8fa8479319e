----------------------------- MODULE WikiGraph -----------------------------
(* The graphs of the wikis: built from the indexed pages, merged across      *)
(* wikis, cut out around a root by a breadth-first search, and clustered by  *)
(* the first phase of Louvain.  A link is local (<<"local", slug>>) or names *)
(* a wiki (<<wiki, slug>>, written wiki://wiki/slug).                        *)
EXTENDS Integers, SequencesExt, FiniteSets
CONSTANTS
  Wikis,     \* the mounted wikis
  Wiki,      \* the one that is asked about
  Order,     \* the slugs, in the order in which they are indexed
  Pages,     \* the pages: pairs of a wiki and a slug
  TypeOf,    \* the type of every slug
  Possible,  \* the links a wiki may have: page, target and relation
  MaxDepth   \* the depth of a search
VARIABLES
  links,  \* triples: page, target, relation
  job,    \* what is asked: [kind, wiki, root, depth]
  graph,  \* the graph of the wiki that is asked about
  seen, queue,               \* of the search
  comm, pos, pass, anyMove   \* of the clustering
vars == <<links, job, graph, seen, queue, comm, pos, pass, anyMove>>

Slugs == ToSet(Order)
Relations == {"links-to", "cites"}
NoFilter == [types |-> {}, relation |-> "any"]
Filters == {[types |-> t, relation |-> r] :
              t \in SUBSET {TypeOf[s] : s \in Slugs}, r \in Relations \cup {"any"}}
Typed(s, f) == f.types = {} \/ TypeOf[s] \in f.types
Related(r, f) == f.relation \in {"any", r}

(* build_graph without a root: a link to a page of another wiki gets an       *)
(* external node; a link to a local page that is not there gets nothing.      *)
Local(w, f) == {<<"local", p[2]>> : p \in {p \in Pages : p[1] = w /\ Typed(p[2], f)}}
External(n) == n[1] # "local"
Build(w, f) ==
  LET from == {l \in links : l[1][1] = w /\ Typed(l[1][2], f) /\ Related(l[3], f)
                 /\ (External(l[2]) \/ l[2] \in Local(w, f))}
  IN [nodes |-> Local(w, f) \cup {l[2] : l \in {l \in from : External(l[2])}},
      edges |-> {<<<<"local", l[1][2]>>, l[2], l[3]>> :
                   l \in {l \in from : l[2] # <<"local", l[1][2]>>}}]

(* merge_cached_graphs: nodes are named by wiki and slug, and an external one  *)
(* becomes the page it names when that page is there.                         *)
Key(w, n) == IF External(n) THEN n ELSE <<w, n[2]>>
Merge(gs, f) ==
  LET pages == UNION {{Key(w, n) : n \in {n \in gs[w].nodes : ~External(n) /\ Typed(n[2], f)}}
                        : w \in Wikis}
      ends == UNION {{<<Key(w, e[1]), Key(w, e[2]), e[3]>> :
                        e \in {e \in gs[w].edges : ~External(e[1]) /\ Related(e[3], f)}}
                        : w \in Wikis}
      kept == {e \in ends : e[1] \in pages}
  IN [pages |-> pages, external |-> {e[2] : e \in kept} \ pages,
      edges |-> {e \in kept : e[1] # e[2]}]
CrossWiki(f) == Merge([w \in Wikis |-> Build(w, f)], f)

Neighbours(g, n) == {e[2] : e \in {e \in g.edges : e[1] = n}}
                      \cup {e[1] : e \in {e \in g.edges : e[2] = n}}
(* The search for a slug finds local nodes first: they are added first. *)
Roots(g, s) == IF <<"local", s>> \in g.nodes THEN {<<"local", s>>}
               ELSE {n \in g.nodes : n[2] = s}

(* The undirected graph of local pages that is clustered. *)
Clustered == SelectSeq(Order, LAMBDA s : <<"local", s>> \in graph.nodes)
Adj(s) == {n[2] : n \in {n \in Neighbours(graph, <<"local", s>>) : ~External(n)}}
Degree(s) == Cardinality(Adj(s))
M == Cardinality({e \in {{s, t} : s, t \in ToSet(Clustered)} :
                    \E s, t \in e : s # t /\ t \in Adj(s)})
MaxPasses == 10 * (IF Len(Clustered) > 10 THEN Len(Clustered) ELSE 10)
Total(c, s) ==
  FoldSet(LAMBDA t, n : n + Degree(t), 0, {t \in DOMAIN comm \ {s} : comm[t] = c})
Shared(s, c) == Cardinality({t \in Adj(s) : comm[t] = c})
(* The gain of a move times 2 * m * m, with the node taken out of its own.    *)
(* Staying counts as zero, so a gain is not an improvement.                   *)
Gain(s, c) == 2 * M * Shared(s, c) - Total(c, s) * Degree(s)
Offers(s) == {c \in {comm[t] : t \in Adj(s)} \ {comm[s]} : Gain(s, c) > 0}
BestOffers(s) == {c \in Offers(s) : \A d \in Offers(s) : Gain(s, d) <= Gain(s, c)}

Init ==
  /\ links \in SUBSET Possible
  /\ \/ /\ job \in [kind : {"merge"}, wiki : {Wiki}, root : {Order[1]}, depth : {0}]
        /\ graph = Build(job.wiki, NoFilter)
        /\ seen = {} /\ queue = <<>> /\ comm = <<>>
     \/ /\ job \in [kind : {"search"}, wiki : {Wiki}, root : Slugs, depth : 0..MaxDepth]
        /\ graph = Build(job.wiki, NoFilter) /\ comm = <<>>
        /\ \E n \in Roots(graph, job.root) : seen = {n} /\ queue = <<<<n, 0>>>>
     \/ /\ job \in [kind : {"cluster"}, wiki : {Wiki}, root : {Order[1]}, depth : {0}]
        /\ graph = Build(job.wiki, NoFilter) /\ seen = {} /\ queue = <<>>
        /\ comm = [s \in ToSet(Clustered) |-> CHOOSE i \in 1..Len(Clustered) : Clustered[i] = s]
  /\ pos = 1 /\ pass = 1 /\ anyMove = FALSE

(* subgraph: one node of the queue; its neighbours come in any order. *)
Visit ==
  /\ job.kind = "search" /\ queue # <<>>
  /\ LET n == Head(queue)[1]
         d == Head(queue)[2]
         new == Neighbours(graph, n) \ seen
     IN IF d >= job.depth THEN queue' = Tail(queue) /\ UNCHANGED seen
        ELSE /\ seen' = seen \cup new
             /\ \E order \in SetToSeqs(new) :
                  queue' = Tail(queue) \o [i \in 1..Len(order) |-> <<order[i], d + 1>>]
  /\ UNCHANGED <<links, job, graph, comm, pos, pass, anyMove>>

(* louvain_phase1: one node of a pass. *)
Clustering == job.kind = "cluster" /\ M > 0 /\ pass <= MaxPasses
Consider ==
  /\ Clustering /\ pos <= Len(Clustered)
  /\ LET s == Clustered[pos] IN
     \/ /\ Offers(s) # {} /\ anyMove' = TRUE
        /\ \E c \in BestOffers(s) : comm' = [comm EXCEPT ![s] = c]
     \/ Offers(s) = {} /\ UNCHANGED <<comm, anyMove>>
  /\ pos' = pos + 1 /\ UNCHANGED <<links, job, graph, seen, queue, pass>>
NextPass ==
  /\ Clustering /\ pos > Len(Clustered) /\ anyMove
  /\ pos' = 1 /\ pass' = pass + 1 /\ anyMove' = FALSE
  /\ UNCHANGED <<links, job, graph, seen, queue, comm>>

Next == Visit \/ Consider \/ NextPass
Spec == Init /\ [][Next]_vars

(* suggest: neighbours of neighbours, and peers of the same cluster, that are  *)
(* not linked yet.  A slug is looked up in a map that keeps the last node of   *)
(* that slug, and the external ones come last.                                *)
Linked(s) == {l[2] : l \in {l \in links : l[1] = <<job.wiki, s>>}}
Found(s) == LET outer == {n \in graph.nodes : External(n) /\ n[2] = s}
            IN IF outer = {} THEN Roots(graph, s) ELSE outer
Suggested(s) ==
  LET near == UNION {Neighbours(graph, n) : n \in Found(s)}
      far == UNION {Neighbours(graph, n) : n \in near} \ (Found(s) \cup near)
  IN {n \in far : <<"local", n[2]>> \notin Linked(s)}
       \cup {<<"local", t>> : t \in {t \in DOMAIN comm \ {s} :
               comm[t] = comm[s] /\ <<"local", t>> \notin Linked(s)}}

(* Across wikis, a link is an edge exactly if both its ends pass the filter   *)
(* and its page is there, and only what no mounted wiki has stays external;   *)
(* filtering first or last is the same for relations (build_graph,            *)
(* merge_cached_graphs).                                                      *)
LinksResolved ==
  job.kind = "merge" => \A f \in Filters :
    LET g == CrossWiki(f)
        target(l) == Key(l[1][1], l[2])
        live == {l \in links : Typed(l[1][2], f) /\ Related(l[3], f)
                   /\ (External(l[2]) \/ (target(l) \in Pages /\ Typed(l[2][2], f)))}
    IN /\ g.pages = {p \in Pages : Typed(p[2], f)}
       /\ g.edges = {<<l[1], target(l), l[3]>> : l \in {l \in live : target(l) # l[1]}}
       /\ f.types = {} => /\ g.external \cap Pages = {}
                          /\ g = Merge([w \in Wikis |-> Build(w, NoFilter)], f)

(* A search ends with the nodes within its depth, in whatever order the       *)
(* neighbours came, and before that has none beyond it (subgraph).            *)
Ball[d \in 0..MaxDepth] ==
  LET inner == Ball[d - 1] IN
  IF d = 0 THEN Roots(graph, job.root)
  ELSE inner \cup UNION {Neighbours(graph, n) : n \in inner}
SearchExact ==
  job.kind = "search" /\ Cardinality(Roots(graph, job.root)) = 1 =>
    seen \subseteq Ball[job.depth] /\ (queue = <<>> => seen = Ball[job.depth])

(* A cluster never joins pages that no path of links joins; when a pass moves  *)
(* nothing, no page has an offer left (louvain_phase1).                       *)
Connected(s) ==
  LET n == Len(Clustered)
      reach[k \in 0..n] == IF k = 0 THEN {s}
                           ELSE reach[k - 1] \cup UNION {Adj(t) : t \in reach[k - 1]}
  IN reach[n]
Settled == job.kind = "cluster" /\ pos > Len(Clustered) /\ ~anyMove
ClustersHold ==
  job.kind = "cluster" =>
    /\ \A s, t \in DOMAIN comm : comm[s] = comm[t] => t \in Connected(s)
    /\ Settled => \A s \in DOMAIN comm : Offers(s) = {}

(* In a wiki without links to other wikis, a suggestion is a page of the wiki  *)
(* that is neither the page itself nor linked by it (suggest).                *)
SuggestsOthers ==
  job.kind = "cluster" /\ (\A l \in links : l[1][1] = job.wiki => ~External(l[2])) =>
    \A s \in DOMAIN comm : \A n \in Suggested(s) :
      n \in graph.nodes \ Linked(s) /\ n # <<"local", s>>
GraphsHold == LinksResolved /\ SearchExact /\ ClustersHold /\ SuggestsOthers
=============================================================================
