---------------------------- MODULE WikiSearch -----------------------------
(* Searching a wiki: full text with filters, lists in pages, all wikis at    *)
(* once, the vector index and the tasks that fill it, the fusion of text,    *)
(* vectors and links into one ranking, and the order of an export.           *)
EXTENDS Naturals, SequencesExt, FiniteSets, FiniteSetsExt
CONSTANTS
  Pages,      \* the indexed pages: slug to [wiki, type, status, weight, links]
  Order,      \* the slugs in alphabetical order
  Queries,    \* text scores and similarities: [text, near], each slug to a number
  TopK,
  Builders,   \* tasks of build_vector_index
  MaxJobs
VARIABLES
  store,    \* the vector store: chunks [slug, id]
  owned,    \* slug_chunks: slug to the ids of its chunks
  jobs,     \* builder to the page it embeds: [slug, id]
  answer,   \* what the query returned that ends the behaviour: [kind, results, ...]
  crossed,  \* pages that two tasks indexed at once
  count     \* pages that were begun
vars == <<store, owned, jobs, answer, crossed, count>>

Slugs == DOMAIN Pages
Nothing == [kind |-> "none"]
Init ==
  /\ store = {} /\ owned = <<>> /\ jobs = <<>> /\ answer = Nothing
  /\ crossed = {} /\ count = 0

----------------------------------------------------------------------------
(* index_page removes the page, embeds its chunks without a lock and adds    *)
(* what came back; a failed embedding leaves the page removed.               *)
Restricted(f, s) == [x \in DOMAIN f \ {s} |-> f[x]]
Ids(s) == IF s \in DOMAIN owned THEN owned[s] ELSE {}
Begin(b, s) ==
  /\ count < MaxJobs /\ count' = count + 1
  /\ b \notin DOMAIN jobs
  /\ jobs' = b :> [slug |-> s, id |-> count] @@ jobs
  /\ store' = {c \in store : c.id \notin Ids(s)}
  /\ owned' = Restricted(owned, s)
  /\ crossed' = IF \E o \in DOMAIN jobs : jobs[o].slug = s THEN crossed \cup {s} ELSE crossed
  /\ UNCHANGED answer
(* A page without a body has no chunks. *)
Add(b) ==
  /\ b \in DOMAIN jobs /\ jobs' = Restricted(jobs, b)
  /\ \E ids \in {{}, {2 * jobs[b].id, 2 * jobs[b].id + 1}} :
       /\ store' = store \cup {[slug |-> jobs[b].slug, id |-> i] : i \in ids}
       /\ owned' = jobs[b].slug :> ids @@ owned
  /\ UNCHANGED <<answer, crossed, count>>
EmbedFails(b) ==
  /\ b \in DOMAIN jobs /\ jobs' = Restricted(jobs, b)
  /\ UNCHANGED <<answer, store, owned, crossed, count>>

----------------------------------------------------------------------------
(* The ways to take the k best of a set; equal scores come in any order.     *)
Best(S, score, k) ==
  LET n == IF Cardinality(S) < k THEN Cardinality(S) ELSE k IN
  {r \in [1..n -> S] :
     /\ \A i, j \in 1..n : i < j => r[i] # r[j] /\ score[r[i]] >= score[r[j]]
     /\ \A s \in S \ {r[i] : i \in 1..n} : \A i \in 1..n : score[s] <= score[r[i]]}

(* search: text matches, without sections unless asked for, of one type.     *)
Matches(q, w, sections, type) ==
  {s \in Slugs : /\ q.text[s] > 0 /\ Pages[s].wiki = w
                 /\ ~sections => Pages[s].type # "section"
                 /\ type # "any" => Pages[s].type = type}
(* The score is multiplied by the weights of the status and the confidence.  *)
Score(q) == [s \in Slugs |-> q.text[s] * Pages[s].weight]
Text(q, w, sections, type, k) == Best(Matches(q, w, sections, type), Score(q), k)
(* The type facet counts without the type filter. *)
TypeFacet(q, w, sections) ==
  [t \in {Pages[s].type : s \in Matches(q, w, sections, "any")} |->
     Cardinality({s \in Matches(q, w, sections, "any") : Pages[s].type = t})]

Wikis == {Pages[s].wiki : s \in Slugs}
Types == {Pages[s].type : s \in Slugs}
Search(q, w, sections, type) ==
  /\ \E r \in Text(q, w, sections, type, TopK) :
       answer' = [kind |-> "text", query |-> q, wiki |-> w, sections |-> sections, type |-> type,
                  results |-> r, types |-> TypeFacet(q, w, sections)]
  /\ UNCHANGED <<store, owned, jobs, crossed, count>>

(* search_all: TopK of each wiki, sorted by their scores, TopK of these.     *)
SearchAll(q) ==
  /\ \E each \in [Wikis -> UNION {Text(q, w, FALSE, "any", TopK) : w \in Wikis}] :
       /\ \A w \in Wikis : each[w] \in Text(q, w, FALSE, "any", TopK)
       /\ \E r \in Best(UNION {Range(each[w]) : w \in Wikis}, Score(q), TopK) :
            answer' = [kind |-> "all", query |-> q, results |-> r]
  /\ UNCHANGED <<store, owned, jobs, crossed, count>>

(* list: one page of the filtered pages in alphabetical order.               *)
Filtered(w, type) == SelectSeq(Order, LAMBDA s : Pages[s].wiki = w /\ (type = "any" \/ Pages[s].type = type))
Window(w, type, page, size) ==
  LET all == Filtered(w, type)
      offset == (page - 1) * size
      limit == IF Len(all) < offset + size THEN Len(all) ELSE offset + size
  IN IF offset < limit THEN SubSeq(all, offset + 1, limit) ELSE <<>>
List(w, type, size) ==
  /\ answer' = [kind |-> "list", wiki |-> w, type |-> type, size |-> size,
                pages |-> [p \in 1..(Len(Filtered(w, type)) + 1) |-> Window(w, type, p, size)]]
  /\ UNCHANGED <<store, owned, jobs, crossed, count>>

----------------------------------------------------------------------------
(* VectorIndex::search: the 2k nearest chunks, one hit per page, k of them.  *)
Near(q, k) == Best({c.slug : c \in store}, q.near, k)
(* hybrid_search numbers the neighbours of the text results in their order.  *)
Neighbours(r) ==
  FoldLeft(LAMBDA acc, s : acc \o SelectSeq(Pages[s].links, LAMBDA t : ~Contains(acc, t)), <<>>, r)
RankIn(s, r) == IF Contains(r, s) THEN CHOOSE i \in 1..Len(r) : r[i] = s ELSE 0
(* 1 / (60 + rank), exactly, for ranks up to 4 and half weights. *)
Reciprocal(rank) == IF rank = 0 THEN 0 ELSE (61 * 62 * 63 * 64) \div (60 + rank)
Fused(text, near, linked) ==
  [s \in Slugs |-> 2 * Reciprocal(RankIn(s, text)) + 2 * Reciprocal(RankIn(s, near))
                   + Reciprocal(RankIn(s, linked))]
(* Pages that only a link found take a place and are left out.               *)
Hybrid(q, w, type, vectors, links) ==
  /\ \E text \in Text(q, w, FALSE, type, 2 * TopK) :
     \E near \in IF vectors /\ store # {} THEN Near(q, 2 * TopK) ELSE {<<>>} :
       LET seeds == SubSeq(text, 1, IF Len(text) < TopK THEN Len(text) ELSE TopK)
           linked == IF links THEN Neighbours(seeds) ELSE <<>>
       IN \E r \in Best(Range(text \o near \o linked), Fused(text, near, linked), TopK) :
            answer' = [kind |-> "hybrid", query |-> q, wiki |-> w, type |-> type,
                       text |-> text, near |-> near, linked |-> linked,
                       results |-> SelectSeq(r, LAMBDA s : Contains(text \o near, s))]
  /\ UNCHANGED <<store, owned, jobs, crossed, count>>

(* export: the larger types first, a type together, the surest page first.   *)
Listed(w, archived) == {s \in Slugs : Pages[s].wiki = w /\ (archived \/ Pages[s].status # "archived")}
TypeIndex(s) == CHOOSE i \in 1..Len(Order) : /\ Pages[Order[i]].type = Pages[s].type
                                             /\ \A j \in 1..(i - 1) : Pages[Order[j]].type # Pages[s].type
Before(a, b, S) ==
  LET size(s) == Cardinality({t \in S : Pages[t].type = Pages[s].type}) IN
  \/ size(a) > size(b)
  \/ size(a) = size(b) /\ TypeIndex(a) < TypeIndex(b)
  \/ size(a) = size(b) /\ TypeIndex(a) = TypeIndex(b) /\ Pages[a].weight >= Pages[b].weight
Export(w, archived) ==
  LET S == Listed(w, archived) IN
  /\ \E r \in [1..Cardinality(S) -> S] :
       /\ \A i, j \in DOMAIN r : i < j => r[i] # r[j] /\ Before(r[i], r[j], S)
       /\ answer' = [kind |-> "export", wiki |-> w, archived |-> archived, results |-> r]
  /\ UNCHANGED <<store, owned, jobs, crossed, count>>

Next ==
  /\ answer = Nothing
  /\ \/ \E b \in Builders, s \in Slugs : Begin(b, s)
     \/ \E b \in Builders : Add(b) \/ EmbedFails(b)
     \/ \E q \in Queries, w \in Wikis, sections \in BOOLEAN, t \in Types \cup {"any"} : Search(q, w, sections, t)
     \/ \E q \in Queries : SearchAll(q)
     \/ \E w \in Wikis, t \in Types \cup {"any"}, n \in 1..2 : List(w, t, n)
     \/ \E q \in Queries, w \in Wikis, t \in Types \cup {"any"}, v, l \in BOOLEAN : Hybrid(q, w, t, v, l)
     \/ \E w \in Wikis, a \in BOOLEAN : Export(w, a)
Spec == Init /\ [][Next]_vars

----------------------------------------------------------------------------
(* Whatever tasks overlap, what slug_chunks says of a page is in the store;  *)
(* and every chunk that a search can find is one the next indexing of its    *)
(* page takes out again, but for a page that two tasks indexed at once.      *)
NoLostChunks ==
  /\ \A s \in DOMAIN owned : \A i \in owned[s] : [slug |-> s, id |-> i] \in store
  /\ \A c \in store : c.slug \notin crossed => c.id \in Ids(c.slug)

(* No page left out scores higher than one returned, though every wiki was   *)
(* cut to TopK first, and the counts by type cover the results.              *)
TopOfAll ==
  answer.kind = "all" =>
    LET found == UNION {Matches(answer.query, w, FALSE, "any") : w \in Wikis} IN
    /\ Len(answer.results) = Min({TopK, Cardinality(found)})
    /\ \A s \in found \ Range(answer.results) : \A i \in DOMAIN answer.results :
         Score(answer.query)[s] <= Score(answer.query)[answer.results[i]]
Covered ==
  answer.kind = "text" =>
    \A t \in Types : LET n == Cardinality({i \in DOMAIN answer.results : Pages[answer.results[i]].type = t})
                     IN n > 0 => t \in DOMAIN answer.types /\ n <= answer.types[t]

(* The pages of a list are the whole list, cut without loss or repetition.   *)
PagesExact == answer.kind = "list" => FlattenSeq(answer.pages) = Filtered(answer.wiki, answer.type)

(* A page that every retriever ranks at least as high as another one, and    *)
(* one of them higher, does not come after it; nothing comes from elsewhere, *)
(* and without vectors nothing escapes the filter.                           *)
Higher(a, b, r) == RankIn(a, r) # 0 /\ (RankIn(b, r) = 0 \/ RankIn(a, r) < RankIn(b, r))
FusionFair ==
  answer.kind = "hybrid" =>
    LET ways == {answer.text, answer.near, answer.linked} IN
    /\ \A i, j \in DOMAIN answer.results : i < j =>
         ~(/\ \A r \in ways : Higher(answer.results[j], answer.results[i], r) \/ RankIn(answer.results[i], r) = 0
           /\ \E r \in ways : Higher(answer.results[j], answer.results[i], r))
    /\ \A i \in DOMAIN answer.results :
         answer.results[i] \in Matches(answer.query, answer.wiki, FALSE, answer.type) \cup {c.slug : c \in store}

(* An export has each type in one piece, with its surest page first, and     *)
(* every page once.                                                          *)
ExportGrouped ==
  answer.kind = "export" =>
    LET r == answer.results IN
    /\ Range(r) = Listed(answer.wiki, answer.archived) /\ Len(r) = Cardinality(Range(r))
    /\ \A i, j, k \in DOMAIN r : i < j /\ j < k /\ Pages[r[i]].type = Pages[r[k]].type
                                   => Pages[r[j]].type = Pages[r[i]].type
    /\ \A i, j \in DOMAIN r : i < j /\ Pages[r[i]].type = Pages[r[j]].type
                                   => Pages[r[i]].weight >= Pages[r[j]].weight

SearchKept == NoLostChunks /\ TopOfAll /\ Covered /\ PagesExact /\ FusionFair /\ ExportGrouped
=============================================================================
