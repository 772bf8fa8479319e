------------------------------ MODULE WikiLint ------------------------------
(* The lint rules of a wiki (ops/lint.rs, forgetting.rs): each walks over the *)
(* index, whose pages come in no order; the report is filtered by severity    *)
(* and sorted by slug and rule.                                               *)
EXTENDS Naturals, SequencesExt, FiniteSets
CONSTANTS
  Slugs,       \* slugs in their order
  Contents,    \* [type, links, has, age, conf, kept]: what a page may be
  LinkFields,  \* link fields in the order they are looked at
  IndexFields, \* fields the index has
  Required,    \* type to its required fields; "" is no type
  Mounted,     \* the wikis
  StaleDays, Confident, Archive, Forget  \* thresholds
VARIABLES pages, rules, severity, report, linted
vars == <<pages, rules, severity, report, linted>>

AllRules == {"orphan", "broken-link", "broken-cross-wiki-link", "missing-fields", "stale", "unknown-type"}
Init ==
  /\ pages \in UNION {[ss -> Contents] : ss \in SUBSET ToSet(Slugs)}
  /\ \/ rules = AllRules /\ severity \in {"any", "error", "warning"}
     \/ rules \in {{r} : r \in AllRules} \cup {{"orphan", "broken-link"}} /\ severity = "any"
  /\ report = <<>> /\ linted = FALSE

Finding(slug, rule, sev, about) == [slug |-> slug, rule |-> rule, severity |-> sev, about |-> about]
(* links of a page: [field, wiki, to], wiki = "" unless it is a wiki:// link. *)
In(field) == [field |-> field, wiki |-> "", to |-> ""]
Indexed(p) == SelectSeq(p.links, LAMBDA l : l.field \in IndexFields)
InOrder(p) == FoldLeft(LAMBDA acc, f : acc \o SelectSeq(Indexed(p), LAMBDA l : l.field = f), <<>>, LinkFields)
Linked == {l.to : l \in {l \in UNION {ToSet(Indexed(pages[s])) : s \in DOMAIN pages} : l.wiki = ""}}
Exempt(s) == pages[s].type = "section" \/ s = "index"
KnownType(t) == t \in DOMAIN Required

Orphan(s) == IF Exempt(s) \/ s \in Linked THEN <<>> ELSE <<Finding(s, "orphan", "warning", In(""))>>
Broken(s) ==
  LET found(l) ==
        IF l.wiki # ""
        THEN IF "broken-cross-wiki-link" \in rules /\ l.wiki \notin Mounted
             THEN <<Finding(s, "broken-cross-wiki-link", "warning", l)>> ELSE <<>>
        ELSE IF l.to \in DOMAIN pages THEN <<>> ELSE <<Finding(s, "broken-link", "error", l)>>
  IN  FoldLeft(LAMBDA acc, l : acc \o found(l), <<>>, InOrder(pages[s]))
Missing(s) ==
  LET t == pages[s].type
      lacks == IF KnownType(t)
               THEN SelectSeq(Required[t], LAMBDA f : f \in IndexFields /\ f \notin pages[s].has) ELSE <<>>
  IN  [i \in DOMAIN lacks |-> Finding(s, "missing-fields", "error", In(lacks[i]))]
(* kept: the per cent of its confidence that a page of its age and type keeps *)
Decayed(p) == (p.conf * p.kept) \div 100
Stale(s) ==
  LET p == pages[s]
  IN  IF "last_updated" \in IndexFields /\ p.age > StaleDays /\ p.conf < Confident
      THEN <<Finding(s, "stale", IF Decayed(p) <= Archive THEN "error" ELSE "warning",
                     In(IF Decayed(p) <= Archive THEN "archivable" ELSE IF Decayed(p) <= Forget THEN "forgettable" ELSE ""))>>
      ELSE <<>>
Unknown(s) ==
  IF pages[s].type = "" \/ KnownType(pages[s].type) THEN <<>> ELSE <<Finding(s, "unknown-type", "error", In(""))>>

(* Each rule walks over the pages in an order of its own; the sort is stable. *)
Links == {"broken-link", "broken-cross-wiki-link"}
Walked(found, order) == FoldLeft(LAMBDA acc, s : acc \o found[s], <<>>, order)
Each(order1, order2) ==
  LET on(rs, found, order) == IF rules \cap rs = {} THEN <<>> ELSE Walked(found, order)
      of(Op(_)) == [s \in DOMAIN pages |-> Op(s)]
  IN  on({"orphan"}, of(Orphan), order1) \o on(Links, of(Broken), order2) \o on({"missing-fields"}, of(Missing), order1)
      \o on({"stale"}, of(Stale), order2) \o on({"unknown-type"}, of(Unknown), order1)
RuleOrder == <<"broken-cross-wiki-link", "broken-link", "missing-fields", "orphan", "stale", "unknown-type">>
Sorted(fs) ==
  FoldLeft(LAMBDA acc, s : acc \o FoldLeft(LAMBDA a, r : a \o SelectSeq(fs, LAMBDA f : f.slug = s /\ f.rule = r),
                                           <<>>, RuleOrder), <<>>, Slugs)
Kept(fs) == SelectSeq(fs, LAMBDA f : severity \in {"any", f.severity})
Lint ==
  /\ ~linted /\ linted' = TRUE
  /\ \E order \in SetToSeqs(DOMAIN pages) : report' = Sorted(Kept(Each(order, Reverse(order))))
  /\ UNCHANGED <<pages, rules, severity>>

Next == Lint
Spec == Init /\ [][Next]_vars

----------------------------------------------------------------------------
Reported == {report[i] : i \in DOMAIN report}
Asked(rule, sev) == linted /\ rule \in rules /\ severity \in {"any", sev}
\* No link is forgotten and none told twice: where both rules run, what a page
\* links to is in the index and no orphan, or it is reported as broken, once for
\* each link; what is reported as an orphan is linked from nowhere.
LinksAccounted ==
  Asked("orphan", "error") /\ Asked("broken-link", "error") /\ severity = "any" =>
    LET orphans == {f.slug : f \in {f \in Reported : f.rule = "orphan"}}
    IN  \A s \in DOMAIN pages : \A l \in ToSet(Indexed(pages[s])) : l.wiki = "" =>
          /\ l.to \notin orphans
          /\ Cardinality({i \in DOMAIN report : report[i].slug = s /\ report[i].about = l}) =
               IF l.to \in DOMAIN pages THEN 0 ELSE Cardinality({i \in DOMAIN pages[s].links : pages[s].links[i] = l})
\* A page whose type is unknown lacks no field; a page that is told archivable is
\* old, unsure and more urgent than one that is told forgettable; the report
\* stays in order and is the same in whatever order the index is read.
ReportOrdered ==
  linted =>
    /\ \A f, g \in Reported : f.rule = "missing-fields" /\ g.rule = "unknown-type" => f.slug # g.slug
    /\ \A f \in Reported : f.rule = "stale" =>
         /\ pages[f.slug].conf < Confident
         /\ (f.severity = "error") = (Decayed(pages[f.slug]) <= Archive)
    /\ \A i, j \in DOMAIN report : i < j =>
         SelectInSeq(Slugs, LAMBDA s : s = report[i].slug) <= SelectInSeq(Slugs, LAMBDA s : s = report[j].slug)
    /\ LET order == SetToSeq(DOMAIN pages) IN report = Sorted(Kept(Each(order, order)))
LintKept == LinksAccounted /\ ReportOrdered
=============================================================================
