--------------------------- MODULE WikiKnowledge ---------------------------
(* What a wiki knows and forgets: observations that are compressed into      *)
(* episodes and promoted to facts, pages that fade with age, are reinforced  *)
(* by use and archived by the governance task, and the authority that        *)
(* decides between conflicting pages.                                        *)
(* Source: crates/wiki/src/{memory,governance,forgetting,confidence,         *)
(* conflict}.rs.  Confidence is in percent, the exponential decay a table    *)
(* of percents per half-life. Bounds: MaxSeen observations, MaxAge, MaxRuns. *)
EXTENDS Naturals, Sequences, FiniteSets, SequencesExt

CONSTANTS Sessions, Capacity, Threshold, MaxSeen, PageIds, HalfLife, MaxAge, MaxRuns

VARIABLES
  subject,       \* what is observed: "memory" or "pages"
  revived,       \* pages that were used after a clean-up had scanned them
  seen,       \* observations made so far
  working,    \* working memory: [id, session]
  episodic,   \* [session, ids]
  semantic,   \* facts: id of the episode's first observation -> confidence
  dropped,    \* observations pushed out or cleared
  page,       \* [base, evidence, age, uses, archived] of each page
  scanned,    \* the snapshot a running clean-up still has to visit
  report,     \* archived and failed pages of the running clean-up
  history,    \* reports kept
  runs
memoryVars == <<seen, working, episodic, semantic, dropped>>
pageVars == <<page, revived, scanned, report, history, runs>>
vars == <<subject, memoryVars, pageVars>>

PromoteAt == 70
KeptReports == 2

----------------------------------------------------------------------------
(* Memory tiers.                                                             *)

(* observe: push; beyond the capacity the oldest goes.                       *)
Observe(s) ==
  /\ seen < MaxSeen /\ seen' = seen + 1
  /\ LET w == Append(working, [id |-> seen + 1, session |-> s]) IN
     IF Len(w) > Capacity THEN working' = Tail(w) /\ dropped' = dropped \cup {w[1].id}
     ELSE working' = w /\ UNCHANGED dropped
  /\ UNCHANGED <<episodic, semantic>>

(* compress: from the threshold on, everything observed becomes one episode  *)
(* per session, in an order the hash map chooses.                            *)
Episode(s) == [session |-> s, ids |-> LET of == SelectSeq(working, LAMBDA o : o.session = s)
                                      IN [i \in DOMAIN of |-> of[i].id]]
Compress ==
  /\ Len(working) >= Threshold
  /\ \E order \in SetToSeqs({working[i].session : i \in DOMAIN working}) :
       episodic' = episodic \o [i \in DOMAIN order |-> Episode(order[i])]
  /\ working' = <<>>
  /\ UNCHANGED <<seen, semantic, dropped>>

(* promote: a fact extracted from an episode with enough confidence is       *)
(* stored under its slug and replaces what was known of it.                  *)
Promote(i, confidence) ==
  /\ i \in DOMAIN episodic /\ confidence >= PromoteAt
  /\ semantic' = [f \in DOMAIN semantic \cup {episodic[i].ids[1]} |->
                    IF f = episodic[i].ids[1] THEN confidence ELSE semantic[f]]
  /\ UNCHANGED <<seen, working, episodic, dropped>>

ClearWorking ==
  /\ working # <<>> /\ working' = <<>>
  /\ dropped' = dropped \cup {working[i].id : i \in DOMAIN working}
  /\ UNCHANGED <<seen, episodic, semantic>>

----------------------------------------------------------------------------
(* Confidence, decay and authority.                                          *)

(* exp(-age / halflife): percent left after n half-life constants.           *)
Left == <<100, 37, 14, 5, 2, 1>>
Retention(p) == Left[IF p.age \div HalfLife >= 5 THEN 6 ELSE p.age \div HalfLife + 1]

(* decay: the status of a page by what is left of its base confidence.       *)
Decayed(p) == (p.base * Retention(p)) \div 100
Status(p) == IF Decayed(p) <= 5 THEN "archivable" ELSE IF Decayed(p) <= 20 THEN "forgettable"
             ELSE IF Retention(p) < 50 THEN "fading" ELSE "fresh"

(* compute: base times evidence times freshness; the authority multiplies it *)
(* by the retention once more. Two claims are enough evidence.               *)
Confidence(p) == (p.base * (IF p.evidence >= 2 THEN 100 ELSE 50 * p.evidence) * Retention(p)) \div 10000
Authority(p) == (Confidence(p) * Retention(p)) \div 100

(* propose_resolution of a contradiction: stable sort by descending          *)
(* authority, the first is kept, the others are deprecated.                  *)
Before(a, b, order) == \E i, j \in DOMAIN order : i < j /\ order[i] = a /\ order[j] = b
Ranked(order) ==
  CHOOSE r \in SetToSeqs(ToSet(order)) :
    \A i, j \in DOMAIN r : i < j =>
      \/ Authority(page[r[i]]) > Authority(page[r[j]])
      \/ Authority(page[r[i]]) = Authority(page[r[j]]) /\ Before(r[i], r[j], order)
Preferred(order) == Ranked(order)[1]

----------------------------------------------------------------------------
(* Pages and governance.                                                     *)

(* A day passes.                                                             *)
Age ==
  /\ \E p \in PageIds : page[p].age < MaxAge /\ ~page[p].archived
  /\ page' = [p \in PageIds |-> IF page[p].archived \/ page[p].age >= MaxAge THEN page[p]
                                ELSE [page[p] EXCEPT !.age = @ + 1]]
  /\ UNCHANGED <<revived, scanned, report, history, runs>>

(* reinforce: a used page is young again.                                    *)
Reinforce(p) ==
  /\ ~page[p].archived /\ page[p].age > 0 /\ page[p].uses < 1
  /\ page' = [page EXCEPT ![p].age = 0, ![p].uses = @ + 1]
  /\ revived' = IF \E s \in scanned : s.id = p THEN revived \cup {p} ELSE revived
  /\ UNCHANGED <<scanned, report, history, runs>>

(* run_cleanup_redundancy: scan_pages, then page by page; what archives is   *)
(* decided by the frontmatter of the scan. A failing archive is counted and  *)
(* the others go on.                                                         *)
Scan ==
  /\ scanned = {} /\ runs < MaxRuns /\ runs' = runs + 1
  /\ scanned' = {[id |-> p, was |-> page[p]] : p \in {q \in PageIds : ~page[q].archived}}
  /\ scanned' # {} /\ report' = [archived |-> 0, failed |-> 0]
  /\ revived' = {p \in revived : page[p].archived}
  /\ UNCHANGED <<page, history>>
Visit(s) ==
  /\ s \in scanned /\ scanned' = scanned \ {s}
  /\ \/ Status(s.was) # "archivable" /\ UNCHANGED <<page, report>>
     \/ /\ Status(s.was) = "archivable"
        /\ page' = [page EXCEPT ![s.id].archived = TRUE] /\ report' = [report EXCEPT !.archived = @ + 1]
     \/ Status(s.was) = "archivable" /\ report' = [report EXCEPT !.failed = @ + 1] /\ UNCHANGED page
  /\ history' = IF scanned' = {}
                THEN LET h == Append(history, report') IN IF Len(h) > KeptReports THEN Tail(h) ELSE h
                ELSE history
  /\ UNCHANGED <<revived, runs>>

Init ==
  /\ subject \in {"memory", "pages"} /\ revived = {}
  /\ seen = 0 /\ working = <<>> /\ episodic = <<>> /\ semantic = <<>> /\ dropped = {}
  /\ LET choice == IF subject = "memory" THEN {90} ELSE {30, 90} IN
     page \in [PageIds -> [base : choice, evidence : {x \in 1..2 : subject = "pages" \/ x = 2}, age : {0},
                            uses : {0}, archived : {FALSE}]]
  /\ scanned = {} /\ report = [archived |-> 0, failed |-> 0] /\ history = <<>> /\ runs = 0

MemoryStep ==
  \/ \E s \in Sessions : Observe(s)
  \/ Compress \/ ClearWorking
  \/ \E i \in DOMAIN episodic, c \in {60, 70, 90} : Promote(i, c)
PageStep ==
  \/ Age \/ Scan
  \/ \E p \in PageIds : Reinforce(p)
  \/ \E s \in scanned : Visit(s)
Next ==
  /\ \/ subject = "memory" /\ MemoryStep /\ UNCHANGED pageVars
     \/ subject = "pages" /\ PageStep /\ UNCHANGED memoryVars
  /\ UNCHANGED subject
Spec == Init /\ [][Next]_vars

----------------------------------------------------------------------------
(* memory.rs: an observation is in one tier at a time, in the order it was   *)
(* made, and none is lost that the capacity did not push out.                *)
EpisodeIds == UNION {ToSet(episodic[i].ids) : i \in DOMAIN episodic}
WorkingIds == {working[i].id : i \in DOMAIN working}
ObservedOnce ==
  /\ EpisodeIds \cup WorkingIds \cup dropped = 1..seen
  /\ Cardinality(EpisodeIds) + Cardinality(WorkingIds) + Cardinality(dropped) = seen
  /\ \A i, j \in DOMAIN episodic : i # j => ToSet(episodic[i].ids) \cap ToSet(episodic[j].ids) = {}
  /\ \A i \in DOMAIN episodic : \A j, k \in DOMAIN episodic[i].ids : j < k => episodic[i].ids[j] < episodic[i].ids[k]

(* governance.rs: an archived page had faded, unless it was used after the   *)
(* clean-up that archived it had scanned it.                                 *)
OnlyFadedArchived == \A p \in PageIds \ revived : page[p].archived => Status(page[p]) = "archivable"

(* conflict.rs: the page kept in a conflict has the highest authority, and   *)
(* of two pages that differ only in age it is the younger.                   *)
AuthorityDecides ==
  \A order \in SetToSeqs(PageIds) :
    \A p \in PageIds \ {Preferred(order)} :
      LET k == page[Preferred(order)] IN
      /\ Authority(page[p]) <= Authority(k)
      /\ [page[p] EXCEPT !.age = k.age, !.uses = k.uses, !.archived = k.archived] = k /\ Authority(page[p]) < Authority(k)
           => k.age < page[p].age

KnowledgeKept == ObservedOnce /\ OnlyFadedArchived /\ AuthorityDecides
=============================================================================
