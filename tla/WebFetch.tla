------------------------------- MODULE WebFetch --------------------------------
(* Fetching a page (crates/websearch/src/fetcher.rs): a worker process renders *)
(* it, its text is cleaned and scored, and a scraper takes over when the       *)
(* worker fails or its text is poor.  A line of a text is                      *)
(* [cat, foot, ends]: its category, whether a footer pattern matches it and    *)
(* whether it ends a sentence.                                                 *)
EXTENDS Naturals, SequencesExt, FiniteSetsExt
CONSTANTS
  Texts,      \* the texts cleaning is checked with
  Rendered,   \* what the worker may make of a page
  Scraped,    \* what the scraper may make of it
  Unit, MaxSize, Threshold  \* characters of a line, max_content_bytes, quality_threshold in percent
VARIABLES
  config,   \* [servo, fallback, mode, wide]; wide: a character takes three bytes
  unsafe,   \* the domain is known to break the renderer
  at,       \* "start", "worker", "rendered", "poor", "failed" or "done"
  workers,  \* worker processes that run
  text, scraped,  \* what each of the two made, None without
  page      \* the result: [ok, lines, source, size, shown, truncated]
vars == <<config, unsafe, at, workers, text, scraped, page>>

None == [made |-> FALSE, lines |-> <<>>]
Made(t) == [made |-> TRUE, lines |-> t]
Nothing == [ok |-> FALSE, lines |-> <<>>, source |-> "none", size |-> 0, shown |-> 0, truncated |-> FALSE]

----------------------------------------------------------------------------
(* ContentCleaner.                                                            *)
IsContent(l) == l.cat = "content"
Full(t) == SelectSeq(t, LAMBDA l : l.cat # "empty")
Count(t, Test(_)) == Len(SelectSeq(t, Test))
(* normalize_whitespace: no empty line at either end nor two in a row.        *)
Normalize(t) ==
  LET kept == FoldLeft(LAMBDA acc, l : IF l.cat = "empty" /\ (acc = <<>> \/ Last(acc).cat = "empty")
                                       THEN acc ELSE Append(acc, l), <<>>, t)
  IN  IF kept # <<>> /\ Last(kept).cat = "empty" THEN Front(kept) ELSE kept
(* detect_footer_boundary: from the end, two lines in a row that belong to a   *)
(* footer, a line before them that does not, and no text after that line.  The *)
(* window, a third or fifteen lines, is the whole of a short text.             *)
Footer(l) == l.foot \/ l.cat = "boilerplate"
Boundary(t) ==
  LET n == Len(t)
      Ends(i) == /\ i + 2 <= n /\ ~Footer(t[i]) /\ Footer(t[i + 1]) /\ Footer(t[i + 2])
                 /\ \A j \in (i + 1)..n : t[j].foot \/ ~IsContent(t[j])
      found == {i \in 1..n : Ends(i)}
  IN  IF n < 5 \/ found = {} THEN n ELSE Max(found)
Body(t) == SubSeq(t, 1, Boundary(t))
(* Standard: a short line stays only away from the text.                      *)
Beside(t, i) == (i > 1 /\ IsContent(t[i - 1])) \/ (i < Len(t) /\ IsContent(t[i + 1]))
Keeps(t, i) == IsContent(t[i]) \/ (t[i].cat = "short" /\ ~Beside(t, i))
Standard(t) ==
  Normalize(FoldLeft(LAMBDA acc, i : IF Keeps(t, i) THEN Append(acc, t[i]) ELSE acc,
                     <<>>, [i \in 1..Boundary(t) |-> i]))
Aggressive(t) == Normalize(SelectSeq(Body(t), IsContent))
(* Auto: by the share of boilerplate among the lines.                         *)
Noise(t) == Count(Full(t), LAMBDA l : l.cat = "boilerplate")
Auto(t) ==
  CASE 2 * Noise(t) > Len(Full(t)) -> Aggressive(t)
    [] 4 * Noise(t) > Len(Full(t)) /\ 2 * Noise(t) <= Len(Full(t)) -> Standard(t)
    [] OTHER -> Normalize(t)
Clean(mode, t) ==
  CASE mode = "raw" -> t [] mode = "minimal" -> Normalize(t)
    [] mode = "auto" -> Auto(t) [] mode = "aggressive" -> Aggressive(t)
(* score_content in percent, of texts without links or repeated short lines,  *)
(* whose lengths earn nothing.                                                *)
Score(t) ==
  LET lines == Full(t) IN
  IF lines = <<>> THEN 0
  ELSE (40 * Count(lines, IsContent) + 20 * Count(lines, LAMBDA l : l.ends)) \div Len(lines)

----------------------------------------------------------------------------
Init ==
  /\ config \in [servo : BOOLEAN, fallback : BOOLEAN, mode : {"raw", "minimal", "auto", "aggressive"}, wide : BOOLEAN]
  /\ unsafe \in BOOLEAN
  /\ at = "start" /\ workers = 0 /\ text = None /\ scraped = None /\ page = Nothing

(* The renderer is switched off, avoided, not found or does not start.        *)
Skip ==
  /\ at = "start" /\ at' = "failed"
  /\ UNCHANGED <<config, unsafe, workers, text, scraped, page>>
Spawn ==
  /\ at = "start" /\ config.servo /\ ~unsafe
  /\ at' = "worker" /\ workers' = workers + 1
  /\ UNCHANGED <<config, unsafe, text, scraped, page>>
Renders(t) ==
  /\ at = "worker" /\ at' = "rendered" /\ workers' = workers - 1
  /\ text' = Made(Clean(config.mode, t))
  /\ UNCHANGED <<config, unsafe, scraped, page>>
(* It overflows its stack, exits with an error, or writes no result.          *)
Crashes ==
  /\ at = "worker" /\ at' = "failed" /\ workers' = workers - 1
  /\ UNCHANGED <<config, unsafe, text, scraped, page>>
(* After timeout_secs + 10 nobody waits for it, but nobody stops it.           *)
TimesOut ==
  /\ at = "worker" /\ at' = "failed"
  /\ UNCHANGED <<config, unsafe, workers, text, scraped, page>>
WorkerEnds ==
  /\ at # "worker" /\ workers > 0 /\ workers' = workers - 1
  /\ UNCHANGED <<config, unsafe, at, text, scraped, page>>

(* Cutting counts characters where the limit is in bytes, and spares the last. *)
Width == IF config.wide THEN 3 ELSE 1
Size(lines) == Unit * Len(lines) * Width
Cut(lines, source) ==
  LET chars == Unit * Len(lines)
      taken == IF chars < MaxSize THEN chars ELSE MaxSize
  IN  [ok |-> TRUE, lines |-> lines, source |-> source, size |-> Size(lines), truncated |-> Size(lines) > MaxSize,
       shown |-> IF Size(lines) <= MaxSize THEN Size(lines) ELSE IF taken = 0 THEN 0 ELSE (taken - 1) * Width]
(* What the scraper found goes out as it is, however long.                    *)
Whole(lines) ==
  [ok |-> TRUE, lines |-> lines, source |-> "scraper", size |-> Size(lines), shown |-> Size(lines),
   truncated |-> Size(lines) > MaxSize]

Poor == Score(text.lines) < Threshold /\ config.fallback
Accept ==
  /\ at = "rendered" /\ ~Poor
  /\ at' = "done" /\ page' = Cut(text.lines, "servo")
  /\ UNCHANGED <<config, unsafe, workers, text, scraped>>
(* extract_with_scraper instead of a worker that failed.                      *)
Replace(t) ==
  /\ at = "failed" /\ config.fallback
  /\ at' = "done" /\ scraped' = Made(t) /\ page' = Whole(t)
  /\ UNCHANGED <<config, unsafe, workers, text>>
(* It is asked for a second opinion; the better text is taken.                *)
Better(t) == Score(Clean(config.mode, t)) > Score(text.lines)
Compare(t) ==
  /\ at = "rendered" /\ Poor
  /\ at' = "done" /\ scraped' = Made(Clean(config.mode, t))
  /\ page' = IF Better(t) THEN Cut(Clean(config.mode, t), "fallback") ELSE Cut(text.lines, "servo")
  /\ UNCHANGED <<config, unsafe, workers, text>>
ScraperFails ==
  \/ /\ at = "rendered" /\ Poor /\ page' = Cut(text.lines, "servo") /\ at' = "done"
     /\ UNCHANGED <<config, unsafe, workers, text, scraped>>
  \/ /\ at = "failed" /\ at' = "done" /\ UNCHANGED <<config, unsafe, workers, text, scraped, page>>

Next ==
  \/ Skip \/ Spawn \/ Crashes \/ TimesOut \/ WorkerEnds \/ Accept \/ ScraperFails
  \/ \E t \in Rendered : Renders(t)
  \/ \E t \in Scraped : Replace(t) \/ Compare(t)
Spec == Init /\ [][Next]_vars

----------------------------------------------------------------------------
(* No way of cleaning loses a line of text that no footer pattern matches, or  *)
(* changes the order of the lines.                                            *)
Told(t) == SelectSeq(t, LAMBDA l : IsContent(l) /\ ~l.foot)
KeepsText ==
  at = "worker" => \A t \in Texts : Told(Clean(config.mode, t)) = Told(t)
(* Cleaning what was cleaned loses nothing of it, and leaves no room for more  *)
(* blanks to go.                                                               *)
CleanStays ==
  at = "worker" /\ config.mode # "raw" => \A t \in Texts :
    LET c == Clean(config.mode, t) IN Told(Clean(config.mode, c)) = Told(c) /\ Normalize(c) = c

(* With a fallback a fetch fails only if both ways failed, and its text is not *)
(* worse than either of two that were compared.                               *)
SecondOpinion ==
  at = "done" =>
    /\ ~page.ok => ~text.made /\ ~scraped.made
    /\ text.made => \A p \in {text, scraped} : p.made /\ (Score(text.lines) < Threshold \/ p = text) =>
         Score(page.lines) >= Score(p.lines)

(* A cut text is told to be cut and is shorter than the page; in single bytes  *)
(* it keeps to the limit, except what the scraper gave instead of a worker.    *)
CutIsTold ==
  page.ok => /\ page.truncated <=> page.size > MaxSize
             /\ page.source # "scraper" /\ page.truncated => page.shown < page.size
             /\ page.source # "scraper" /\ ~config.wide => page.shown <= MaxSize
             /\ ~page.truncated => page.shown = page.size

(* Only a worker that ran out of time outlives its fetch.                     *)
NoWorkerLeft == workers <= 1 /\ (text.made => workers = 0)

FetchKept == KeepsText /\ CleanStays /\ SecondOpinion /\ CutIsTold /\ NoWorkerLeft
============================================================================
