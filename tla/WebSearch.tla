------------------------------- MODULE WebSearch -------------------------------
(* Web searches (crates/websearch): the rate limiter and the cache of probes   *)
(* that all searches of the process share, the chain of backends a search      *)
(* tries, and what is made of the page a backend answers with.                 *)
EXTENDS Integers, SequencesExt, FiniteSetsExt
CONSTANTS
  Instances,   \* what a context provider may be configured with
  Searchers,   \* tasks that search
  Interval, Jitter, Ttl, ProbeTime,  \* min_interval_ms and its jitter, age of a probe, its timeout
  MaxResults,
  Pages,       \* what a backend may answer
  MaxTime, MaxSwitches, MaxSearches  \* bounds: the clock, changes of the network, searches
VARIABLES
  probing,  \* whether probe_timeout_ms is set
  env,      \* the SearXNG instance of the environment, or "none"
  shared,   \* the shared configuration: not set, or the first provider's instance
  now, up, switches,  \* the clock, the kinds of backends within reach, its changes
  last,     \* the limiter's last_request, or Never
  passed,   \* how many it let through, when the newest, what that had read, its task's one before
  own,      \* per searcher when it was last let through
  cache,    \* per kind the last probe [reach, at, url], at = Never without one
  task,     \* per searcher its search
  answer    \* the backend that answered the search that just ended
vars == <<probing, env, shared, now, up, switches, last, passed, own, cache, task, answer>>

Never == -1
Kinds == {"ddg", "bing", "searxng"}
Chain == <<"lite", "instant", "html", "bing", "searxng">>
KindOf(b) == IF b \in {"lite", "instant", "html"} THEN "ddg" ELSE b
NoProbe == [reach |-> FALSE, at |-> Never, url |-> "none"]
Idle ==
  [at |-> "idle", begun |-> 0, read |-> Never, url |-> "none", ask |-> {},
   known |-> {}]

Init ==
  /\ probing \in BOOLEAN /\ env \in {"none", "s1"} /\ shared = "unset"
  /\ now = 0 /\ up = Kinds /\ switches = 0
  /\ last = Never /\ passed = [n |-> 0, at |-> Never, read |-> Never, before |-> Never]
  /\ own = [s \in Searchers |-> Never]
  /\ cache = [k \in Kinds |-> NoProbe]
  /\ task = [s \in Searchers |-> Idle] /\ answer = "none"

Set(s, r) == task' = [task EXCEPT ![s] = r]

----------------------------------------------------------------------------
(* The results of a page.  Lite and HTML take the i-th snippet for the i-th   *)
(* link, Bing the one inside the element; SearXNG keeps doubles and appends   *)
(* answers; an instant answer has up to three results before the limit counts.*)
Snippets(items) == SelectSeq([i \in DOMAIN items |-> i], LAMBDA i : items[i].snippet)
Ith(items) == LET found == Snippets(items)
              IN  [i \in DOMAIN items |-> IF i <= Len(found) THEN found[i] ELSE 0]
Own(items) == [i \in DOMAIN items |-> IF items[i].snippet THEN i ELSE 0]
Links(items, snippets) ==
  FoldLeft(LAMBDA acc, i :
             IF \/ Len(acc) >= MaxResults \/ items[i].url = "" \/ \E r \in ToSet(acc) : r.url = items[i].url
             THEN acc ELSE Append(acc, [url |-> items[i].url, item |-> i, snippet |-> snippets[i]]),
           <<>>, [i \in DOMAIN items |-> i])
First(seq, n) == SubSeq(seq, 1, IF Len(seq) < n THEN Len(seq) ELSE n)
Facts(n) == [i \in 1..n |-> [url |-> "query", item |-> 0, snippet |-> 0]]
Parse(b, page) ==
  LET items == page.items
      every == [i \in DOMAIN items |-> [url |-> items[i].url, item |-> i, snippet |-> Own(items)[i]]]
      taken == First(every, MaxResults)
      base == Facts(page.facts)
      left == IF page.facts < MaxResults THEN MaxResults - page.facts ELSE 0
  IN CASE b \in {"lite", "html"} -> Links(items, Ith(items))
       [] b = "bing" -> Links(items, Own(items))
       [] b = "searxng" -> First(taken \o Facts(page.answers), MaxResults)
       [] b = "instant" -> base \o First(every, left)

----------------------------------------------------------------------------
(* The context provider shares its configuration, which only the first does.  *)
Enrich(url) ==
  /\ shared = "unset" /\ shared' = url
  /\ UNCHANGED <<probing, env, now, up, switches, last, passed, own, cache, task, answer>>
Config == IF shared \notin {"unset", "none"} THEN shared ELSE env

(* RateLimiter::wait up to its sleep: a search is let through or has to sleep. *)
Pass(s, read) ==
  /\ passed' = [n |-> passed.n + 1, at |-> now, read |-> read, before |-> own[s]]
  /\ own' = [own EXCEPT ![s] = now]
Left(s) == Interval - (task[s].begun - task[s].read)
Shortest(s) == task[s].begun + (IF Left(s) > Jitter THEN Left(s) - Jitter ELSE 0)
Longest(s) == task[s].begun + Left(s) + Jitter
Begin(s) ==
  LET new == [Idle EXCEPT !.url = Config] IN
  /\ task[s].at = "idle"
  /\ passed.n + Cardinality({x \in Searchers : task[x].at = "asleep"}) < MaxSearches
  /\ IF last # Never /\ now - last < Interval
     THEN Set(s, [new EXCEPT !.at = "asleep", !.begun = now, !.read = last]) /\ UNCHANGED <<last, passed, own>>
     ELSE Set(s, [new EXCEPT !.at = "through"]) /\ last' = now /\ Pass(s, last)
  /\ answer' = "none" /\ UNCHANGED <<probing, env, shared, now, up, switches, cache>>
Wake(s) ==
  /\ task[s].at = "asleep" /\ now >= Shortest(s)
  /\ last' = now /\ Pass(s, task[s].read)
  /\ Set(s, [task[s] EXCEPT !.at = "through", !.begun = 0, !.read = Never])
  /\ UNCHANGED <<probing, env, shared, now, up, switches, cache, answer>>

(* probe_all: the kinds without a fresh entry are probed together; the probe   *)
(* counts from its start.  What the cache then says of any kind is believed.   *)
Stale(k) == cache[k].at = Never \/ now - cache[k].at >= Ttl
Asked(s) == {k \in Kinds : Stale(k) /\ (k = "searxng" => task[s].url # "none")}
Believed(c) == {k \in Kinds : c[k].reach}
Choose(s) ==
  /\ task[s].at = "through"
  /\ CASE ~probing ->
            Set(s, [task[s] EXCEPT !.at = "trying",
                                   !.known = IF task[s].url = "none" THEN Kinds \ {"searxng"} ELSE Kinds])
       [] probing /\ Asked(s) = {} -> Set(s, [task[s] EXCEPT !.at = "trying", !.known = Believed(cache)])
       [] OTHER -> Set(s, [task[s] EXCEPT !.at = "probing", !.begun = now, !.ask = Asked(s)])
  /\ UNCHANGED <<probing, env, shared, now, up, switches, last, passed, own, cache, answer>>
Probed(s) ==
  LET t == task[s]
      new == [k \in Kinds |-> IF k \notin t.ask THEN cache[k]
                              ELSE [reach |-> k \in up, at |-> t.begun, url |-> t.url]]
  IN  /\ t.at = "probing"
      /\ cache' = new
      /\ Set(s, [t EXCEPT !.at = "trying", !.known = Believed(new), !.ask = {}, !.begun = 0])
      /\ UNCHANGED <<probing, env, shared, now, up, switches, last, passed, own, answer>>

----------------------------------------------------------------------------
(* The chain: the first backend of a kind believed to be in reach that has an *)
(* answer.  It shares nothing with other searches, and what does not answer,  *)
(* by a captcha, a status, no results or a network error that stays after its *)
(* retry, is passed over.                                                     *)
Try(s, answering) ==
  LET open == {i \in DOMAIN Chain : Chain[i] \in answering /\ KindOf(Chain[i]) \in task[s].known} IN
  /\ task[s].at = "trying" /\ \A b \in answering : KindOf(b) \in up
  /\ Set(s, Idle) /\ answer' = IF open = {} THEN "none" ELSE Chain[Min(open)]
  /\ UNCHANGED <<probing, env, shared, now, up, switches, last, passed, own, cache>>

(* A probe, HEAD and then GET, ends in time, and so does a sleep; nobody waits *)
(* with what takes no time.                                                    *)
Tick ==
  /\ now < MaxTime /\ now' = now + 1 /\ answer' = "none"
  /\ \A s \in Searchers :
       /\ task[s].at \notin {"through", "trying"}
       /\ task[s].at = "probing" => now < task[s].begun + 2 * ProbeTime
       /\ task[s].at = "asleep" => now < Longest(s)
  /\ UNCHANGED <<probing, env, shared, up, switches, last, passed, own, cache, task>>
Switch(k) ==
  /\ switches < MaxSwitches /\ switches' = switches + 1
  /\ up' = IF k \in up THEN up \ {k} ELSE up \cup {k}
  /\ UNCHANGED <<probing, env, shared, now, last, passed, own, cache, task, answer>>

Next ==
  \/ \E url \in Instances : Enrich(url)
  \/ \E s \in Searchers :
       \/ Begin(s) \/ Wake(s) \/ Choose(s) \/ Probed(s)
       \/ \E answering \in SUBSET ToSet(Chain) : Try(s, answering)
  \/ Tick \/ \E k \in Kinds \ {"bing"} : Switch(k)
Spec == Init /\ [][Next]_vars

----------------------------------------------------------------------------
(* A search keeps its distance to the newest request it saw and to the last   *)
(* one of its own task, whatever other tasks send meanwhile: no more requests *)
(* come together than there are tasks.                                        *)
Spaced ==
  /\ passed.read # Never => passed.at - passed.read >= Interval - Jitter
  /\ passed.before # Never => passed.at - passed.before >= Interval - Jitter

(* What a search believes is no older than a probe is good for and takes, and  *)
(* where one instance is configured it is the one that was probed.             *)
FreshlyProbed ==
  \A s \in Searchers, k \in Kinds :
    task[s].at = "trying" /\ probing /\ (k = "searxng" => task[s].url # "none") =>
      cache[k].at # Never /\ now - cache[k].at < Ttl + 2 * ProbeTime
ProbedWhatIsUsed ==
  shared \in {"unset", "none", env} =>
    \A s \in Searchers : task[s].at = "trying" /\ probing /\ "searxng" \in task[s].known =>
      cache["searxng"].url = task[s].url

(* No page is listed twice and the limit holds, but for an instant answer's   *)
(* facts; each result of Bing has its own snippet, and one of the other pages *)
(* if every result has one.                                                   *)
ResultsTold ==
  \A p \in Pages : answer # "none" =>
    LET b == answer
        r == Parse(b, p)
    IN  /\ Len(r) <= IF b = "instant" THEN Max({3, MaxResults}) ELSE MaxResults
        /\ b \in {"lite", "html", "bing"} => \A i, j \in DOMAIN r : i # j => r[i].url # r[j].url
        /\ b = "bing" \/ (\A i \in DOMAIN p.items : p.items[i].snippet) =>
             \A i \in DOMAIN r : r[i].snippet \in {0, r[i].item}

SearchesKept == Spaced /\ FreshlyProbed /\ ProbedWhatIsUsed
============================================================================
