---------------------------- MODULE MCAgents ----------------------------
(* The parts of and around an agent, checked together: each behaviour is one  *)
(* of them, with bounds for which every action fires.                         *)
EXTENDS Naturals, SequencesExt, TLC

CONSTANTS
  Parts,                            \* the parts whose behaviours are checked
  Prompts, NoToken,                 \* the prompts of a session, which are interchangeable; no token
  MaxRuns, MaxBusy, MaxObjects,     \* bounds of the turns: runs and session objects
  Callers, MaxIds,                  \* the MCP client: tasks that use it; bound: requests
  IdleSecs, LifeSecs,               \* stored sessions: idle time and lifetime
  MaxTime, MaxTurns,                \* their bounds: seconds and turns
  SpaceNames, SpacePaths, SpaceClients, SettingSections, SettingKeys, \* wiki spaces and settings
  MaxSpaceOps, MaxSets,             \* their bounds: operations, settings set
  PageIds, PageKinds,               \* the wiki's index: pages and types
  MaxEdits, MaxRebuilds, MaxQueue, MaxCrashes, \* its bounds
  BrainSessions, MemoryFiles, UpdateTurns, \* the curator: sessions, files, turns between runs
  MaxBrainTurns, MaxStarts,         \* its bounds: turns, starts of the process
  Instances, Searchers, Interval, Jitter, Ttl, ProbeTime, MaxResults, \* the web search and its times
  WebTime, MaxSwitches, MaxSearches \* its bounds

VARIABLES
  part,  \* the component of this behaviour
  v1, v2, v3, v4, v5, v6, v7, v8, v9, v10, v11, v12, v13, v14, v15, v16, v17, v18  \* its variables

Interchangeable == Permutations(Prompts) \cup Permutations(Callers) \cup Permutations(Searchers)

(* The wiki: contents of a page, links, type schemas, indexed pages, queries. *)
PageContents ==
  {[fields |-> TRUE, body |-> "long", conf |-> "high", archived |-> FALSE, secret |-> "body",
    front |-> TRUE, valid |-> TRUE],
   [fields |-> TRUE, body |-> "long", conf |-> "high", archived |-> TRUE, secret |-> "none",
    front |-> TRUE, valid |-> FALSE],
   [fields |-> FALSE, body |-> "long", conf |-> "high", archived |-> FALSE, secret |-> "front",
    front |-> FALSE, valid |-> TRUE]}
LinkedPages == {<<"v", "a">>, <<"v", "b">>, <<"v", "c">>, <<"v", "d">>, <<"w", "a">>}
PossibleLinks ==
  {<<<<"v", "a">>, <<"local", "b">>, "links-to">>, <<<<"v", "a">>, <<"local", "b">>, "cites">>,
   <<<<"v", "c">>, <<"w", "a">>, "links-to">>,
   <<<<"w", "a">>, <<"v", "d">>, "links-to">>, <<<<"w", "a">>, <<"v", "x">>, "links-to">>,
   <<<<"v", "d">>, <<"local", "c">>, "links-to">>, <<<<"v", "d">>, <<"local", "a">>, "links-to">>}
SchemaFiles == {[types |-> {"page"}, base |-> TRUE, id |-> 1], [types |-> {}, base |-> TRUE, id |-> 2],
                [types |-> {"default"}, base |-> FALSE, id |-> 3]}
LintedPage(type, links, has, age, conf, kept) ==
  [type |-> type, links |-> links, has |-> has, age |-> age, conf |-> conf, kept |-> kept]
LinkIn(field, wiki, to) == [field |-> field, wiki |-> wiki, to |-> to]
LintedPages ==
  {LintedPage("doc", <<LinkIn("body_links", "", "b"), LinkIn("sources", "", "x"), LinkIn("body_links", "", "x")>>,
              {"title"}, 100, 30, 50),
   LintedPage("section", <<LinkIn("body_links", "", "index")>>, {}, 10, 90, 90),
   LintedPage("odd", <<LinkIn("body_links", "gone", "b"), LinkIn("superseded_by", "", "x"), LinkIn("concepts", "", "a")>>,
              {}, 200, 20, 25),
   LintedPage("", <<>>, {}, 91, 39, 100)}
SearchPage(wiki, type, status, weight, links) ==
  [wiki |-> wiki, type |-> type, status |-> status, weight |-> weight, links |-> links]
SearchPages ==
  [a |-> SearchPage("v", "doc", "active", 2, <<"b", "d">>),
   b |-> SearchPage("v", "concept", "archived", 1, <<"a">>),
   c |-> SearchPage("v", "section", "active", 1, <<>>),
   d |-> SearchPage("v", "doc", "active", 1, <<"b">>),
   e |-> SearchPage("w", "doc", "active", 3, <<>>)]
SearchQueries ==
  {[text |-> [a |-> 1, b |-> 2, c |-> 1, d |-> 3, e |-> 1], near |-> [a |-> 2, b |-> 1, c |-> 1, d |-> 0, e |-> 0]],
   [text |-> [a |-> 1, b |-> 0, c |-> 0, d |-> 0, e |-> 1], near |-> [a |-> 0, b |-> 3, c |-> 0, d |-> 2, e |-> 1]]}

(* The web: pages of results, lines of a text. *)
Item(url, snippet) == [url |-> url, snippet |-> snippet]
ResultPages ==
  {[items |-> <<Item("u", TRUE), Item("", TRUE), Item("v", TRUE), Item("w", TRUE)>>, answers |-> 1, facts |-> 3],
   [items |-> <<Item("u", FALSE), Item("u", TRUE), Item("v", TRUE)>>, answers |-> 1, facts |-> 0]}
LineOf(cat, foot) == [cat |-> cat, foot |-> foot, ends |-> cat = "content"]
LineKinds ==
  {LineOf("content", FALSE), LineOf("content", TRUE), LineOf("short", FALSE), LineOf("short", TRUE),
   LineOf("boilerplate", FALSE), LineOf("empty", FALSE)}
(* Sources of knowledge: words, blanks, paragraphs and wide characters. *)
TextPieces == {<<"x", "x", "x">>, <<"x", "_">>, <<"x", "n", "n">>, <<"W", "c">>, <<"n">>}
SourceTexts == {FoldLeft(LAMBDA a, b : a \o b, <<>>, p) : p \in UNION {[1..n -> TextPieces] : n \in 0..4}}
PageTexts == {<<LineOf("content", FALSE)>> \o t : t \in [1..4 -> LineKinds]}

(* The answers of a model: arguments of calls, histories and replies. *)
ParamNames == {<<"a">>, <<"a", "_", "b", "q">>}
StringTexts == {<<>>, <<"x", "_", "}">>, <<"b", "q", ",">>, <<"x", "b", "b">>}
NestedTexts ==
  {<<"{", "}">>, <<"{", "q", "a", "q", ":", "[", "{", "}", "]", "}">>,
   <<"[", "[", "1", "]", ",", "{", "}", "]">>, <<"{", "q", "}", "q", ":", "1", "}">>}
Said(role, asked, answered) == [role |-> role, calls |-> asked, call |-> answered]
ChatHistories ==
  {<<Said("system", <<>>, "none"), Said("user", <<>>, "none"), Said("assistant", <<"x", "y">>, "none"),
     Said("tool", <<>>, "x"), Said("tool", <<>>, "y"), Said("assistant", <<>>, "none")>>,
   <<Said("user", <<>>, "none"), Said("assistant", <<"x">>, "none"), Said("tool", <<>>, "x")>>}
ChatReplies ==
  {<<>>, <<<<"text">>, <<"text">>>>,
   <<<<"text">>, <<"open", 1>>, <<"args", 1, "l">>, <<"args", 1, "r">>>>,
   <<<<"open", 0>>, <<"open", 1>>, <<"args", 1, "l">>, <<"args", 0, "l">>, <<"args", 1, "r">>>>}

T == INSTANCE AgentTurnProofs WITH
  None <- NoToken, pc <- v1, object <- v2, runs <- v3, cancelled <- v4, granted <- v5,
  executed <- v6, live <- v7, token <- v8, history <- v9, count <- v10, made <- v11,
  tail <- v12, saved <- v13, torn <- v14, calm <- v15
M == INSTANCE AgentParts WITH
  solo <- v1, lists <- v2, link <- v3, nextId <- v4, calls <- v5, asked <- v6, wire <- v7,
  alive <- v8, cache <- v9, taken <- v10,
  Idle <- IdleSecs, Life <- LifeSecs, storage <- v1, named <- v2, apart <- v3, now <- v4,
  live <- v5, stored <- v6, writing <- v7, loading <- v8, doomed <- v9, saved <- v10, lost <- v11,
  single <- v1, listed <- v2, engine <- v3, mounted <- v4, folders <- v5, tasks <- v6,
  operations <- v7, strayed <- v8, settingsNow <- v9, settingsTold <- v10, setCount <- v11,
  watched <- v1, autoRebuild <- v2, missed <- v3, pages <- v4, schema <- v5, registry <- v6,
  types <- v7, docs <- v8, reader <- v9, generation <- v10, queue <- v11, batch <- v12,
  job <- v13, request <- v14, graphCache <- v15, up <- v16, edits <- v17, crashes <- v18,
  count <- v1, projection <- v2, adding <- v3, channel <- v4, queued <- v5, running <- v6,
  done <- v7, dropped <- v14, runs <- v8, disk <- v9, mine <- v10, log <- v11, turns <- v12, starts <- v13,
  AnswerPages <- ResultPages, own <- v1, probing <- v2, env <- v3, shared <- v4, clock <- v5,
  within <- v6, switches <- v7, lastAt <- v8, passed <- v9, probes <- v10, search <- v11,
  answer <- v12
F == INSTANCE FileTools WITH
  Names <- {"a", "b"}, MaxSteps <- 2, MaxDepth <- 3, MaxLines <- 4, MaxJobs <- 1, dirs <- v1,
  files <- v2, home <- v3, jobs <- v4, link <- v5, strays <- v6
Y == INSTANCE WebFetch WITH
  Texts <- PageTexts, Rendered <- UNION {[1..n -> LineKinds] : n \in 0..2},
  Scraped <- [1..2 -> LineKinds], Unit <- 2, MaxSize <- 4, Threshold <- 40, config <- v1,
  unsafe <- v2, at <- v3, workers <- v4, text <- v5, scraped <- v6, page <- v7
K == INSTANCE WikiKnowledge WITH
  Sessions <- {"s1", "s2"}, Capacity <- 2, Threshold <- 2, MaxSeen <- 4, PageIds <- {"p", "q"},
  HalfLife <- 1, MaxAge <- 3, MaxRuns <- 2, subject <- v1, revived <- v2, seen <- v3,
  working <- v4, episodic <- v5, semantic <- v6, dropped <- v7, page <- v8, scanned <- v9,
  report <- v10, history <- v11, runs <- v12
W == INSTANCE WikiPages WITH
  Slugs <- {<<"a">>, <<"a", "b">>}, Contents <- PageContents, MaxOps <- 4, files <- v1,
  dirs <- v2, walk <- v3, book <- v4, undone <- v5, twice <- v6, ops <- v7
G == INSTANCE WikiGraph WITH
  Wikis <- {"v", "w"}, Wiki <- "v", Order <- <<"a", "b", "c", "d">>, Pages <- LinkedPages,
  Possible <- PossibleLinks,
  TypeOf <- [s \in {"a", "b", "c", "d"} |-> IF s = "c" THEN "y" ELSE "x"], MaxDepth <- 2,
  links <- v1, job <- v2, graph <- v3, seen <- v4, queue <- v5, comm <- v6, pos <- v7,
  pass <- v8, anyMove <- v9
H == INSTANCE WikiSchemas WITH
  TypeOrder <- <<"default", "page", "q">>, FileOrder <- <<"f", "g">>, Schemas <- SchemaFiles,
  Slugs <- {"s"}, PageSize <- 1, MaxOps <- 5, dir <- v1, toml <- v2, pages <- v3, docs <- v4,
  registry <- v5, state <- v6, dropped <- v7, whole <- v8, fresh <- v9, ops <- v10
E == INSTANCE WikiLint WITH
  Slugs <- <<"a", "b", "index">>, Contents <- LintedPages,
  LinkFields <- <<"body_links", "sources", "concepts", "superseded_by">>,
  IndexFields <- {"body_links", "sources", "concepts", "title", "last_updated"},
  Required <- [doc |-> <<"title", "owner">>, section |-> <<"title">>], Mounted <- {"w"},
  StaleDays <- 90, Confident <- 40, Archive <- 5, Forget <- 20, pages <- v1, rules <- v2,
  severity <- v3, report <- v4, linted <- v5
R == INSTANCE WikiSearch WITH
  Pages <- SearchPages, Order <- <<"a", "b", "c", "d", "e">>, Queries <- SearchQueries,
  TopK <- 2, Builders <- {"b1", "b2"}, MaxJobs <- 2, store <- v1, owned <- v2, jobs <- v3,
  answer <- v4, crossed <- v5, count <- v6
A == INSTANCE StreamedArguments WITH
  Names <- ParamNames, Strings <- StringTexts, Nested <- NestedTexts, MaxParams <- 2,
  MaxPiece <- 3, params <- v1, rest <- v2, parser <- v3, events <- v4
L == INSTANCE ChatStream WITH
  Histories <- ChatHistories, Replies <- ChatReplies, MaxPiece <- 3, format <- v1,
  request <- v2, reply <- v3, wire <- v4, buffer <- v5, line <- v6, stream <- v7, tools <- v8,
  index <- v9, contents <- v10, final <- v11
Q == INSTANCE Rag WITH
  Texts <- SourceTexts, Sizes <- {4, 5}, Overlaps <- 0..4,
  Score <- [f1 |-> 1, f2 |-> 2, f3 |-> 1], Askers <- {"a1", "a2"}, TopK <- 2, MaxEdits <- 1,
  unit <- v1, text <- v2, size <- v3, overlap <- v4, status <- v5, start <- v6, current <- v7,
  next <- v8, chunks <- v9, single <- v10, version <- v11, steady <- v12, builder <- v13,
  left <- v14, partial <- v15, cell <- v16, asker <- v17, told <- v18
C == INSTANCE Compression WITH
  MaxMessages <- 4, MaxBudget <- 4, Windows <- {0, 2}, messages <- v1, budget <- v2,
  pipeline <- v3, at <- v4, given <- v5

(* The components use as many of the variables as they have; the others are 0. *)
Unused(n) ==
  /\ (n < 5 => v5 = 0) /\ (n < 6 => v6 = 0) /\ (n < 7 => v7 = 0) /\ (n < 8 => v8 = 0)
  /\ (n < 9 => v9 = 0) /\ (n < 10 => v10 = 0) /\ (n < 11 => v11 = 0) /\ (n < 12 => v12 = 0)
  /\ (n < 13 => v13 = 0) /\ (n < 14 => v14 = 0) /\ (n < 15 => v15 = 0) /\ (n < 16 => v16 = 0)
  /\ (n < 17 => v17 = 0) /\ (n < 18 => v18 = 0)
Untouched(n) ==
  /\ (n < 5 => UNCHANGED v5) /\ (n < 6 => UNCHANGED v6) /\ (n < 7 => UNCHANGED v7)
  /\ (n < 8 => UNCHANGED v8) /\ (n < 9 => UNCHANGED v9) /\ (n < 10 => UNCHANGED v10)
  /\ (n < 11 => UNCHANGED v11) /\ (n < 12 => UNCHANGED v12) /\ (n < 13 => UNCHANGED v13)
  /\ (n < 14 => UNCHANGED v14) /\ (n < 15 => UNCHANGED v15) /\ (n < 16 => UNCHANGED v16)
  /\ (n < 17 => UNCHANGED v17) /\ (n < 18 => UNCHANGED v18)
vars == <<part, v1, v2, v3, v4, v5, v6, v7, v8, v9, v10, v11, v12, v13, v14, v15, v16, v17, v18>>

Init ==
  /\ part \in Parts
  /\ \/ part = "turns" /\ T!Init /\ Unused(15)
     \/ part = "mcp" /\ M!Init /\ Unused(10)
     \/ part = "store" /\ M!D!Init /\ Unused(11)
     \/ part = "tools" /\ F!Init /\ Unused(6)
     \/ part = "web" /\ M!X!Init /\ Unused(12)
     \/ part = "fetch" /\ Y!Init /\ Unused(7)
     \/ part = "brain" /\ M!B!Init /\ Unused(14)
     \/ part = "index" /\ M!I!Init /\ Unused(18)
     \/ part = "spaces" /\ M!S!Init /\ Unused(11)
     \/ part = "facts" /\ K!Init /\ Unused(12)
     \/ part = "pages" /\ W!Init /\ Unused(7)
     \/ part = "links" /\ G!Init /\ Unused(9)
     \/ part = "types" /\ H!Init /\ Unused(10)
     \/ part = "lint" /\ E!Init /\ Unused(5)
     \/ part = "search" /\ R!Init /\ Unused(6)
     \/ part = "args" /\ A!Init /\ Unused(4)
     \/ part = "answer" /\ L!Init /\ Unused(11)
     \/ part = "know" /\ Q!Init /\ Unused(18)
     \/ part = "budget" /\ C!Init /\ Unused(5)

TurnsStep == part = "turns" /\ T!Next /\ Untouched(15) /\ UNCHANGED part
McpStep == part = "mcp" /\ M!Next /\ Untouched(10) /\ UNCHANGED part
StoreStep == part = "store" /\ M!D!Next /\ Untouched(11) /\ UNCHANGED part
ToolsStep == part = "tools" /\ F!Next /\ Untouched(6) /\ UNCHANGED part
WebStep == part = "web" /\ M!X!Next /\ Untouched(12) /\ UNCHANGED part
FetchStep == part = "fetch" /\ Y!Next /\ Untouched(7) /\ UNCHANGED part
BrainStep == part = "brain" /\ M!B!Next /\ Untouched(14) /\ UNCHANGED part
IndexStep == part = "index" /\ M!I!Next /\ Untouched(18) /\ UNCHANGED part
SpacesStep == part = "spaces" /\ M!S!Next /\ Untouched(11) /\ UNCHANGED part
FactsStep == part = "facts" /\ K!Next /\ Untouched(12) /\ UNCHANGED part
PagesStep == part = "pages" /\ W!Next /\ Untouched(7) /\ UNCHANGED part
LinksStep == part = "links" /\ G!Next /\ Untouched(9) /\ UNCHANGED part
TypesStep == part = "types" /\ H!Next /\ Untouched(10) /\ UNCHANGED part
LintStep == part = "lint" /\ E!Next /\ Untouched(5) /\ UNCHANGED part
SearchStep == part = "search" /\ R!Next /\ Untouched(6) /\ UNCHANGED part
ArgsStep == part = "args" /\ A!Next /\ Untouched(4) /\ UNCHANGED part
AnswerStep == part = "answer" /\ L!Next /\ Untouched(11) /\ UNCHANGED part
KnowStep == part = "know" /\ Q!Next /\ Untouched(18) /\ UNCHANGED part
BudgetStep == part = "budget" /\ C!Next /\ Untouched(5) /\ UNCHANGED part
Next ==
  \/ TurnsStep \/ McpStep \/ StoreStep \/ ToolsStep \/ WebStep \/ FetchStep \/ BrainStep
  \/ IndexStep \/ SpacesStep \/ FactsStep \/ PagesStep \/ LinksStep \/ TypesStep
  \/ LintStep \/ SearchStep \/ ArgsStep \/ AnswerStep \/ KnowStep \/ BudgetStep
Spec == Init /\ [][Next]_vars

(* No cancel token outlives its turn. *)
TokenOwned == part = "turns" => T!TokenOwned
(* A client that waits has a conversation, across cancels, failures and reloads. *)
Conversation == part = "turns" => T!Conversation
(* A save loses nothing that an earlier one stored. *)
TurnsStay == [][part = "turns" => T!KeepsSaved]_vars
(* Approved calls are executed by the run that follows the approval. *)
ApprovedCallRuns == part = "turns" => T!ApprovedCallRuns
(* Responses, tools and statuses of the MCP client are those of its server. *)
McpKeepsRules == part = "mcp" => M!McpKeepsRules
(* A saved session is found again and no clean-up takes one still in use. *)
SessionsKept == part = "store" => M!D!SessionsKept
(* File tools stay inside the working directory and leave a tree, a paged file shows its *)
(* lines; searches tell results as they are; a fetched text is whole. *)
PagesInOrder == F!PagesInOrder
ToolsKept ==
  /\ part = "tools" => F!FilesKept /\ PagesInOrder
  /\ part = "web" => M!X!ResultsTold
  /\ part = "fetch" => Y!FetchKept
(* However the transport cuts an answer, its texts, calls, arguments and usage are told *)
(* once and whole; a compressed request is still a conversation; knowledge is cut without *)
(* loss and indexed whole. *)
MessagesKept ==
  /\ part = "args" => A!ArgumentsTold
  /\ part = "answer" => L!StreamTold
  /\ part = "budget" => C!CompressionKeeps
  /\ part = "know" => Q!KnowledgeFound
(* The pages, links, types and knowledge of the wiki keep their rules. *)
WikiKeepsRules ==
  /\ part = "facts" => K!KnowledgeKept
  /\ part = "pages" => W!PagesKept
  /\ part = "links" => G!GraphsHold
  /\ part = "types" => H!IndexTrue
  /\ part = "search" => R!SearchKept
  /\ part = "lint" => E!LintKept
(* What several actors keep together: the index follows the pages and the spaces their *)
(* file, the curator consolidates the newest of what was said once, and searches keep *)
(* their distance and believe fresh probes. *)
SharedStateKept ==
  /\ part = "index" => M!I!WikiIndexed
  /\ part = "spaces" => M!S!SpacesKept
  /\ part = "brain" => M!B!BrainKeepsRules
  /\ part = "web" => M!X!SearchesKept
==============================================================================
