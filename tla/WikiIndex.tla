----------------------------- MODULE WikiIndex -----------------------------
(* The search index of one wiki space: pages and type schemas on disk, the   *)
(* committed index, the reader the requests see, state.toml, the watcher     *)
(* that re-indexes after edits, rebuilds asked by the API and the graph that *)
(* is cached under the reader's generation.                                  *)
(* Source: crates/wiki/src/{index_manager,watch,cache,engine,graph}.rs.      *)
(* A page is its type, if it names one, and the version of its text; a       *)
(* schema its version.                                                       *)
(* The channel of 256 events is cut to MaxQueue, edits to MaxEdits, crashes  *)
(* to MaxCrashes; one asks for a rebuild before generation MaxRebuilds only. *)
EXTENDS Naturals, FiniteSets

CONSTANTS PageIds, PageKinds, MaxEdits, MaxRebuilds, MaxQueue, MaxCrashes

VARIABLES
  watched,     \* the wiki's path contains "/wiki/": the watcher sees its pages
  autoRebuild, \* config.index.auto_rebuild
  pages,       \* page files: [kind, text]
  schema,      \* versions of the type schemas on disk
  registry,    \* the versions the mounted space was built from
  types,       \* state.toml: the versions of the last build (empty: no file)
  docs,        \* the committed index
  reader,      \* the segments the held reader sees
  generation,  \* bumped after each reload
  queue,       \* the watcher's channel
  batch,       \* what the watcher collected during its debounce
  job,         \* the rebuild each actor is in
  request,     \* the graph request in flight
  cache,       \* the cached graph: its key, its documents, the generation its request began in
  up,          \* the process runs
  edits, crashes,
  missed       \* an edit that no rebuild will come to see
vars == <<watched, autoRebuild, pages, schema, registry, types, docs, reader, generation, queue, batch,
          job, request, cache, up, edits, crashes, missed>>
mode == <<watched, autoRebuild>>
disk == <<pages, schema, edits>>
index == <<registry, types, docs, reader, generation>>
watcher == <<queue, batch>>
asking == <<request, cache>>
life == <<up, crashes>>

Actors == {"watcher", "api"}
Idle == [at |-> "idle", kinds |-> {}, docs |-> {}, owed |-> FALSE]
Past(step) == [Idle EXCEPT !.at = step]
NoRequest == [at |-> "none", sees |-> {}, key |-> 0, born |-> 0]

(* A page that names no type is one of type "page", and its document has no  *)
(* type term.                                                                *)
Untyped == "none"
AllKinds == PageKinds \cup {Untyped}
TypeOf(k) == IF k = Untyped THEN "page" ELSE k

(* The document of a page under the versions v: index_page.                  *)
Doc(p, v) == [id |-> p, kind |-> pages[p].kind, text |-> pages[p].text, schema |-> v[TypeOf(pages[p].kind)]]
Docs(v) == {Doc(p, v) : p \in DOMAIN pages}

(* staleness_kind: the types whose schema is not the one of the last build.  *)
Changed == {k \in PageKinds : types[k] # schema[k]}
Unbuilt == DOMAIN types = {}

(* rebuild_types: the documents with a term of these types are replaced by   *)
(* the pages that are of one of the types now. For all kinds, rebuild.       *)
Partial(ks, v) == {d \in docs : d.kind \notin ks} \cup {d \in Docs(v) : TypeOf(d.kind) \in ks}

Init ==
  /\ watched \in BOOLEAN /\ autoRebuild \in BOOLEAN
  /\ pages = [p \in PageIds |-> [kind |-> CHOOSE k \in PageKinds : TRUE, text |-> 0]]
  /\ schema = [k \in PageKinds |-> 0] /\ registry = schema /\ types = schema
  /\ docs = Docs(schema) /\ reader = docs /\ generation = 0
  /\ queue = {} /\ batch = {} /\ job = [a \in Actors |-> Idle]
  /\ request = NoRequest /\ cache = [key |-> 0, docs |-> docs, born |-> 0]
  /\ up = TRUE /\ edits = 0 /\ crashes = 0 /\ missed = FALSE

(* The notify callback: events of pages and schemas go to the channel with   *)
(* try_send, a full channel drops them.                                      *)
Notify(e) ==
  IF up /\ (watched \/ e[1] = "schema") /\ Cardinality(queue) < MaxQueue
  THEN queue' = queue \cup {e} /\ UNCHANGED missed
  ELSE missed' = (missed \/ e[1] = "page") /\ UNCHANGED queue

EditPage(p) ==
  /\ edits < MaxEdits /\ edits' = edits + 1
  /\ \/ \E k \in AllKinds : pages' = [q \in DOMAIN pages \cup {p} |->
                                    IF q = p THEN [kind |-> k, text |-> edits + 1] ELSE pages[q]]
     \/ p \in DOMAIN pages /\ pages' = [q \in DOMAIN pages \ {p} |-> pages[q]]
  /\ Notify(<<"page", p, edits>>)
  /\ UNCHANGED <<mode, schema, index, batch, job, asking, life>>

EditSchema(k) ==
  /\ edits < MaxEdits /\ edits' = edits + 1
  /\ schema' = [schema EXCEPT ![k] = edits + 1]
  /\ Notify(<<"schema", k, edits>>)
  /\ UNCHANGED <<mode, pages, index, batch, job, asking, life>>

(* run_watcher: a first event opens a batch, the debounce collects more.     *)
Collect(e) ==
  /\ up /\ job["watcher"] = Idle /\ e \in queue
  /\ batch' = batch \cup {e} /\ queue' = queue \ {e}
  /\ UNCHANGED <<mode, disk, index, job, asking, life, missed>>

(* A rebuild: an index writer is taken, or the lock is busy and it fails.    *)
Busy == \E a \in Actors : job[a].at # "idle" /\ job[a].at # "retry"
Take(a, ks) ==
  job' = [job EXCEPT ![a] = IF ~Busy THEN [Idle EXCEPT !.at = "writing", !.kinds = ks]
                            ELSE IF ks # AllKinds THEN [Idle EXCEPT !.at = "retry", !.kinds = AllKinds] ELSE Idle]

(* End of the debounce. A schema change takes priority over the pages of the *)
(* batch and re-indexes the types that differ from state.toml, none if none  *)
(* does; pages alone make a full rebuild.                                    *)
ActOnBatch ==
  /\ up /\ job["watcher"] = Idle /\ batch # {} /\ batch' = {}
  /\ LET edited == \E e \in batch : e[1] = "page" IN
     IF \E e \in batch : e[1] = "schema"
     THEN /\ IF Changed = {} THEN UNCHANGED job ELSE Take("watcher", Changed)
          /\ missed' = (missed \/ edited)
     ELSE Take("watcher", AllKinds) /\ missed' = (missed \/ Busy)
  /\ UNCHANGED <<mode, disk, index, queue, asking, life>>

(* The full rebuild tried when the partial one failed.                       *)
RetryFull(a) ==
  /\ up /\ job[a].at = "retry" /\ Take(a, AllKinds)
  /\ UNCHANGED <<mode, disk, index, watcher, asking, life, missed>>

(* wiki_index_rebuild, or the rebuild after an ingest.                       *)
RebuildIndex ==
  /\ up /\ job["api"] = Idle /\ ~Busy /\ generation < MaxRebuilds /\ Take("api", AllKinds)
  /\ UNCHANGED <<mode, disk, index, watcher, asking, life, missed>>

(* The walk over the pages, which sees no edit made after it began, and the  *)
(* commit. An edit missed before the walk is owed until the commit.          *)
Walk(a) ==
  /\ up /\ job[a].at = "writing"
  /\ job' = [job EXCEPT ![a] = [at |-> "walked", kinds |-> job[a].kinds,
                                docs |-> Partial(job[a].kinds, registry), owed |-> missed]]
  /\ missed' = (missed /\ job[a].kinds # AllKinds)
  /\ UNCHANGED <<mode, disk, index, watcher, asking, life>>
Commit(a) ==
  /\ up /\ job[a].at = "walked"
  /\ docs' = job[a].docs
  /\ job' = [job EXCEPT ![a] = Past("committed")]
  /\ UNCHANGED <<mode, disk, registry, types, reader, generation, watcher, asking, life, missed>>

ReloadForgotten(a) ==
  /\ up /\ job[a].at = "committed"
  /\ job' = [job EXCEPT ![a] = Past("reloaded")]
  /\ UNCHANGED <<mode, disk, registry, types, docs, reader, generation, watcher, asking, life, missed>>

(* reload_reader: the reader first, then the generation.                     *)
Reload(a) ==
  /\ up /\ job[a].at = "committed"
  /\ reader' = docs
  /\ job' = [job EXCEPT ![a] = Past("reloaded")]
  /\ UNCHANGED <<mode, disk, registry, types, docs, generation, watcher, asking, life, missed>>
Bump(a) ==
  /\ up /\ job[a].at = "reloaded"
  /\ generation' = generation + 1
  /\ job' = [job EXCEPT ![a] = Past("bumped")]
  /\ UNCHANGED <<mode, disk, registry, types, docs, reader, watcher, asking, life, missed>>

(* state.toml is written with the hashes of the registry; the writer goes.   *)
WriteState(a) ==
  /\ up /\ job[a].at = "bumped"
  /\ types' = registry /\ job' = [job EXCEPT ![a] = Idle]
  /\ UNCHANGED <<mode, disk, registry, docs, reader, generation, watcher, asking, life, missed>>

(* A graph request takes a searcher first and reads the generation later.    *)
Ask ==
  /\ up /\ request = NoRequest
  /\ request' = [at |-> "asked", sees |-> reader, key |-> 0, born |-> generation]
  /\ UNCHANGED <<mode, disk, index, watcher, job, cache, life, missed>>
Look ==
  /\ up /\ request.at = "asked"
  /\ request' = IF cache.key = generation THEN NoRequest
                ELSE [at |-> "building", sees |-> request.sees, key |-> generation, born |-> request.born]
  /\ UNCHANGED <<mode, disk, index, watcher, job, cache, life, missed>>
Store ==
  /\ up /\ request.at = "building"
  /\ cache' = [key |-> request.key, docs |-> request.sees, born |-> request.born] /\ request' = NoRequest
  /\ UNCHANGED <<mode, disk, index, watcher, job, life, missed>>

(* The process ends: what the watcher had not finished is forgotten, and a   *)
(* walk that is not committed.                                               *)
Owed == missed \/ \E a \in Actors : job[a].at = "walked" /\ job[a].owed
Crash ==
  /\ up /\ crashes < MaxCrashes /\ crashes' = crashes + 1 /\ up' = FALSE
  /\ missed' = (Owed \/ queue # {} \/ batch # {} \/ job["watcher"] # Idle)
  /\ queue' = {} /\ batch' = {} /\ job' = [a \in Actors |-> Idle] /\ request' = NoRequest
  /\ UNCHANGED <<mode, disk, index, cache>>

(* mount_space: the registry is built from disk; an index never built is     *)
(* built, a stale one partly re-indexed when auto_rebuild is on, a corrupt   *)
(* one removed and built again; then the reader opens and the graph is made. *)
(* Staleness is about schemas: pages edited while down are not looked at.    *)
Mount(corrupt) ==
  /\ ~up /\ up' = TRUE /\ registry' = schema
  /\ LET stale == ~Unbuilt /\ Changed # {}
         full == Unbuilt \/ corrupt
     IN /\ docs' = IF full THEN Docs(schema) ELSE IF autoRebuild THEN Partial(Changed, schema) ELSE docs
        /\ types' = IF full \/ autoRebuild THEN schema ELSE types
        /\ missed' = IF full THEN FALSE ELSE missed \/ (stale /\ ~autoRebuild)
  /\ reader' = docs' /\ generation' = 0 /\ cache' = [key |-> 0, docs |-> docs', born |-> 0]
  /\ UNCHANGED <<mode, disk, watcher, job, request, crashes>>

Next ==
  \/ \E p \in PageIds : EditPage(p)
  \/ \E k \in PageKinds : EditSchema(k)
  \/ \E e \in queue : Collect(e)
  \/ ActOnBatch \/ RebuildIndex \/ Ask \/ Look \/ Store \/ Crash
  \/ \E a \in Actors : RetryFull(a) \/ Walk(a) \/ Commit(a) \/ Reload(a) \/ Bump(a) \/ WriteState(a)
  \/ \E corrupt \in BOOLEAN : Mount(corrupt)
Spec == Init /\ [][Next]_vars

(* When the watcher is idle and no rebuild runs, searches see every page as  *)
(* it is on disk, and of typed pages nothing else, unless one was missed:    *)
(* dropped by a full channel, made while the process was down or in a        *)
(* directory the watcher filters out, swallowed by a schema change of its    *)
(* batch or by a busy writer. (A partial rebuild leaves the old documents of *)
(* the pages that name no type beside the new ones.)                         *)
Current(ds) == /\ Docs(registry) \subseteq ds
               /\ \A d \in ds : d.kind \in PageKinds => d \in Docs(registry)
Quiet == up /\ queue = {} /\ batch = {} /\ \A a \in Actors : job[a] = Idle
QuietFresh == Quiet /\ ~missed => Current(reader)

(* The graph that a request which began under the current generation left in *)
(* the cache is the graph of the reader. (A request that began before leaves *)
(* an older graph under the current generation.)                             *)
Reloading == \E a \in Actors : job[a].at = "reloaded"
GraphCurrent == up /\ cache.key = generation /\ cache.born = generation /\ ~Reloading => cache.docs = reader

WikiIndexed == QuietFresh /\ GraphCurrent
=============================================================================
