---------------------------- MODULE WikiSchemas ----------------------------
(* The page types of a wiki: discovered from the files of schemas/, added to *)
(* by [types.x] of wiki.toml, hashed into state.toml, changed by the schema  *)
(* operations, and read again when the space is mounted, which rebuilds the  *)
(* part of the index whose types changed.                                    *)
EXTENDS Naturals, SequencesExt, FiniteSets
CONSTANTS
  TypeOrder,   \* the type names in the order of their hashes, "default" and "page" among them
  FileOrder,   \* the schema files in the order they are read
  Schemas,     \* contents of schema files: [types, base, id]
  Slugs,       \* the pages
  PageSize,    \* the pages of one list result (20 in the code)
  MaxOps
VARIABLES
  dir,       \* the files of schemas/
  toml,      \* the overrides of wiki.toml: type to file
  pages,     \* the page files: slug to the type they name, or Untyped
  docs,      \* the index: documents [slug, type, under], under the schema they were resolved by
  registry,  \* the types of the mounted space: [path, content]
  state,     \* state.toml: [hash, types]
  dropped,   \* pages that a removal took out of the index and left on disk
  whole,     \* since all was indexed last, no mount found a broken space or an unseen rename
  fresh,     \* nothing happened since the space was mounted
  ops
vars == <<dir, toml, pages, docs, registry, state, dropped, whole, fresh, ops>>

Types == ToSet(TypeOrder)
Files == ToSet(FileOrder)
Base == [types |-> {"default"}, base |-> TRUE, id |-> 0]
Embedded == "default" :> [path |-> "embedded", content |-> Base]

(* discover_from_dir: a later file takes a type from an earlier one. *)
Declares(d, f, t) == f \in DOMAIN d /\ t \in d[f].types
Discovered(d) ==
  [t \in {t \in Types : \E f \in Files : Declares(d, f, t)} |->
     LET f == SelectSeq(FileOrder, LAMBDA g : Declares(d, g, t))
     IN [path |-> f[Len(f)], content |-> d[f[Len(f)]]]]
Overridden(d, o) == [t \in DOMAIN o |-> [path |-> o[t], content |-> d[o[t]]]] @@ Discovered(d)
WithDefault(r) == r @@ Embedded

(* build_space fails on an override without its file and on a default type    *)
(* that does not require title and type; compute_disk_hashes on the former.   *)
Missing(d, o) == \E t \in DOMAIN o : o[t] \notin DOMAIN d
Broken(d, o) == \/ Missing(d, o)
                \/ LET r == WithDefault(Overridden(d, o)) IN ~r["default"].content.base
Built(d, o) == IF Broken(d, o) THEN Embedded ELSE WithDefault(Overridden(d, o))

(* The names of the types are not part of what is hashed. *)
Hash(r) == LET known == SelectSeq(TypeOrder, LAMBDA t : t \in DOMAIN r)
           IN [i \in 1..Len(known) |-> r[known[i]]]
DiskTypes(d, o) == IF Missing(d, o) THEN <<>> ELSE WithDefault(Overridden(d, o))

(* staleness_kind: the types whose hash is not that of the last build; none   *)
(* if the whole hash agrees, and all of them if no type tells the difference. *)
Changed(s, d, o) ==
  LET now == DiskTypes(d, o)
      differ == {t \in DOMAIN s.types \cup DOMAIN now :
                   ~(t \in DOMAIN s.types /\ t \in DOMAIN now /\ s.types[t] = now[t])}
  IN IF s.hash = Hash(now) THEN {} ELSE IF differ = {} THEN Types ELSE differ

(* A page that names no type is resolved as one of type "page", and its      *)
(* document has no type to find it by.                                       *)
Untyped == "none"
TypeOf(t) == IF t = Untyped THEN "page" ELSE t
Doc(s, t, r) == [slug |-> s, type |-> t, under |-> IF TypeOf(t) \in DOMAIN r THEN <<r[TypeOf(t)]>> ELSE <<>>]
Docs(ps, r) == {Doc(s, ps[s], r) : s \in DOMAIN ps}
(* rebuild_types *)
Partial(ts, r) ==
  {d \in docs : d.type \notin ts} \cup {Doc(s, pages[s], r) : s \in {s \in DOMAIN pages : TypeOf(pages[s]) \in ts}}

Init ==
  /\ dir = <<>> /\ toml = <<>> /\ pages = <<>> /\ docs = {}
  /\ registry = Embedded /\ state = [hash |-> Hash(Embedded), types |-> Embedded]
  /\ dropped = {} /\ whole = TRUE /\ fresh = TRUE /\ ops = 0

Op == ops < MaxOps /\ ops' = ops + 1
Touched == Op /\ fresh' = FALSE

(* A page is written and the index rebuilt by the mounted types. *)
AddPage(s, t) ==
  /\ Touched /\ s \notin DOMAIN pages
  /\ pages' = s :> t @@ pages
  /\ docs' = Docs(pages', registry)
  /\ state' = [hash |-> Hash(registry), types |-> registry]
  /\ dropped' = {} /\ whole' = TRUE /\ UNCHANGED <<dir, toml, registry>>

(* schema_add: the file is copied over whatever is there; a type it does not  *)
(* declare becomes an override.                                               *)
SchemaAdd(f, c, t) ==
  /\ Touched /\ dir' = f :> c @@ dir
  /\ toml' = IF t \in c.types THEN toml ELSE t :> f @@ toml
  /\ UNCHANGED <<pages, docs, registry, state, dropped, whole>>

(* Somebody renames an override in wiki.toml. *)
Rename(t, u) ==
  /\ Touched /\ t \in DOMAIN toml /\ u \notin DOMAIN toml
  /\ toml' = u :> toml[t] @@ Restrict(toml, DOMAIN toml \ {t})
  /\ UNCHANGED <<dir, pages, docs, registry, state, dropped, whole>>

(* schema_remove: all documents of the type leave the index, the files of one *)
(* list result may leave the disk, the override goes, and the file goes if it *)
(* declares no second type.                                                   *)
Listed(t) == {d.slug : d \in {d \in docs : d.type = t}}
Deletes(t, delete) ==
  IF delete /\ t \in DOMAIN registry /\ registry[t].path \in DOMAIN dir
     /\ Cardinality(dir[registry[t].path].types) <= 1
  THEN {registry[t].path} ELSE {}
SchemaRemove(t, delete, deletePages) ==
  /\ Touched /\ t # "default"
  /\ docs' = {d \in docs : d.type # t}
  /\ \E gone \in SUBSET Listed(t) :
       /\ Cardinality(gone) = (IF ~deletePages THEN 0
                               ELSE IF Cardinality(Listed(t)) < PageSize
                                    THEN Cardinality(Listed(t)) ELSE PageSize)
       /\ pages' = Restrict(pages, DOMAIN pages \ gone)
       /\ dropped' = (dropped \cup Listed(t)) \ gone
  /\ toml' = Restrict(toml, DOMAIN toml \ {t})
  /\ dir' = Restrict(dir, DOMAIN dir \ Deletes(t, delete))
  /\ UNCHANGED <<registry, state, whole>>

(* rebuild_index and schema_rebuild, by the mounted types; mount_space. *)
Rebuild ==
  /\ Touched /\ docs' = Docs(pages, registry) /\ dropped' = {} /\ whole' = TRUE
  /\ state' = [hash |-> Hash(registry), types |-> registry]
  /\ UNCHANGED <<dir, toml, pages, registry>>
(* The documents of changed types again, by the registry in memory. *)
Refresh(r) ==
  LET ts == Changed(state, dir, toml) IN
  IF ts = {} THEN UNCHANGED <<docs, state, dropped>>
  ELSE /\ docs' = Partial(ts, r)
       /\ state' = [hash |-> Hash(r), types |-> r]
       /\ dropped' = {s \in dropped : pages[s] \notin ts}
SchemaRebuild == Touched /\ Refresh(registry) /\ UNCHANGED <<dir, toml, pages, registry, whole>>
(* A rename of a type that no hash shows. *)
Unseen == /\ Hash(DiskTypes(dir, toml)) = state.hash
          /\ DOMAIN DiskTypes(dir, toml) # DOMAIN state.types
Mount ==
  /\ Op /\ fresh' = TRUE /\ registry' = Built(dir, toml) /\ Refresh(registry')
  /\ whole' = (whole /\ ~Broken(dir, toml) /\ ~Unseen)
  /\ UNCHANGED <<dir, toml, pages>>

Next ==
  \/ \E s \in Slugs, t \in Types \cup {Untyped} : AddPage(s, t)
  \/ \E f \in Files, c \in Schemas, t \in Types : SchemaAdd(f, c, t)
  \/ \E t, u \in Types : Rename(t, u)
  \/ \E t \in Types, d, p \in BOOLEAN : SchemaRemove(t, d, p)
  \/ Rebuild \/ SchemaRebuild \/ Mount
Spec == Init /\ [][Next]_vars

(* After a mount of a space whose types can be read and whose renames the     *)
(* hashes show, the index has every page as a full rebuild would, but for     *)
(* those a removal took out of it, and of pages that name a type nothing else *)
(* (staleness_kind, rebuild_types).                                           *)
IndexTrue ==
  fresh /\ whole =>
    LET exact == {d \in Docs(pages, registry) : d.slug \notin dropped} IN
    exact \subseteq docs /\ \A d \in docs \ exact : d.type = Untyped

=============================================================================
