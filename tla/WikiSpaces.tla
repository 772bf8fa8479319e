----------------------------- MODULE WikiSpaces -----------------------------
(* The wiki spaces: the global config file that registers them, the running  *)
(* engine that mounts them, the clients that create, register, remove and    *)
(* choose spaces in both, the pages that a URI addresses, and the settings   *)
(* of the global and per-wiki config.                                        *)
(* Source: crates/wiki/src/{spaces,config,engine,slug}.rs, ops/{spaces,      *)
(* config,content}.rs.  A path stands for a wiki's directory. A config file  *)
(* operation is a load and a later save; two clients may overlap.  Bounds:   *)
(* MaxSets settings, and MaxOps operations with the settings.                *)
EXTENDS Naturals, Sequences

CONSTANTS Names, Paths, Clients, Sections, Keys, MaxOps, MaxSets

VARIABLES
  alone,     \* one client operates at a time
  file,      \* the global config file: [wikis: [name, path]..., default]
  engine,    \* the config the engine was built with and its current default
  mounted,   \* name -> path of the mounted spaces
  dirs,      \* directories that exist
  task,      \* what each client has still to do, and the config it loaded
  ops,
  strayed,   \* a page written to wiki://name/... of a mounted wiki landed elsewhere
  cfg,       \* settings: the global file, and per section of the wiki's file
             \* the whole section, or nothing
  told,      \* history: the value each key was last set to, per level
  sets
vars == <<alone, file, engine, mounted, dirs, task, ops, strayed, cfg, told, sets>>
settings == <<cfg, told, sets>>

NoPath == ""
Unset == [k \in {} |-> 0]
Registered(f) == {w.name : w \in {f.wikis[i] : i \in DOMAIN f.wikis}}
PathOf(f, n) == LET i == CHOOSE i \in DOMAIN f.wikis :
                           f.wikis[i].name = n /\ \A j \in 1..i-1 : f.wikis[j].name # n
                IN f.wikis[i].path
Idle == [steps |-> <<>>, loaded |-> {}]
ResolvedBy(c, s, k) == IF DOMAIN c.wiki[s] # {} THEN c.wiki[s][k] ELSE c.global[s][k]

Init ==
  /\ alone \in BOOLEAN
  /\ \E n \in Names, p \in Paths :
       /\ file = [wikis |-> <<[name |-> n, path |-> p]>>, default |-> n]
       /\ dirs = {p} /\ mounted = [m \in {n} |-> p]
  /\ engine = file
  /\ task = [c \in Clients |-> Idle] /\ ops = 0 /\ strayed = FALSE
  /\ cfg = [global |-> [s \in Sections |-> [k \in Keys |-> 0]], wiki |-> [s \in Sections |-> Unset]]
  /\ told = [global |-> [s \in Sections |-> [k \in Keys |-> 0]],
             wiki |-> [s \in Sections |-> [k \in Keys |-> 0]]]
  /\ sets = 0

(* An operation starts: its steps are what it does after its own checks.     *)
Start(c, steps) ==
  /\ ops + sets < MaxOps /\ task[c] = Idle /\ (alone => \A d \in Clients : task[d] = Idle)
  /\ ops' = ops + 1 /\ task' = [task EXCEPT ![c] = [steps |-> steps, loaded |-> {}]]

(* spaces_create: a wiki registered at this path under this name is only     *)
(* completed; under another name it needs force, and gets a second entry.    *)
Create(c, n, p, force, default) ==
  LET at == {i \in DOMAIN file.wikis : file.wikis[i].path = p}
      first == CHOOSE i \in at : \A j \in at : i <= j
      register == [do |-> "register", name |-> n, path |-> p, force |-> force]
      mount == [do |-> "mount", name |-> n, path |-> p]
  IN /\ IF at # {} /\ file.wikis[first].name = n THEN Start(c, <<>>)
        ELSE /\ at = {} \/ force
             /\ Start(c, IF default THEN <<register, [do |-> "default", name |-> n], mount>>
                         ELSE <<register, mount>>)
     /\ dirs' = dirs \cup {p}
     /\ UNCHANGED <<alone, file, engine, mounted, strayed, settings>>

(* spaces_register: an existing directory, unless the name is taken.         *)
RegisterExisting(c, n, p) ==
  /\ p \in dirs
  /\ Start(c, IF n \in Registered(file) THEN <<>>
              ELSE <<[do |-> "register", name |-> n, path |-> p, force |-> FALSE],
                     [do |-> "mount", name |-> n, path |-> p]>>)
  /\ UNCHANGED <<alone, file, engine, mounted, dirs, strayed, settings>>

(* spaces_remove: unmount, then unregister and perhaps delete.               *)
Remove(c, n, delete) ==
  /\ Start(c, <<[do |-> "unmount", name |-> n], [do |-> "remove", name |-> n, delete |-> delete]>>)
  /\ UNCHANGED <<alone, file, engine, mounted, dirs, strayed, settings>>

(* spaces_set_default: the file, then the engine.                            *)
SetDefault(c, n) ==
  /\ Start(c, <<[do |-> "default", name |-> n], [do |-> "engineDefault", name |-> n]>>)
  /\ UNCHANGED <<alone, file, engine, mounted, dirs, strayed, settings>>

FileSteps == {"register", "remove", "default"}
Fails(s, f) ==
  CASE s.do = "register" -> s.name \in Registered(f) /\ ~s.force
    [] s.do = "remove"   -> f.default = s.name \/ s.name \notin Registered(f)
    [] s.do = "default"  -> s.name \notin Registered(f)
(* What register, remove and set_default_wiki save for the config they read. *)
Saved(s, f) ==
  CASE s.do = "default" -> [f EXCEPT !.default = s.name]
    [] s.do = "remove" ->
         LET i == CHOOSE i \in DOMAIN f.wikis : f.wikis[i].name = s.name /\ \A j \in 1..i-1 : f.wikis[j].name # s.name
         IN [f EXCEPT !.wikis = SubSeq(@, 1, i - 1) \o SubSeq(@, i + 1, Len(@))]
    [] s.do = "register" ->
         LET e == [name |-> s.name, path |-> s.path] IN
         IF s.name \in Registered(f)
         THEN [f EXCEPT !.wikis = [i \in DOMAIN @ |-> IF @[i].name = s.name THEN e ELSE @[i]]]
         ELSE [f EXCEPT !.wikis = Append(@, e)]

Now(c) == task[c].steps[1]
Done(c) == [task EXCEPT ![c] = [steps |-> Tail(task[c].steps), loaded |-> {}]]
Abort(c) == [task EXCEPT ![c] = Idle]

(* load_global, and the operation's checks.                                  *)
Load(c) ==
  /\ task[c].steps # <<>> /\ Now(c).do \in FileSteps /\ task[c].loaded = {}
  /\ task' = IF Fails(Now(c), file) THEN Abort(c) ELSE [task EXCEPT ![c] = [steps |-> task[c].steps, loaded |-> {file}]]
  /\ UNCHANGED <<alone, file, engine, mounted, dirs, ops, strayed, settings>>

(* save_global of the changed copy; a deleting removal removes the directory *)
(* before it saves.                                                          *)
Save(c) ==
  /\ task[c].steps # <<>>
  /\ \E f \in task[c].loaded :
       LET s == Now(c)
           gone == IF s.do = "remove" /\ s.delete THEN {PathOf(f, s.name)} ELSE {}
       IN dirs' = dirs \ gone /\ file' = Saved(s, f) /\ task' = Done(c)
  /\ UNCHANGED <<alone, engine, mounted, ops, strayed, settings>>

(* mount_wiki, unmount_wiki, set_default under the engine's write lock. The  *)
(* engine keeps the list of wikis it was built with.                         *)
InEngine(c) ==
  /\ task[c].steps # <<>>
  /\ LET s == Now(c) IN
     \/ /\ s.do = "mount"
        /\ mounted' = [n \in DOMAIN mounted \cup {s.name} |-> IF n = s.name THEN s.path ELSE mounted[n]]
        /\ task' = Done(c) /\ UNCHANGED engine
     \/ /\ s.do = "unmount"
        /\ IF engine.default = s.name \/ s.name \notin DOMAIN mounted
           THEN task' = Abort(c) /\ UNCHANGED mounted
           ELSE mounted' = [n \in DOMAIN mounted \ {s.name} |-> mounted[n]] /\ task' = Done(c)
        /\ UNCHANGED engine
     \/ /\ s.do = "engineDefault"
        /\ IF s.name \in DOMAIN mounted THEN engine' = [engine EXCEPT !.default = s.name] /\ task' = Done(c)
           ELSE task' = Abort(c) /\ UNCHANGED engine
        /\ UNCHANGED mounted
  /\ UNCHANGED <<alone, file, dirs, ops, strayed, settings>>

(* The process starts again: the engine mounts what the file registers.      *)
Restart ==
  /\ \A c \in Clients : task[c] = Idle
  /\ engine' = file /\ engine # file
  /\ mounted' = [n \in Registered(file) |-> PathOf(file, n)]
  /\ UNCHANGED <<alone, file, dirs, task, ops, strayed, settings>>

(* content_write of wiki://n/slug: WikiUri::resolve asks the config the      *)
(* engine was built with; a name it does not list is the first segment of a  *)
(* slug of the default wiki. The wiki found must be mounted.                 *)
Target(n) ==
  LET w == IF n \in Registered(engine) THEN n ELSE engine.default
  IN IF w \in Registered(engine) /\ w \in DOMAIN mounted THEN mounted[w] ELSE NoPath
Write(n) ==
  /\ Target(n) # NoPath
  /\ strayed' = (strayed \/ (n \in DOMAIN mounted /\ Target(n) # mounted[n]))
  /\ UNCHANGED <<alone, file, engine, mounted, dirs, task, ops, settings>>

(* config_set on the global file, or on the wiki's: a key of a section the   *)
(* wiki does not have yet brings the whole section with its defaults.        *)
SetGlobal(s, k, v) ==
  /\ cfg' = [cfg EXCEPT !.global[s][k] = v] /\ told' = [told EXCEPT !.global[s][k] = v]
SetWiki(s, k, v) ==
  /\ cfg' = [cfg EXCEPT !.wiki[s] = [(IF @ = Unset THEN [j \in Keys |-> 0] ELSE @) EXCEPT ![k] = v]]
  /\ told' = [told EXCEPT !.wiki[s][k] = v]
ConfigSet(s, k, v) ==
  /\ sets < MaxSets /\ ops + sets < MaxOps /\ sets' = sets + 1
  /\ SetGlobal(s, k, v) \/ SetWiki(s, k, v)
  /\ UNCHANGED <<alone, file, engine, mounted, dirs, task, ops, strayed>>

Next ==
  \/ \E c \in Clients, n \in Names, p \in Paths :
       RegisterExisting(c, n, p) \/ \E force, default \in BOOLEAN : Create(c, n, p, force, default)
  \/ \E c \in Clients, n \in Names : SetDefault(c, n) \/ \E delete \in BOOLEAN : Remove(c, n, delete)
  \/ \E c \in Clients : Load(c) \/ Save(c) \/ InEngine(c)
  \/ Restart
  \/ \E n \in Names : Write(n)
  \/ \E s \in Sections, k \in Keys : ConfigSet(s, k, 1)
Spec == Init /\ [][Next]_vars

(* Whatever saves overlap, the file names each wiki once and its default is  *)
(* one of them: spaces.rs register, remove, set_default_wiki.                *)
FileSound ==
  /\ \A i, j \in DOMAIN file.wikis : file.wikis[i].name = file.wikis[j].name => i = j
  /\ file.default \in Registered(file)

(* One client at a time, and between its operations: what is mounted is      *)
(* registered at that path, and the engine's default is never unmounted.     *)
Resting == \A c \in Clients : task[c] = Idle
EngineFollowsFile ==
  /\ alone /\ Resting => \A n \in DOMAIN mounted : n \in Registered(file) /\ mounted[n] = PathOf(file, n)
  /\ engine.default \in DOMAIN mounted

(* A key set for the wiki is what the wiki gets; one set in no wiki section  *)
(* comes from the global file.                                               *)
SettingsResolve ==
  \A s \in Sections, k \in Keys :
    /\ told.wiki[s][k] # 0 => ResolvedBy(cfg, s, k) = told.wiki[s][k]
    /\ (\A j \in Keys : told.wiki[s][j] = 0) => ResolvedBy(cfg, s, k) = told.global[s][k]

SpacesKept == FileSound /\ EngineFollowsFile /\ SettingsResolve

(* A page written to wiki://name/... of a mounted wiki lands in that wiki:   *)
(* the hot reload of ops/spaces.rs.                                          *)
WritesLand == ~strayed

(* Setting one key of a wiki leaves the others as the global file has them.  *)
OthersStay ==
  \A s \in Sections, k \in Keys :
    ResolvedBy(cfg, s, k) = IF told.wiki[s][k] # 0 THEN told.wiki[s][k] ELSE told.global[s][k]
=============================================================================
