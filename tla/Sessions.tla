------------------------------- MODULE Sessions -------------------------------
(* One session in a host: the live object of the bridge (host/src/bridge/      *)
(* session.rs), its copy in a session store (framework/src/session: memory,    *)
(* disk, scoped) and the store's clean-up of expired sessions.                 *)
EXTENDS Naturals

CONSTANTS
  Idle, Life, \* max_idle_secs and max_lifetime_secs
  MaxTime,    \* bound: seconds
  MaxTurns    \* bound: turns of one live object

VARIABLES
  kind,    \* the store: "memory" or "disk"
  named,   \* whether ids are found again: not if only the store scopes them
  careful, \* no save, load and clean-up overlap; no crash within a write
  now,
  live,    \* the bridge's session: its turns, last activity and creation
  stored,  \* the store's copy, its file time and whether it is whole
  writing, \* a disk write under way and what it writes
  loading, \* what a load has read and not inserted yet
  doomed,  \* whether the clean-up decided to delete the copy
  saved,   \* turns of the last save that ended
  lost     \* whether a clean-up deleted a copy that was not expired

sessVars == <<kind, named, careful, now, live, stored, writing, loading, doomed, saved, lost>>

None == [turns |-> 0, active |-> 0, created |-> 0, there |-> FALSE]
Session(n, a, c) == [turns |-> n, active |-> a, created |-> c, there |-> TRUE]
NoCopy == [session |-> None, mtime |-> 0, whole |-> TRUE]

Init ==
  /\ kind \in {"memory", "disk"} /\ named \in BOOLEAN /\ careful \in BOOLEAN
  /\ now = 0 /\ live = None /\ stored = NoCopy /\ writing = None /\ loading = None
  /\ doomed = FALSE /\ saved = 0 /\ lost = FALSE

Busy == writing.there \/ loading.there \/ doomed

MayBegin == careful => ~Busy

\* Messages are appended and the activity time is touched.
Turn ==
  /\ live.there /\ live.turns < MaxTurns
  /\ live' = [live EXCEPT !.turns = @ + 1, !.active = now]
  /\ UNCHANGED <<kind, named, careful, now, stored, writing, loading, doomed, saved, lost>>

\* serialize() takes what it can lock: history and metadata that a turn is
\* writing are left out, and with them the creation time.
Snapshot ==
  {live} \cup IF careful THEN {} ELSE {[live EXCEPT !.turns = 0], [live EXCEPT !.created = 0]}

SaveMemory ==
  /\ kind = "memory" /\ live.there /\ MayBegin
  /\ \E s \in Snapshot :
       /\ stored' = [session |-> s, mtime |-> now, whole |-> TRUE] /\ saved' = s.turns
  /\ UNCHANGED <<kind, named, careful, now, live, writing, loading, doomed, lost>>

\* fs::write empties the file before it fills it.
BeginWrite ==
  /\ kind = "disk" /\ live.there /\ ~writing.there /\ MayBegin
  /\ \E s \in Snapshot :
       /\ writing' = s
       /\ stored' = [session |-> s, mtime |-> now, whole |-> FALSE]
  /\ UNCHANGED <<kind, named, careful, now, live, loading, doomed, saved, lost>>

\* A file removed meanwhile stays removed: the open file has no name any more.
EndWrite ==
  /\ writing.there
  /\ stored' = IF stored.session.there
               THEN [session |-> writing, mtime |-> now, whole |-> TRUE] ELSE stored
  /\ saved' = writing.turns /\ writing' = None
  /\ UNCHANGED <<kind, named, careful, now, live, loading, doomed, lost>>

Readable(c) == c.session.there /\ c.whole /\ named

Fresh == Session(0, now, now)

\* load_or_create_session: a copy that is missing or broken gives a new session.
Read == IF Readable(stored) THEN stored.session ELSE Fresh

\* create_session reads, then inserts, whatever is live by then.
BeginLoad ==
  /\ ~loading.there /\ MayBegin
  /\ careful => ~live.there
  /\ loading' = Read
  /\ UNCHANGED <<kind, named, careful, now, live, stored, writing, doomed, saved, lost>>

EndLoad ==
  /\ loading.there
  /\ live' = loading /\ loading' = None
  /\ UNCHANGED <<kind, named, careful, now, stored, writing, doomed, saved, lost>>

\* get_or_create_raf_session does both under the write lock of the bridge.
GetOrCreate ==
  /\ ~live.there /\ MayBegin
  /\ live' = Read
  /\ UNCHANGED <<kind, named, careful, now, stored, writing, loading, doomed, saved, lost>>

RemoveLive ==
  /\ live.there
  /\ live' = None
  /\ UNCHANGED <<kind, named, careful, now, stored, writing, loading, doomed, saved, lost>>

DeleteStored ==
  /\ stored.session.there /\ named /\ MayBegin
  /\ stored' = NoCopy
  /\ UNCHANGED <<kind, named, careful, now, live, writing, loading, doomed, saved, lost>>

-----------------------------------------------------------------------------
(* cleanup_expired.                                                            *)

\* A mutant that deletes on the second itself.
ExpiredEarly(s) == now - s.active >= Idle \/ now - s.created >= Life

Expired(s) == now - s.active > Idle \/ now - s.created > Life

\* On disk a file written lately is passed over, and what cannot be parsed is
\* deleted with what has expired.
Condemned(c) ==
  /\ c.session.there
  /\ kind = "disk" => now - c.mtime >= Idle
  /\ ~c.whole \/ Expired(c.session)

InTime(s) == s.there /\ now <= s.active + Idle /\ now <= s.created + Life

Scan ==
  /\ ~doomed /\ MayBegin /\ Condemned(stored)
  /\ IF kind = "disk" THEN doomed' = TRUE /\ UNCHANGED <<stored, lost>>
     ELSE /\ stored' = NoCopy /\ UNCHANGED doomed
          /\ lost' = (lost \/ InTime(stored.session))
  /\ UNCHANGED <<kind, named, careful, now, live, writing, loading, saved>>

Remove ==
  /\ doomed
  /\ doomed' = FALSE /\ stored' = NoCopy
  /\ lost' = (lost \/ InTime(stored.session))
  /\ UNCHANGED <<kind, named, careful, now, live, writing, loading, saved>>

-----------------------------------------------------------------------------
\* The process ends: a memory store ends with it, a file stays as it is.
Crash ==
  /\ careful => ~writing.there
  /\ live' = None /\ writing' = None /\ loading' = None /\ doomed' = FALSE
  /\ stored' = IF kind = "memory" THEN NoCopy ELSE stored
  /\ UNCHANGED <<kind, named, careful, now, saved, lost>>

Second ==
  /\ now < MaxTime /\ now' = now + 1
  /\ UNCHANGED <<kind, named, careful, live, stored, writing, loading, doomed, saved, lost>>

Next ==
  \/ Turn \/ SaveMemory \/ BeginWrite \/ EndWrite \/ BeginLoad \/ EndLoad \/ GetOrCreate
  \/ RemoveLive \/ DeleteStored \/ Scan \/ Remove \/ Crash \/ Second

Spec == Init /\ [][Next]_sessVars

-----------------------------------------------------------------------------
\* A copy that was written to its end holds what that save was given, and a
\* session that is live again goes on from its copy.
TurnsRecovered ==
  careful /\ stored.session.there /\ ~writing.there =>
    /\ stored.whole /\ stored.session.turns = saved
    /\ live.there /\ named => live.turns >= saved

\* A clean-up that nothing overlaps deletes only what has expired.
CleanUpSpares == careful => ~lost

SessionsKept == TurnsRecovered /\ CleanUpSpares
===============================================================================
