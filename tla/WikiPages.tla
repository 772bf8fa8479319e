----------------------------- MODULE WikiPages -----------------------------
(* The pages of a wiki as files: a page is flat (slug.md) or a bundle        *)
(* (slug/index.md), and a slug is resolved to the flat one first.  Writing,  *)
(* creating, promoting and deleting are calls on a shared read lock, so an   *)
(* ingest, which reads, redacts and writes back file by file, overlaps them. *)
EXTENDS Naturals, SequencesExt, FiniteSets
CONSTANTS
  Slugs,     \* the slugs callers use: sequences of names other than "index"
  Contents,  \* the pages they write
  MaxOps     \* the calls of a behaviour
VARIABLES
  files,  \* from paths (without .md) to contents
  dirs,   \* the directories below the root
  walk,   \* the ingest that is running
  book,   \* what the callers believe is written where
  undone, \* <<slug, content>>: what an ingest read and may write over a later call
  twice,  \* slugs that came to be a flat page and a bundle, and are still there
  ops
vars == <<files, dirs, walk, book, undone, twice, ops>>

Idle == [todo |-> {}, read |-> <<>>, seen |-> {}, redact |-> FALSE, state |-> "idle"]
Stub == [fields |-> TRUE, body |-> "short", conf |-> "high", archived |-> FALSE,
         secret |-> "none", front |-> TRUE, valid |-> TRUE]

Bundle(s) == Append(s, "index")
Parents(s) == {SubSeq(s, 1, i) : i \in 1..(Len(s) - 1)}
Above(s) == {p \in Parents(s) : p \notin dirs}

(* Slug::from_path and Slug::resolve. *)
SlugOf(p) == IF p[Len(p)] = "index" THEN Front(p) ELSE p
Readable(s) == s \in DOMAIN files \/ Bundle(s) \in DOMAIN files
PathOf(s) == IF s \in DOMAIN files THEN s ELSE Bundle(s)

Put(f, p, c) == [q \in DOMAIN f \cup {p} |-> IF q = p THEN c ELSE f[q]]
PutAll(f, ps, c) == [q \in DOMAIN f \cup ps |-> IF q \in ps THEN c ELSE f[q]]

(* The write gate: characters two slugs share, then the rules in their order. *)
Letters(s) ==
  UNION {IF s[i] = "index" THEN {"i", "n", "d", "e", "x"} ELSE {s[i]} : i \in 1..Len(s)}
    \cup (IF Len(s) > 1 THEN {"/"} ELSE {})
Similar(s, t) ==
  10 * Cardinality(Letters(s) \cap Letters(t)) >= 9 * Cardinality(Letters(s) \cup Letters(t))
Gate(s, c) ==
  IF ~c.fields \/ c.body = "short" \/ c.conf = "low" THEN "reject"
  ELSE IF \/ c.conf = "middling"
          \/ \E t \in DOMAIN files : t # s /\ t # <<"index">> /\ Similar(s, t) THEN "review"
  ELSE IF c.archived THEN "reject" ELSE "accept"

Init == /\ files = <<>> /\ dirs = {} /\ walk = Idle
        /\ book = <<>> /\ undone = {} /\ twice = {} /\ ops = 0

(* A call that comes between the read and the write of an ingest is undone   *)
(* by it; the next call on the slug settles what it reads.                   *)
Redacted(c) ==
  IF c.secret = "body" \/ (c.secret = "front" /\ ~c.front)
    THEN [c EXCEPT !.secret = "none"] ELSE c
Changes == walk.state = "read" /\ walk.redact /\ Redacted(walk.read[2]) # walk.read[2]
Settle(slugs) ==
  LET held == IF Changes THEN {<<SlugOf(walk.read[1]), Redacted(walk.read[2])>>} ELSE {}
  IN undone' = {u \in undone : u[1] \notin slugs} \cup {h \in held : h[1] \in slugs}

\* A mutant that writes the flat file though the page is a bundle.
WrittenToFlat(s) == s
WrittenTo(s) == IF Readable(s) THEN PathOf(s) ELSE s
Written(s, c) ==
  /\ files' = Put(files, WrittenTo(s), c)
  /\ dirs' = IF Readable(s) THEN dirs ELSE dirs \cup Parents(s)
  /\ book' = Put(book, s, c)
  /\ Settle({s})
  /\ walk' = [walk EXCEPT !.seen = @ \ {WrittenTo(s)}]
Call == ops < MaxOps /\ ops' = ops + 1

Write(s, c) == Call /\ Written(s, c)
WriteGated(s, c) ==
  /\ Call
  /\ \/ Gate(s, c) \in {"accept", "review"} /\ Written(s, c)
     \/ Gate(s, c) = "reject" /\ UNCHANGED <<files, dirs, walk, book, undone>>

(* create_page and create_section: stubs for the parents without a directory, *)
(* then the page itself, whatever stands there.                               *)
New(s, bundle) ==
  LET p == IF bundle THEN Bundle(s) ELSE s
      stubs == {Bundle(a) : a \in Above(s)}
  IN /\ files' = Put(PutAll(files, stubs, Stub), p, Stub)
     /\ dirs' = dirs \cup Parents(s) \cup (IF bundle THEN {s} ELSE {})
     /\ book' = Put(PutAll(book, Above(s), Stub), s, Stub)
     /\ Settle(Above(s) \cup {s})
     /\ walk' = [walk EXCEPT !.seen = @ \ ({p} \cup stubs)]
CreatePage(s, bundle) == Call /\ New(s, bundle)
CreateSection(s) ==
  /\ Call
  /\ files' = Put(files, Bundle(s), Stub)
  /\ dirs' = dirs \cup Parents(s) \cup {s}
  /\ book' = Put(book, s, Stub)
  /\ Settle({s})
  /\ walk' = [walk EXCEPT !.seen = @ \ {Bundle(s)}]

Promote(s) ==
  /\ Call /\ s \in DOMAIN files
  /\ files' = Put(Restrict(files, DOMAIN files \ {s}), Bundle(s), files[s])
  /\ dirs' = dirs \cup Parents(s) \cup {s}
  /\ walk' = [walk EXCEPT !.seen = @ \ {Bundle(s)}]
  /\ UNCHANGED <<book, undone>>

Removed(s) ==
  IF s \in DOMAIN files THEN {s} ELSE {p \in DOMAIN files : IsStrictPrefix(s, p)}
Delete(s) ==
  /\ Call /\ Readable(s)
  /\ files' = Restrict(files, DOMAIN files \ Removed(s))
  /\ dirs' = IF s \in DOMAIN files THEN dirs ELSE {d \in dirs : ~IsPrefix(s, d)}
  /\ LET gone == IF s \in DOMAIN files THEN {s} ELSE {t \in Slugs : IsPrefix(s, t)}
     IN book' = Restrict(book, DOMAIN book \ gone) /\ Settle(gone)
  /\ UNCHANGED walk

(* An ingest walks the files it finds, reads one, writes it back without its  *)
(* secrets, validates it, and gives up at the first page that strict          *)
(* validation refuses.  A dry run redacts as well.                            *)
IngestBegins(redact) ==
  /\ Call /\ walk.state \in {"idle", "ok", "failed"}
  /\ walk' = [Idle EXCEPT !.todo = DOMAIN files, !.redact = redact, !.state = "next"]
  /\ UNCHANGED <<files, dirs, book, undone>>
IngestReads(p) ==
  /\ walk.state = "next" /\ p \in walk.todo /\ p \in DOMAIN files
  /\ walk' = [walk EXCEPT !.state = "read", !.todo = @ \ {p},
                !.read = <<p, files[p]>>, !.seen = @ \cup {p}]
  /\ UNCHANGED <<files, dirs, book, undone, ops>>
IngestMisses(p) ==
  /\ walk.state = "next" /\ p \in walk.todo \ DOMAIN files
  /\ walk' = [walk EXCEPT !.todo = @ \ {p}]
  /\ UNCHANGED <<files, dirs, book, undone, ops>>
IngestWrites ==
  LET p == walk.read[1]
      c == walk.read[2]
  IN /\ walk.state = "read"
     /\ \/ ~Changes /\ UNCHANGED <<files, dirs>>
        \/ /\ Changes /\ (p \in DOMAIN files \/ Front(p) \in dirs \/ Len(p) = 1)
           /\ files' = Put(files, p, Redacted(c)) /\ UNCHANGED dirs
     /\ walk' = [walk EXCEPT !.read = <<>>,
                   !.state = IF c.front /\ ~c.valid THEN "failed" ELSE "next"]
     /\ UNCHANGED <<book, undone, ops>>
(* The directory of the file that was read is gone: the write fails. *)
IngestFails ==
  LET p == walk.read[1] IN
  /\ Changes
  /\ p \notin DOMAIN files /\ Len(p) > 1 /\ Front(p) \notin dirs
  /\ walk' = [walk EXCEPT !.state = "failed", !.read = <<>>, !.seen = @ \ {p}]
  /\ UNCHANGED <<files, dirs, book, undone, ops>>
IngestEnds ==
  /\ walk.state = "next" /\ walk.todo = {}
  /\ walk' = [walk EXCEPT !.state = "ok"]
  /\ UNCHANGED <<files, dirs, book, undone, ops>>

(* A page becomes two files when it is created where one is, or when an      *)
(* ingest writes back the flat file of one that was promoted.                *)
Still == {s \in twice : Readable(s)'}
Both == {s \in Slugs : {s, Bundle(s)} \subseteq DOMAIN files}
Next ==
  \/ /\ \/ \E s \in Slugs, b \in BOOLEAN : CreatePage(s, b)
        \/ \E s \in Slugs : CreateSection(s)
        \/ IngestWrites
     /\ twice' = Still \cup Both'
  \/ /\ \/ \E s \in Slugs, c \in Contents : Write(s, c) \/ WriteGated(s, c)
        \/ \E s \in Slugs : Promote(s) \/ Delete(s)
        \/ \E b \in BOOLEAN : IngestBegins(b)
        \/ \E p \in walk.todo : IngestReads(p) \/ IngestMisses(p)
        \/ IngestFails \/ IngestEnds
     /\ twice' = Still
Spec == Init /\ [][Next]_vars

(* Every slug that is not two files at once reads what was last written to    *)
(* it, but for its secrets, or, if that was written while an ingest held the  *)
(* page, what the ingest had read; a page that was deleted comes back in this *)
(* way only (slug.rs, markdown.rs, ingest.rs).                                *)
BookKept ==
  /\ \A s \in DOMAIN book \ twice :
       /\ Readable(s)
       /\ LET c == Redacted(files[PathOf(s)]) IN c = Redacted(book[s]) \/ <<s, c>> \in undone
  /\ \A p \in DOMAIN files : LET s == SlugOf(p) IN
       s \in DOMAIN book \cup twice \/ <<s, files[p]>> \in undone

(* A page that an ingest with redaction has gone through, and nobody has      *)
(* written since, has no secret the patterns know outside its frontmatter.    *)
SecretsGone ==
  walk.redact /\ walk.state # "read" =>
    \A p \in walk.seen \cap DOMAIN files :
       files[p].secret = "none" \/ (files[p].secret = "front" /\ files[p].front)
PagesKept == BookKept /\ SecretsGone
=============================================================================
