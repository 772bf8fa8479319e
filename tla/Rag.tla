-------------------------------- MODULE Rag --------------------------------
(* Knowledge for an agent (crates/rag): a document is cut into chunks, by a  *)
(* window that looks for a separator near its end or by paragraphs, and a    *)
(* provider indexes its source at the first question of any run and answers  *)
(* each question with the best chunks.  A text is a sequence of bytes: "n" a *)
(* line feed, "_" a blank, "." a stop, "W" and "c" the two bytes of a wide   *)
(* character.  Offsets count bytes, from zero.  The bytes a window may be    *)
(* split at are those of the separators; "!" and "?" are like ".".           *)
EXTENDS Naturals, SequencesExt, FiniteSets, FiniteSetsExt
CONSTANTS
  Texts,     \* the documents
  Sizes,     \* chunk_size, max_chunk_size
  Overlaps,  \* chunk_overlap
  Score,     \* the files of the source: similarity to the question
  Askers,    \* runs of the agent that share the provider
  TopK, MaxEdits
VARIABLES
  unit,    \* what this behaviour does: "window", "paragraphs" or "provider"
  text, size, overlap,
  status,  \* "cutting", "done" or "panicked"
  start,   \* window: start; paragraphs: current_start
  current, \* paragraphs: the chunk being filled
  next,    \* paragraphs: the next one
  chunks,  \* [start, end, text]
  single,  \* the source is a file, not a directory
  version, \* of each file, or 0 while it cannot be read as text
  steady,  \* files that could be read ever since the build began
  builder, \* the asker that initialises the cell, or "none"
  left,    \* files the builder has not come to
  partial, \* the store the builder fills: file to version
  cell,    \* OnceCell: whether it is set, and the store
  asker,   \* asker to "idle", "waiting", "error" or "told"
  told     \* what it was told
textVars == <<text, size, overlap, status, start, current, next, chunks>>
indexVars == <<single, version, steady, builder, left, partial, cell, asker, told>>
vars == <<unit, textVars, indexVars>>

Files == DOMAIN Score
Init ==
  /\ \/ /\ unit \in {"window", "paragraphs"}
        /\ text \in Texts /\ size \in Sizes
        /\ overlap \in (IF unit = "window" THEN Overlaps ELSE {0})
        /\ status = "cutting" /\ single = FALSE /\ version = [f \in Files |-> 0]
     \/ /\ unit = "provider"
        /\ text = <<>> /\ size = 0 /\ overlap = 0 /\ status = "done"
        /\ single \in BOOLEAN /\ version \in [Files -> {0, 1}]
  /\ start = 0 /\ current = <<>> /\ next = 1 /\ chunks = <<>>
  /\ builder = "none" /\ left = {} /\ partial = <<>> /\ steady = {}
  /\ cell = [set |-> FALSE, store |-> <<>>]
  /\ asker = [a \in Askers |-> "idle"] /\ told = [a \in Askers |-> <<>>]

----------------------------------------------------------------------------
(* RecursiveCharacterChunker.  A slice that does not start and end at the    *)
(* border of a character panics.                                             *)
Minus(a, b) == IF a > b THEN a - b ELSE 0
Border(i) == i = Len(text) \/ text[i + 1] # "c"
Slice(a, b) == SubSeq(text, a + 1, b)
Separators == <<<<"n", "n">>, <<"n">>, <<".">>, <<"_">>>>
Ends(sep, target) == {p \in Len(sep)..target : Slice(p - Len(sep), p) = sep}
Near(target) == Minus(target, size \div 4)
SplitPoint(target) ==
  LET fits == {i \in DOMAIN Separators :
                 LET ends == Ends(Separators[i], target) IN ends # {} /\ Max(ends) > Near(target)}
  IN  IF fits = {} THEN target ELSE Max(Ends(Separators[Min(fits)], target))

Window ==
  /\ unit = "window" /\ status = "cutting" /\ text # <<>>
  /\ Len(chunks) <= Len(text)  \* a bound for windows that stay where they are
  /\ LET whole == start + size >= Len(text)
         end == IF whole THEN Len(text) ELSE SplitPoint(start + size)
     IN  IF ~Border(start) \/ (~whole /\ ~Border(start + size))
         THEN status' = "panicked" /\ UNCHANGED <<start, chunks>>
         ELSE /\ chunks' = Append(chunks, [start |-> start, end |-> end, text |-> Slice(start, end)])
              /\ status' = IF end >= Len(text) THEN "done" ELSE "cutting"
              /\ start' = IF end >= Len(text) THEN start ELSE Minus(end, overlap)
  /\ UNCHANGED <<unit, text, size, overlap, current, next, indexVars>>

----------------------------------------------------------------------------
(* SemanticChunker: blank paragraphs are left out, the others are joined     *)
(* again; where a chunk starts is searched for from the end of the last one. *)
Paragraphs(t) ==
  LET n == Len(t)
      cut == FoldLeft(LAMBDA acc, i :
                 IF i >= acc.from /\ SubSeq(t, i, i + 1) = <<"n", "n">>
                 THEN [from |-> i + 2, out |-> Append(acc.out, SubSeq(t, acc.from, i - 1))]
                 ELSE acc,
               [from |-> 1, out |-> <<>>], [i \in 1..Minus(n, 1) |-> i])
  IN  Append(cut.out, SubSeq(t, cut.from, n))
Blank(p) == ToSet(p) \subseteq {"n", "_"}
Joined(a, b) == IF a = <<>> THEN b ELSE a \o <<"n", "n">> \o b
Found(p, from) == {i \in from..Len(text) : i + Len(p) <= Len(text) /\ Slice(i, i + Len(p)) = p}
Closed(t, at) == [start |-> at, end |-> at + Len(t), text |-> t]

Paragraph ==
  /\ unit = "paragraphs" /\ status = "cutting" /\ next <= Len(Paragraphs(text))
  /\ next' = next + 1
  /\ LET p == Paragraphs(text)[next]
         full == Len(current) + Len(p) + 2 > size /\ current # <<>>
         from == IF full THEN start + Len(current) ELSE start
         fresh == full \/ current = <<>>
     IN  IF Blank(p) THEN UNCHANGED <<status, start, current, chunks>>
         ELSE /\ chunks' = IF full THEN Append(chunks, Closed(current, start)) ELSE chunks
              /\ IF fresh /\ ~Border(from)
                 THEN status' = "panicked" /\ UNCHANGED <<start, current>>
                 ELSE /\ start' = IF ~fresh THEN start
                                  ELSE IF Found(p, from) = {} THEN 0 ELSE Min(Found(p, from))
                      /\ current' = Joined(IF fresh THEN <<>> ELSE current, p)
                      /\ UNCHANGED status
  /\ UNCHANGED <<unit, text, size, overlap, indexVars>>

Finish ==
  /\ status = "cutting"
  /\ \/ unit = "window" /\ text = <<>> /\ UNCHANGED chunks
     \/ /\ unit = "paragraphs" /\ next > Len(Paragraphs(text))
        /\ chunks' = IF current = <<>> THEN chunks ELSE Append(chunks, Closed(current, start))
  /\ status' = "done"
  /\ UNCHANGED <<unit, text, size, overlap, start, current, next, indexVars>>

----------------------------------------------------------------------------
(* RagContextProvider: the first asker builds the index inside a OnceCell,   *)
(* the others wait for it; when it fails or its run is dropped the next one  *)
(* builds from nothing.  A file of a directory that cannot be read is left   *)
(* out, a single file that cannot be read is an error.                       *)
Ask(a) ==
  /\ asker[a] = "idle"
  /\ asker' = [asker EXCEPT ![a] = "waiting"]
  /\ UNCHANGED <<version, steady, builder, left, partial, cell, told>>
Build(a) ==
  /\ asker[a] = "waiting" /\ ~cell.set /\ builder = "none"
  /\ builder' = a /\ partial' = <<>>
  /\ left' = IF single THEN {CHOOSE f \in Files : TRUE} ELSE Files
  /\ steady' = {f \in left' : version[f] # 0}
  /\ UNCHANGED <<version, cell, asker, told>>
Load(f) ==
  /\ builder # "none" /\ f \in left
  /\ left' = left \ {f}
  /\ IF version[f] = 0 /\ single
     THEN builder' = "none" /\ asker' = [asker EXCEPT ![builder] = "error"] /\ UNCHANGED partial
     ELSE /\ partial' = IF version[f] = 0 THEN partial ELSE (f :> version[f]) @@ partial
          /\ UNCHANGED <<builder, asker>>
  /\ UNCHANGED <<version, steady, cell, told>>
Built ==
  /\ builder # "none" /\ left = {}
  /\ cell' = [set |-> TRUE, store |-> partial] /\ builder' = "none"
  /\ UNCHANGED <<version, steady, left, partial, asker, told>>
Dropped(a) ==
  /\ asker[a] = "waiting"
  /\ asker' = [asker EXCEPT ![a] = "idle"]
  /\ builder' = IF builder = a THEN "none" ELSE builder
  /\ UNCHANGED <<version, steady, left, partial, cell, told>>
(* search: by descending similarity, the first of equals first.              *)
Held == DOMAIN cell.store
Best(order) == SubSeq(SortSeq(order, LAMBDA f, g : Score[f] > Score[g]), 1,
                      IF Len(order) < TopK THEN Len(order) ELSE TopK)
Answer(a) ==
  /\ asker[a] = "waiting" /\ cell.set
  /\ asker' = [asker EXCEPT ![a] = "told"]
  /\ \E order \in SetToSeqs(Held) : told' = [told EXCEPT ![a] = Best(order)]
  /\ UNCHANGED <<version, steady, builder, left, partial, cell>>
Edit(f) ==
  /\ \E v \in 0..MaxEdits : v # version[f] /\ version' = [version EXCEPT ![f] = v]
  /\ steady' = IF builder # "none" /\ version'[f] = 0 THEN steady \ {f} ELSE steady
  /\ UNCHANGED <<builder, left, partial, cell, asker, told>>
Provider ==
  /\ unit = "provider"
  /\ \/ \E a \in Askers : Ask(a) \/ Build(a) \/ Dropped(a) \/ Answer(a)
     \/ \E f \in Files : Load(f) \/ Edit(f)
     \/ Built
  /\ UNCHANGED <<unit, textVars, single>>

Next == Window \/ Paragraph \/ Finish \/ Provider
Spec == Init /\ [][Next]_vars

----------------------------------------------------------------------------
Narrow == "W" \notin ToSet(text)
\* A window comes forward whatever separator it is split at, if chunks overlap
\* by at most three quarters; each byte is in a chunk, no chunk is too long, and
\* neighbours share what they were asked to share.
WindowsCover ==
  unit = "window" /\ Narrow /\ overlap <= size - size \div 4 =>
    /\ status # "panicked"
    /\ \A i \in DOMAIN chunks :
         /\ chunks[i].end - chunks[i].start \in 1..size
         /\ i = 1 => chunks[i].start = 0
         /\ i > 1 => /\ chunks[i].start > chunks[i - 1].start
                     /\ chunks[i - 1].end - chunks[i].start = overlap
    /\ status = "done" /\ chunks # <<>> => chunks[Len(chunks)].end = Len(text)
    /\ status = "done" => (chunks = <<>> <=> text = <<>>)

\* Paragraphs stay whole and in order, none is told twice or left out, and a
\* chunk grows past its size only for one paragraph; where no paragraph is
\* blank a chunk is what the text has between its offsets.
Spoken == SelectSeq(Paragraphs(text), LAMBDA p : ~Blank(p))
ParagraphsKept ==
  unit = "paragraphs" =>
    /\ Narrow => status # "panicked"
    /\ status = "done" =>
         FoldLeft(Joined, <<>>, [i \in DOMAIN chunks |-> chunks[i].text]) = FoldLeft(Joined, <<>>, Spoken)
    /\ \A i \in DOMAIN chunks :
         /\ Len(chunks[i].text) <= size \/ chunks[i].text \in ToSet(Spoken)
         /\ i > 1 => chunks[i].start >= chunks[i - 1].end
         /\ Spoken = Paragraphs(text) => chunks[i].text = Slice(chunks[i].start, chunks[i].end)

\* Whoever builds, fails or goes away, an index that askers see holds every file
\* that could be read all along; an asker is told the best of it, best first.
IndexWhole ==
  unit = "provider" =>
    /\ cell.set => steady \subseteq Held
    /\ \A a \in Askers : asker[a] = "told" =>
         /\ cell.set
         /\ Cardinality(ToSet(told[a])) = Min({TopK, Cardinality(Held)})
         /\ \A f \in Held \ ToSet(told[a]), g \in ToSet(told[a]) : Score[g] >= Score[f]
         /\ \A i \in 2..Len(told[a]) : Score[told[a][i]] <= Score[told[a][i - 1]]

KnowledgeFound == WindowsCover /\ ParagraphsKept /\ IndexWhole
=============================================================================
