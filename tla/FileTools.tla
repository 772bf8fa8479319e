------------------------------- MODULE FileTools -------------------------------
(* The file tools of an agent: framework/src/tools. A path is the sequence of  *)
(* its components from the root; the tree is a set of directories and a        *)
(* function from the files to how often the text of an edit occurs in them.    *)
(* There may be one link, which leads into the workspace, out of it, or to     *)
(* nothing there yet.  DenyOutside never decides for the file tools: a path    *)
(* outside the workspace is refused earlier.                                   *)
EXTENDS Naturals, FiniteSets, Sequences, SequencesExt

CONSTANTS Names,      \* components a request may use
          MaxSteps,   \* components of a request
          MaxDepth,   \* components of a path the model follows
          MaxLines,   \* lines of the file that is read page by page
          MaxJobs     \* shell commands

VARIABLES
  dirs, files,
  link,  \* where the link in the workspace leads; no link is <<>>
  home, jobs,
  strays \* files outside the workspace that commands wrote (history)

vars == <<dirs, files, link, home, jobs, strays>>

Base == <<"w">>
Outside == <<"o">>
LinkAt == Append(Base, "b")
LinkTargets == {Append(Base, "a"), Outside, Append(Outside, "y")}
Counts == {1, 2}
Nodes == dirs \cup DOMAIN files
Under(p, q) == IsPrefix(q, p)
Requests == {Base \o s : s \in UNION {[1 .. n -> Names \cup {".."}] : n \in 0 .. MaxSteps}} \cup {Outside}

\* A path with the link followed; the link's target holds no link.
Real(p) == IF link # <<>> /\ Under(p, LinkAt) THEN link \o SubSeq(p, Len(LinkAt) + 1, Len(p)) ELSE p

\* The paths a walk of the request passes through; above the root is the root.
Walk(q, follows) ==
    LET at[n \in 0 .. Len(q)] ==
            IF n = 0 THEN <<>>
            ELSE IF q[n] # ".." THEN LET p == Append(at[n - 1], q[n]) IN IF follows THEN Real(p) ELSE p
            ELSE IF at[n - 1] = <<>> THEN <<>> ELSE Front(at[n - 1])
    IN  at

\* The operating system follows the link, and takes every step from a directory to
\* something that exists.
Canonical(q) ==
    LET at == Walk(q, TRUE)
    IN  [at |-> at[Len(q)], ok |-> \A n \in 1 .. Len(q) : at[n - 1] \in dirs /\ at[n] \in Nodes]

\* The textual walk needs nothing to exist but cannot go above the root.
Normalize(q) ==
    LET at == Walk(q, FALSE)
    IN  [at |-> at[Len(q)], ok |-> \A n \in 1 .. Len(q) : q[n] = ".." => at[n - 1] # <<>>]

ResolveSafe(q) == LET c == Canonical(q) IN [c EXCEPT !.ok = c.ok /\ Under(c.at, Base)]

\* The nearest ancestor that exists; a link to nothing does not.
Ancestor(p) ==
    LET lengths == {n \in 0 .. Len(p) : Canonical(SubSeq(p, 1, n)).ok}
    IN  Canonical(SubSeq(p, 1, CHOOSE n \in lengths : \A k \in lengths : k <= n)).at

\* Plausible bug: the textual path is compared with the workspace, not what it leads to.
ResolveSafeNewLax(q) == LET t == Normalize(q) IN [t EXCEPT !.ok = t.ok /\ Under(t.at, Base)]

\* A path that exists becomes canonical, one that does not is left as its text.
ResolveSafeNew(q) ==
    LET t == Normalize(q)
        c == Canonical(t.at)
    IN  IF c.ok THEN [at |-> c.at, ok |-> t.ok /\ Under(c.at, Base)]
        ELSE [t EXCEPT !.ok = t.ok /\ Under(Ancestor(t.at), Base)]

\* Where the requests lead that are not refused: all that a tool comes to see of them.
Resolved == {ResolveSafe(q).at : q \in {r \in Requests : ResolveSafe(r).ok}}
ResolvedNew == {ResolveSafeNew(q).at : q \in {r \in Requests : ResolveSafeNew(r).ok}}

\* create_dir_all: fails where a component is a file, or a link to no directory, and
\* then creates nothing.
CanMake(p) ==
    /\ \A n \in 0 .. Len(p) : Real(SubSeq(p, 1, n)) \notin DOMAIN files
    /\ link # <<>> /\ Under(p, LinkAt) => link \in dirs
Made(p) == dirs \cup {SubSeq(Real(p), 1, n) : n \in 0 .. Len(Real(p))}
Without(p) == {x \in DOMAIN files : ~Under(x, p)}
Put(p, c) == [x \in DOMAIN files \cup {p} |-> IF x = p THEN c ELSE files[x]]

Init ==
    /\ dirs = {<<>>, Base, Outside}
    /\ files = [p \in {Append(Outside, "x")} |-> 1]
    /\ \/ home \in {Outside, Append(Base, "a")} /\ link = <<>>
       \/ home = Outside /\ link \in LinkTargets
    /\ jobs = {} /\ strays = {}

Shallow(p) == Len(p) <= MaxDepth

\* What is written through a link to nothing appears where the link leads.
WriteFile(p, c) ==
    /\ CanMake(Front(p))
    /\ dirs' = Made(Front(p))
    /\ IF Real(p) \in dirs THEN UNCHANGED files ELSE files' = Put(Real(p), c)
    /\ UNCHANGED <<link, home, jobs, strays>>

\* The text must occur once; the text that replaces it may hold any number of copies.
EditFile(p, c) ==
    /\ p \in DOMAIN files
    /\ files[p] = 1
    /\ files' = [files EXCEPT ![p] = c]
    /\ UNCHANGED <<dirs, link, home, jobs, strays>>

MakeDirectory(p) ==
    /\ CanMake(p)
    /\ dirs' = Made(p)
    /\ UNCHANGED <<files, link, home, jobs, strays>>

\* The parents of the destination are made before anything else can fail.  A rename
\* does not follow a link it falls on: a file takes its place, a directory cannot.
MoveFile(f, d) ==
    LET made == Made(Front(d))
        onLink == link # <<>> /\ d = LinkAt
        to == Append(Real(Front(d)), Last(d))
        refused == Real(d) \in Nodes \cup made \/ Under(to, f) \/ (onLink /\ f \in dirs)
        Moved(p) == to \o SubSeq(p, Len(f) + 1, Len(p))
        taken == {p \in DOMAIN files : Under(p, f)}
    IN
    /\ CanMake(Front(d))
    /\ \/ /\ refused
          /\ dirs' = made
          /\ UNCHANGED <<files, link>>
       \/ /\ ~refused
          /\ \A p \in Nodes : Under(p, f) => Shallow(Moved(p))
          /\ dirs' = {p \in made : ~Under(p, f)} \cup {Moved(p) : p \in {x \in made : Under(x, f)}}
          /\ files' = [p \in Without(f) \cup {Moved(x) : x \in taken} |->
                          IF p \in Without(f) THEN files[p]
                          ELSE files[CHOOSE x \in taken : Moved(x) = p]]
          /\ link' = IF onLink THEN <<>> ELSE link
    /\ UNCHANGED <<home, jobs, strays>>

\* The workspace itself, the root's and the home directory's entries are refused.
Critical(p) ==
    \/ p = Base
    \/ Len(p) <= 1
    \/ home # Base /\ Under(p, home) /\ Len(p) <= Len(home) + 1

RemovePath(p) ==
    /\ ~Critical(p)
    /\ dirs' = {x \in dirs : ~Under(x, p)}
    /\ files' = [x \in Without(p) |-> files[x]]
    /\ UNCHANGED <<link, home, jobs, strays>>

\* A page of a file: the lines after start_idx up to end_idx of read_file.
StartIdx(lines, offset) ==
    LET first == IF offset < 1 THEN 1 ELSE offset
    IN  IF first - 1 > lines THEN lines ELSE first - 1
EndIdx(lines, from, limit) == IF limit > 0 /\ from + limit < lines THEN from + limit ELSE lines

\* Lines shown by reading on at the line after the last one while the answer says truncated.
\* A line is cut at a byte: where that is inside a character (it is torn), the call panics.
Shown(lines, limit, torn) ==
    LET upTo[offset \in 1 .. lines + 2] ==
            LET from == StartIdx(lines, offset)
                to == EndIdx(lines, from, limit)
                page == [i \in 1 .. (to - from) |-> from + i]
            IN  IF \E i \in DOMAIN page : page[i] \in torn THEN <<>>
                ELSE IF to < lines THEN page \o upTo[to + 1] ELSE page
    IN  upTo[1]

\* What is left of an output: its end when it is summarised, its beginning otherwise.
SmartTruncate(data, max) == IF Len(data) <= max THEN data ELSE SubSeq(data, Len(data) - max + 1, Len(data))
HardTruncate(data, max) == IF Len(data) <= max THEN data ELSE SubSeq(data, 1, max)

\* A shell command with the caller's time-out: the blocking task is not stopped by it.
\* Its directory need not be in the workspace: what resolve_safe refuses is only
\* labelled "none", and runs.
RunCommand(q) ==
    /\ Cardinality(jobs) < MaxJobs
    /\ Canonical(q).ok /\ Canonical(q).at \in dirs
    /\ jobs' = jobs \cup {[at |-> Canonical(q).at, heard |-> TRUE]}
    /\ UNCHANGED <<dirs, files, link, home, strays>>
TimesOut(j) ==
    /\ j.heard
    /\ jobs' = (jobs \ {j}) \cup {[j EXCEPT !.heard = FALSE]}
    /\ UNCHANGED <<dirs, files, link, home, strays>>
\* The command writes a file in its directory, which holds the text once.
CommandEnds(j) ==
    LET p == Real(Append(j.at, "a")) IN
    /\ jobs' = jobs \ {j}
    /\ IF j.at \in dirs /\ Front(p) \in dirs /\ p \notin dirs /\ Shallow(p)
       THEN /\ files' = Put(p, 1)
            /\ strays' = IF Under(p, Base) THEN strays ELSE strays \cup {p}
       ELSE UNCHANGED <<files, strays>>
    /\ UNCHANGED <<dirs, link, home>>

Next ==
    \/ \E old \in {Resolved}, new \in {ResolvedNew} :
         \/ \E p \in old : (\E c \in Counts : EditFile(p, c)) \/ RemovePath(p) \/ \E d \in new : MoveFile(p, d)
         \/ \E p \in new : (\E c \in Counts : WriteFile(p, c)) \/ MakeDirectory(p)
    \/ \E q \in {Append(Base, n) : n \in Names} \cup {Outside} : RunCommand(q)
    \/ \E j \in jobs : TimesOut(j) \/ CommandEnds(j)

Spec == Init /\ [][Next]_vars

-------------------------------------------------------------------------------
\* Every entry sits in a directory, nothing is a file and a directory, and the
\* workspace is still there whatever was moved or removed.
TreeSound ==
    /\ {<<>>, Base} \subseteq dirs
    /\ dirs \cap DOMAIN files = {}
    /\ \A p \in Nodes \ {<<>>} : Front(p) \in dirs

\* What lies outside the workspace is as it was: path_guard.rs decides for every file
\* tool.  It does not decide for commands, and a link to nothing outside lets one file
\* be written where it leads; that is all.
OutsideKept ==
    /\ {p \in dirs : ~Under(p, Base)} = {<<>>, Outside}
    /\ {p \in DOMAIN files : ~Under(p, Base)} \ (strays \cup LinkTargets) = {Append(Outside, "x")}
    /\ files[Append(Outside, "x")] = 1

\* A file read page by page shows each of its lines once, in order, whatever the page's
\* size, up to the first page with a torn line; a truncated output is an end or a
\* beginning of the whole one.
PagesInOrder ==
    \A lines, limit \in 0 .. MaxLines :
        LET all == [i \in 1 .. lines |-> i] IN
        /\ \A torn \in SUBSET (1 .. lines) :
             LET first == CHOOSE i \in torn : \A k \in torn : i <= k
                 readable == CASE torn = {} -> lines
                               [] limit = 0 -> 0
                               [] OTHER -> limit * ((first - 1) \div limit)
             IN  Shown(lines, limit, torn) = SubSeq(all, 1, readable)
        /\ Len(SmartTruncate(all, limit)) <= limit /\ IsSuffix(SmartTruncate(all, limit), all)
        /\ Len(HardTruncate(all, limit)) <= limit /\ IsPrefix(HardTruncate(all, limit), all)

\* The tools leave a sound tree and touch nothing else outside the workspace.
FilesKept == TreeSound /\ OutsideKept
===============================================================================
