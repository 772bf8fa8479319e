------------------------- MODULE StreamedArguments -------------------------
(* StreamingArgsParser: the arguments of a tool call arrive in pieces of any  *)
(* size; every byte is scanned once and told as progress or as a parameter.   *)
(* Bytes: brackets, "q" a quote, "b" a backslash, "_" a blank, "1", "t", ...  *)
EXTENDS Naturals, SequencesExt
CONSTANTS
  Names,    \* parameter names, as bytes
  Strings,  \* contents of string values, as bytes
  Nested,   \* objects and arrays, as bytes
  MaxParams, MaxPiece
VARIABLES
  params,  \* what the model sends: [name, kind, raw] in order
  rest,    \* the bytes that have not arrived
  parser,  \* the parser's fields; its buffer is text, scanned to the end
  events   \* told so far: <<"parsed", name, raw>> or <<"progress", name, raw>>
vars == <<params, rest, parser, events>>

Quoted(s) == <<"q">> \o s \o <<"q">>
Values ==
  {[kind |-> "string", raw |-> s] : s \in Strings}
    \cup {[kind |-> "number", raw |-> <<"1">>], [kind |-> "literal", raw |-> <<"t", "u">>]}
    \cup {[kind |-> "nested", raw |-> v] : v \in Nested}
Params == [name : Names, kind : {"string", "number", "literal", "nested"}, raw : {v.raw : v \in Values}]
Sent == {p \in Params : [kind |-> p.kind, raw |-> p.raw] \in Values}

(* The bytes of a parameter and of the object, with or without blanks. *)
Wire(p, pad) ==
  Quoted(p.name) \o pad \o <<":">> \o pad \o (IF p.kind = "string" THEN Quoted(p.raw) ELSE p.raw) \o pad
Document(ps, pad) ==
  <<"{">> \o FoldLeft(LAMBDA acc, i : acc \o (IF i > 1 THEN <<",">> ELSE <<>>) \o Wire(ps[i], pad),
                      <<>>, [i \in 1..Len(ps) |-> i]) \o <<"}">>

----------------------------------------------------------------------------
(* One byte; Slice is what follows start, the byte itself excluded. *)
New ==
  [text |-> <<>>, state |-> "ExpectKey", key |-> <<>>, start |-> 0, entry |-> 0, braces |-> 0,
   brackets |-> 0, escape |-> FALSE, emitted |-> {}, progress |-> 0]
Slice(p) == SubSeq(p.text, p.start, Len(p.text))
Parsed(p, raw) == IF p.key \in p.emitted THEN <<>> ELSE <<<<"parsed", p.key, raw>>>>
Less(n) == IF n > 0 THEN n - 1 ELSE 0
To(p, state) == [p EXCEPT !.state = state]
From(p, state, at) == [p EXCEPT !.state = state, !.start = at]
Told(p, raw, state) == [p |-> [p EXCEPT !.emitted = @ \cup {p.key}, !.state = state], told |-> Parsed(p, raw)]
Quiet(p) == [p |-> p, told |-> <<>>]

ExpectKey(p, c) ==
  CASE c = "{" -> [p EXCEPT !.braces = @ + 1]
    [] c = "}" -> To([p EXCEPT !.braces = Less(@)], "ExpectComma")
    [] c = "q" -> From(p, "InKey", Len(p.text) + 2)
    [] OTHER -> p
InKey(p, c) ==
  CASE c = "b" -> [p EXCEPT !.escape = ~@]
    [] c = "q" /\ ~p.escape -> To([p EXCEPT !.key = Slice(p)], "ExpectColon")
    [] OTHER -> [p EXCEPT !.escape = FALSE]
ExpectValue(p, c) ==
  LET here == Len(p.text) + 1 IN
  CASE c = "q" -> From([p EXCEPT !.progress = 0, !.escape = FALSE], "InString", here + 1)
    [] c = "{" -> From([p EXCEPT !.entry = p.braces, !.braces = @ + 1], "InObject", here)
    [] c = "[" -> From([p EXCEPT !.entry = p.braces, !.brackets = 1], "InArray", here)
    [] c = "1" -> From(p, "InNumber", here)
    [] c = "t" -> From(p, "InLiteral", here)
    [] OTHER -> p
Progress(p, c) ==
  LET raw == Append(Slice(p), c) IN
  IF p.key \in p.emitted \/ Len(raw) <= p.progress THEN Quiet([p EXCEPT !.escape = FALSE])
  ELSE [p |-> [p EXCEPT !.escape = FALSE, !.progress = Len(raw)], told |-> <<<<"progress", p.key, raw>>>>]
InString(p, c) ==
  CASE c = "b" -> Quiet([p EXCEPT !.escape = ~@])
    [] c = "q" /\ ~p.escape -> Told([p EXCEPT !.progress = 0], Slice(p), "ExpectComma")
    [] OTHER -> Progress(p, c)
InPlain(p, c) ==
  CASE c = "}" -> Told([p EXCEPT !.braces = Less(@)], Slice(p), "ExpectComma")
    [] c = "," -> Told(p, Slice(p), "ExpectKey")
    [] OTHER -> Quiet(p)
InObject(p, c) ==
  CASE c = "{" -> Quiet([p EXCEPT !.braces = @ + 1])
    [] c = "}" -> LET q == [p EXCEPT !.braces = Less(@)] IN
                  IF q.braces = q.entry THEN Told(q, Append(Slice(p), c), "ExpectComma") ELSE Quiet(q)
    [] OTHER -> Quiet(p)
InArray(p, c) ==
  CASE c = "[" -> Quiet([p EXCEPT !.brackets = @ + 1])
    [] c = "]" -> LET q == [p EXCEPT !.brackets = Less(@)] IN
                  IF q.brackets = 0 THEN Told(q, Append(Slice(p), c), "ExpectComma") ELSE Quiet(q)
    [] OTHER -> Quiet(p)
Blank(p, c) == c = "_" /\ p.state # "InString"
Scan(p, c) ==
  LET s == p.state
      r == CASE Blank(p, c) -> Quiet(p)
             [] s = "ExpectKey" -> Quiet(ExpectKey(p, c))
             [] s = "InKey" -> Quiet(InKey(p, c))
             [] s = "ExpectColon" -> Quiet(IF c = ":" THEN To(p, "ExpectValue") ELSE p)
             [] s = "ExpectValue" -> Quiet(ExpectValue(p, c))
             [] s = "InString" -> InString(p, c)
             [] s \in {"InNumber", "InLiteral"} -> InPlain(p, c)
             [] s = "InObject" -> InObject(p, c)
             [] s = "InArray" -> InArray(p, c)
             [] s = "ExpectComma" -> Quiet(IF c = "," THEN To([p EXCEPT !.key = <<>>], "ExpectKey") ELSE p)
  IN [r EXCEPT !.p.text = Append(@, c)]

Init ==
  /\ params \in UNION {[1..n -> Sent] : n \in 0..MaxParams}
  /\ rest \in {Document(params, pad) : pad \in {<<>>, <<"_">>}}
  /\ parser = New /\ events = <<>>
(* push_bytes and poll: a piece arrives. *)
Piece(n) ==
  /\ n <= Len(rest) /\ rest' = SubSeq(rest, n + 1, Len(rest))
  /\ LET r == FoldLeft(LAMBDA acc, c : LET s == Scan(acc.p, c) IN [p |-> s.p, told |-> acc.told \o s.told],
                       [p |-> parser, told |-> <<>>], SubSeq(rest, 1, n))
     IN parser' = r.p /\ events' = events \o r.told
  /\ UNCHANGED params
Next == \E n \in 1..MaxPiece : Piece(n)
Spec == Init /\ [][Next]_vars

----------------------------------------------------------------------------
(* Nested values whose strings hold no bracket: the parser counts those too. *)
Brackets == {"{", "}", "[", "]"}
InStrings(raw) ==  \* the bytes of raw that are within a string
  FoldLeft(LAMBDA acc, c : CASE c = "q" -> [acc EXCEPT !.in = ~@]
                             [] acc.in -> [acc EXCEPT !.bytes = @ \cup {c}]
                             [] OTHER -> acc, [in |-> FALSE, bytes |-> {}], raw).bytes
Plain == \A i \in DOMAIN params : params[i].kind = "nested" => InStrings(params[i].raw) \cap Brackets = {}

FirstOf(i) == \A j \in 1..(i - 1) : params[j].name # params[i].name
Trim(raw) == SelectSeq(raw, LAMBDA c : c # "_")
Exact(p, raw) == IF p.kind = "string" THEN raw = p.raw ELSE Trim(raw) = Trim(p.raw)
Finished == SelectSeq(events, LAMBDA e : e[1] = "parsed")
Firsts == SelectSeq([i \in 1..Len(params) |-> i], FirstOf)

(* Each parameter is told once, exactly as it was sent and in order, at the  *)
(* latest with the byte after it: arguments need not be parsed again.        *)
Whole(n, pad) == Len(Document(SubSeq(params, 1, n), pad))
ToldExactly ==
  Plain =>
    /\ Len(Finished) <= Len(Firsts)
    /\ \A i \in DOMAIN Finished :
         Finished[i][2] = params[Firsts[i]].name /\ Exact(params[Firsts[i]], Finished[i][3])
    /\ \E pad \in {<<>>, <<"_">>} :
         /\ parser.text \o rest = Document(params, pad)
         /\ \A i \in DOMAIN Firsts : Len(parser.text) >= Whole(Firsts[i], pad) => i <= Len(Finished)

(* Progress is of the next string, grows by what arrived and never comes     *)
(* after the parameter it is of.                                             *)
ProgressGrows ==
  Plain =>
    \A i \in DOMAIN events : events[i][1] = "progress" =>
      LET done == Len(SelectSeq(SubSeq(events, 1, i), LAMBDA e : e[1] = "parsed")) IN
      /\ done < Len(Firsts)
      /\ params[Firsts[done + 1]].name = events[i][2]
      /\ IsPrefix(events[i][3], params[Firsts[done + 1]].raw)
      /\ (i > 1 /\ events[i - 1][1] = "progress" => Len(events[i - 1][3]) < Len(events[i][3]))

(* Whatever is nested later, a first string is never told wrong. *)
StringsSafe ==
  events # <<>> =>
    /\ events[1][2] = params[1].name
    /\ (params[1].kind = "string" => IsPrefix(events[1][3], params[1].raw))

ArgumentsTold == ToldExactly /\ ProgressGrows /\ StringsSafe
=============================================================================
