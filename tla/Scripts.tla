------------------------------ MODULE Scripts ------------------------------
(* Scripts and conditions (crates/rhai, decl/src/compiler/condition.rs).  One *)
(* script node serves the runs of all workflows with one engine and scope     *)
(* behind a lock; the state a script sees is read before the lock is taken    *)
(* and what it sets is written after it is given back.  A condition is        *)
(* evaluated by the script engine or, without that feature and whenever the   *)
(* engine fails, by a small evaluator of its own.                             *)
(* A text is a sequence of characters; "true" is one.                         *)
EXTENDS Naturals, SequencesExt, FiniteSets
CONSTANTS
  Runs,       \* concurrent calls of the node; a run is its own input
  ContextKeys,  \* state keys the node reads and its script sets
  MaxScript,  \* statements of a script
  Conditions, \* [kind, parts]: see Simple
  States      \* what the workflow state holds for the variables of conditions
VARIABLES
  unit,    \* "node" or "condition"
  script,  \* its statements
  phase,   \* run to "idle", "loading", "writing", "done", "failed" or "dropped"
  toRead,  \* run to the keys it has not read
  kept,    \* the value the scope keeps of the script's own variable, or NoRun
  sink,    \* the run emit_text speaks to
  heard,   \* run to the inputs its listener heard of
  toWrite, \* run to what it still has to write
  wrote,   \* run to what it wrote
  condition, state, holds  \* a condition, the state, and [with, without]: what it came to
nodeVars == <<script, phase, toRead, kept, sink, heard, toWrite, wrote>>
conditionVars == <<condition, state, holds>>
vars == <<unit, nodeVars, conditionVars>>

NoRun == "none"
Statements == {"emit", "set", "let", "use", "fail"}
Init ==
  /\ unit \in {"node", "condition"}
  /\ script \in (IF unit = "node" THEN UNION {[1..n -> Statements] : n \in 0..MaxScript} ELSE {<<>>})
  /\ phase = [r \in Runs |-> "idle"] /\ toRead = [r \in Runs |-> {}]
  /\ kept = NoRun /\ sink = NoRun
  /\ heard = [r \in Runs |-> <<>>] /\ toWrite = heard /\ wrote = heard
  /\ condition \in (IF unit = "condition" THEN Conditions ELSE {CHOOSE c \in Conditions : TRUE})
  /\ state \in (IF unit = "condition" THEN States ELSE {CHOOSE s \in States : TRUE})
  /\ holds = <<>>

----------------------------------------------------------------------------
(* The node.  A script variable stays in the scope after the script's end, so *)
(* a script may use what an earlier run left.                                 *)
Handle(r) ==
  /\ phase[r] = "idle"
  /\ phase' = [phase EXCEPT ![r] = "loading"] /\ toRead' = [toRead EXCEPT ![r] = ContextKeys]
  /\ UNCHANGED <<kept, sink, heard, toWrite, wrote>>
Read(r) ==
  /\ phase[r] = "loading"
  /\ \E k \in toRead[r] : toRead' = [toRead EXCEPT ![r] = @ \ {k}]
  /\ UNCHANGED <<phase, kept, sink, heard, toWrite, wrote>>

Did == [ok |-> TRUE, kept |-> kept, said |-> 0, sets |-> <<>>]
Did1(d, statement, r) ==
  CASE ~d.ok -> d
    [] statement = "emit" -> [d EXCEPT !.said = @ + 1]
    [] statement = "set" -> [d EXCEPT !.sets = Append(@, <<r, Len(@) + 1>>)]
    [] statement = "let" -> [d EXCEPT !.kept = r]
    [] statement = "use" -> [d EXCEPT !.ok = d.kept # NoRun]
    [] statement = "fail" -> [d EXCEPT !.ok = FALSE]
Ran(r) == FoldLeft(LAMBDA d, s : Did1(d, s, r), Did, script)
Run(r) ==
  /\ phase[r] = "loading" /\ toRead[r] = {}
  /\ sink' = r
  /\ LET d == Ran(r)
     IN  /\ kept' = d.kept
         /\ heard' = [heard EXCEPT ![sink'] = @ \o [i \in 1..d.said |-> r]]
         /\ phase' = [phase EXCEPT ![r] = IF d.ok THEN "writing" ELSE "failed"]
         /\ toWrite' = IF d.ok THEN [toWrite EXCEPT ![r] = d.sets] ELSE toWrite
  /\ UNCHANGED <<toRead, wrote>>
Write(r) ==
  /\ phase[r] = "writing" /\ toWrite[r] # <<>>
  /\ toWrite' = [toWrite EXCEPT ![r] = Tail(@)]
  /\ wrote' = [wrote EXCEPT ![r] = Append(@, Head(toWrite[r]))]
  /\ UNCHANGED <<phase, toRead, kept, sink, heard>>
Handled(r) ==
  /\ phase[r] = "writing" /\ toWrite[r] = <<>>
  /\ phase' = [phase EXCEPT ![r] = "done"]
  /\ UNCHANGED <<toRead, kept, sink, heard, toWrite, wrote>>
(* A timeout or a cancelled run drops the call where it waits.                *)
Dropped(r) ==
  /\ phase[r] \in {"loading", "writing"}
  /\ phase' = [phase EXCEPT ![r] = "dropped"]
  /\ UNCHANGED <<toRead, kept, sink, heard, toWrite, wrote>>
Node ==
  /\ unit = "node"
  /\ \E r \in Runs : Handle(r) \/ Read(r) \/ Run(r) \/ Write(r) \/ Handled(r) \/ Dropped(r)
  /\ UNCHANGED <<unit, script, conditionVars>>

----------------------------------------------------------------------------
(* Conditions.  A token is [kind, text]: a "var" ("Local." and a key), a      *)
(* "number", a "word", a "quoted" word or a "truth"; a value [type, text].    *)
(* kind of a condition: "token", "call" of local("key"), or "compare": one or *)
(* two comparisons [left, op, right] joined by &&.                            *)
Digits == [c \in {"1", "2"} |-> IF c = "1" THEN 1 ELSE 2]
IsNumber(t) == Len(t) = 1 /\ t[1] \in DOMAIN Digits
Of(t) == Digits[t[1]]
Known(t) == t \in DOMAIN state
Ordered(op, a, b) ==
  CASE op = ">=" -> a >= b [] op = "<=" -> a <= b [] op = ">" -> a > b [] op = "<" -> a < b
JsonToBool(v) ==
  CASE v.type = "bool" -> v.text = <<"true">>
    [] v.type = "int" -> TRUE  \* zero is not among the numbers
    [] v.type = "str" -> v.text \in {<<"true">>, <<"1">>}

Written(token) ==
  CASE token.kind = "var" -> <<"Local.">> \o token.text
    [] token.kind = "quoted" -> <<"'">> \o token.text \o <<"'">>
    [] OTHER -> token.text
Resolve(token) == IF token.kind = "var" /\ Known(token.text) THEN state[token.text].text ELSE Written(token)

(* evaluate_simple_condition: it splits at the operator that comes first in   *)
(* its list, wherever it stands; with two comparisons a side is then no token *)
(* and no number.                                                             *)
SimpleOps == <<"contains", "==", "!=", ">=", "<=", ">", "<">>
First(ops, parts) == SelectInSeq(ops, LAMBDA op : \E i \in DOMAIN parts : parts[i].op = op)
Within(l, r) == \E i \in 0..Len(l) : i + Len(r) <= Len(l) /\ SubSeq(l, i + 1, i + Len(r)) = r
Simple(c) ==
  LET op == SimpleOps[First(SimpleOps, c.parts)]
      l == Resolve(c.parts[1].left)
      r == Resolve(c.parts[1].right)
  IN  CASE c.kind = "call" -> FALSE
        [] c.kind = "token" -> Resolve(c.parts[1]) \in {<<"true">>, <<"1">>}
        [] c.kind = "compare" /\ Len(c.parts) > 1 -> op = "!="
        [] OTHER -> CASE op = "contains" -> Within(l, r)
                      [] op = "==" -> l = r
                      [] op = "!=" -> l # r
                      [] OTHER -> IsNumber(l) /\ IsNumber(r) /\ Ordered(op, Of(l), Of(r))

(* normalize_workflow_expr quotes the bare end of a condition: a word, or the *)
(* key of a variable, at the right of the operator that comes first in its    *)
(* list.                                                                      *)
ScriptOps == <<"==", "!=", ">=", "<=", ">", "<">>
Quoted(parts) ==
  LET i == First(ScriptOps, parts)
      n == Len(parts)
  IN  IF i # 0 /\ SelectInSeq(parts, LAMBDA p : p.op = ScriptOps[i]) = n
         /\ parts[n].right.kind \in {"word", "var"}
      THEN [parts EXCEPT ![n].right.kind = "quoted"] ELSE parts

(* The engine: values of different types are unequal and not in order; a name *)
(* that is not in the scope is an error.                                      *)
Failed == [type |-> "error", text |-> <<>>]
Value(token) ==
  CASE token.kind \in {"var", "word"} -> IF Known(token.text) THEN state[token.text] ELSE Failed
    [] token.kind = "number" -> [type |-> "int", text |-> token.text]
    [] token.kind = "quoted" -> [type |-> "str", text |-> token.text]
    [] token.kind = "truth" -> [type |-> "bool", text |-> token.text]
Characters == <<"1", "2", "a", "b", "x", "y", "false", "true">>
Place(t, i) == IF i > Len(t) THEN 0 ELSE CHOOSE n \in DOMAIN Characters : Characters[n] = t[i]
Rank(t) == 10 * Place(t, 1) + Place(t, 2)  \* texts of at most two characters
Truth(b) == [type |-> "bool", text |-> IF b THEN <<"true">> ELSE <<"false">>]
Compared(p) ==
  LET l == Value(p.left)
      r == Value(p.right)
  IN  CASE Failed \in {l, r} -> Failed
        [] p.op = "contains" -> Failed  \* does not parse
        [] p.op = "==" -> Truth(l = r)
        [] p.op = "!=" -> Truth(l # r)
        [] OTHER -> Truth(l.type = r.type /\ Ordered(p.op, Rank(l.text), Rank(r.text)))
Engine(c) ==
  LET parts == Quoted(c.parts)
      one == Compared(parts[1])
  IN  CASE c.kind = "token" -> Value(c.parts[1])
        [] c.kind = "call" -> IF Known(c.parts[1].text) THEN state[c.parts[1].text] ELSE Truth(FALSE)
        [] OTHER -> IF Len(parts) = 1 \/ one # Truth(TRUE) THEN one ELSE Compared(parts[2])

Reference(c) == c.kind = "token" /\ c.parts[1].kind \in {"var", "word"} /\ Known(c.parts[1].text)
Without(c) == IF Reference(c) THEN JsonToBool(state[c.parts[1].text]) ELSE Simple(c)
With(c) ==
  IF Reference(c) THEN JsonToBool(state[c.parts[1].text])
  ELSE IF Engine(c) = Failed THEN Simple(c) ELSE JsonToBool(Engine(c))
Evaluate ==
  /\ unit = "condition" /\ holds = <<>>
  /\ holds' = <<With(condition), Without(condition)>>
  /\ UNCHANGED <<unit, nodeVars, condition, state>>

Next == Node \/ Evaluate
Spec == Init /\ [][Next]_vars

----------------------------------------------------------------------------
\* Runs that share a node do not hear each other, a run writes all its script
\* set in that order, or nothing if the script failed, or a beginning if it was
\* dropped.  That a script finds nothing an earlier run left is not claimed.
Sets(r) == [i \in 1..Len(SelectSeq(script, LAMBDA s : s = "set")) |-> <<r, i>>]
RunsApart ==
  \A r \in Runs :
    /\ ToSet(heard[r]) \subseteq {r}
    /\ IsPrefix(wrote[r], Sets(r))
    /\ phase[r] = "failed" => wrote[r] = <<>>
    /\ phase[r] = "done" =>
         /\ wrote[r] = Sets(r)
         /\ Len(heard[r]) = Len(SelectSeq(script, LAMBDA s : s = "emit"))

\* The two evaluators agree, and are right, on one comparison of a variable with
\* a literal of its type; the engine is right on two of them.
Typed(p) ==
  /\ p.left.kind = "var" /\ Known(p.left.text)
  /\ \/ state[p.left.text].type = "int" /\ p.right.kind = "number" /\ p.op # "contains"
     \/ /\ state[p.left.text].type = "str" /\ p.right.kind = "word" /\ p.op \in {"==", "!="}
        /\ ~IsNumber(p.right.text)
     \/ state[p.left.text].type = "bool" /\ p.right.kind = "truth" /\ p.op \in {"==", "!="}
Means(p) ==
  LET l == state[p.left.text].text
  IN  CASE p.op = "==" -> l = p.right.text
        [] p.op = "!=" -> l # p.right.text
        [] OTHER -> Ordered(p.op, Of(l), Of(p.right.text))
ConditionsMean ==
  holds # <<>> /\ condition.kind = "compare" =>
    LET parts == condition.parts
    IN  /\ Len(parts) = 1 /\ Typed(parts[1]) => holds = <<Means(parts[1]), Means(parts[1])>>
        /\ Len(parts) = 2 /\ (\A i \in 1..2 : Typed(parts[i]) /\ parts[i].right.kind # "word") =>
             holds[1] = (Means(parts[1]) /\ Means(parts[2]))
ScriptsKeepApart == RunsApart /\ ConditionsMean
=============================================================================
