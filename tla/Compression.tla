------------------------------ MODULE Compression ------------------------------
(* The compression of a request's messages: framework/src/compression. A       *)
(* message is a record of its role, its place, the calls it makes and its       *)
(* tokens; a pipeline applies its strategies one after another until the        *)
(* messages fit the budget.                                                     *)
EXTENDS Integers, Sequences, SequencesExt

CONSTANTS MaxMessages, MaxBudget, Windows

VARIABLES messages, budget, pipeline, at, given

vars == <<messages, budget, pipeline, at, given>>

Kinds == [role : {"system", "user", "assistant"}, calls : {0}] \cup [role : {"assistant"}, calls : 1 .. 2]
             \cup [role : {"tool"}, calls : {0}]

Numbered(kinds) == [i \in DOMAIN kinds |-> kinds[i] @@ [place |-> i, tokens |-> 1 + kinds[i].calls]]

\* A conversation: every tool result follows its call or another result of the same call message.
Open(kinds, i) ==
    LET before == {j \in 1 .. i : kinds[j].role # "tool"}
        owner == CHOOSE j \in before : \A k \in before : k <= j
    IN  IF before = {} THEN -1 ELSE kinds[owner].calls - (i - owner)
WellFormed(kinds) == \A i \in DOMAIN kinds : kinds[i].role = "tool" => Open(kinds, i) >= 0
Conversations == {Numbered(k) : k \in {c \in UNION {[1 .. n -> Kinds] : n \in 1 .. MaxMessages} : WellFormed(c)}}

Tokens(ms) == FoldLeft(LAMBDA sum, m : sum + m.tokens, 0, ms)
System(ms) == SelectSeq(ms, LAMBDA m : m.role = "system")
Others(ms) == SelectSeq(ms, LAMBDA m : m.role # "system")
Recent(ms, n) == SubSeq(ms, Len(ms) - n + 1, Len(ms))

SlidingWindow(ms, window) ==
    LET rest == Others(ms)
    IN  System(ms) \o (IF Len(rest) <= window THEN rest ELSE Recent(rest, window))

\* evict_tool_results: a call message and the results right behind it become one summary.
GroupEnd(ms, i) ==
    LET stops == {j \in i .. Len(ms) : \/ j = i + ms[i].calls
                                       \/ j = Len(ms)
                                       \/ ms[j + 1].role # "tool"}
    IN  CHOOSE j \in stops : \A k \in stops : j <= k
Summary(m) == [m EXCEPT !.calls = 0, !.tokens = 1]
EvictToolResults(ms) ==
    LET heads == {i \in DOMAIN ms : ms[i].role = "assistant" /\ ms[i].calls > 0}
        swallowed == UNION {i + 1 .. GroupEnd(ms, i) : i \in heads}
        marked == [i \in DOMAIN ms |-> [m |-> IF i \in heads THEN Summary(ms[i]) ELSE ms[i],
                                        keep |-> i \notin swallowed]]
        kept == SelectSeq(marked, LAMBDA e : e.keep)
    IN  [i \in DOMAIN kept |-> kept[i].m]

\* Plausible bug: the results stay when the call they belong to is folded.
EvictCallsOnly(ms) == [i \in DOMAIN ms |-> IF ms[i].calls > 0 THEN Summary(ms[i]) ELSE ms[i]]

Evict(ms) == EvictToolResults(ms)

\* Oldest first, but never the last one.
Fits(sys, rest, n, limit) == Tokens(sys) + Tokens(Recent(rest, n)) <= limit
Truncate(sys, rest, limit) ==
    LET sizes == {n \in 0 .. Len(rest) : Fits(sys, rest, n, limit)}
        largest == IF sizes = {} THEN 0 ELSE CHOOSE n \in sizes : \A k \in sizes : k <= n
        n == IF largest = 0 /\ rest # <<>> THEN 1 ELSE largest
    IN  sys \o Recent(rest, n)

\* The eviction threshold is at most the budget, so whatever is over the budget is evicted first.
TokenBudget(ms, limit) ==
    IF Tokens(ms) <= limit THEN ms ELSE Truncate(System(ms), Evict(Others(ms)), limit)

Init ==
    /\ given \in Conversations
    /\ messages = given
    /\ budget \in 0 .. MaxBudget
    /\ pipeline \in {<<[name |-> "budget", window |-> 0]>>}
          \cup {<<[name |-> "window", window |-> w]>> : w \in Windows}
          \cup {<<[name |-> "window", window |-> w], [name |-> "budget", window |-> 0]>> : w \in Windows}
    /\ at = 1

\* One strategy of the pipeline; none once the messages fit.
Apply ==
    /\ at <= Len(pipeline)
    /\ Tokens(messages) > budget
    /\ messages' = IF pipeline[at].name = "budget" THEN TokenBudget(messages, budget)
                   ELSE SlidingWindow(messages, pipeline[at].window)
    /\ at' = at + 1
    /\ UNCHANGED <<budget, pipeline, given>>
Stop ==
    /\ at <= Len(pipeline)
    /\ Tokens(messages) <= budget
    /\ at' = Len(pipeline) + 1
    /\ UNCHANGED <<messages, budget, pipeline, given>>

Next == Apply \/ Stop

Spec == Init /\ [][Next]_vars

-------------------------------------------------------------------------------

\* No system message is lost or reordered.
SystemKept == System(messages) = System(given)

\* The other messages keep their order.
OrderKept == \A i, j \in DOMAIN Others(messages) :
                 i < j => Others(messages)[i].place < Others(messages)[j].place

\* With a token budget at the end the result fits, or one message is left besides the system's.
BudgetKept ==
    (at > Len(pipeline) /\ pipeline[Len(pipeline)].name = "budget") =>
        \/ Tokens(messages) <= budget
        \/ Len(Others(messages)) <= 1

\* Folding leaves no tool result without its call, which the chat API would refuse. A window may
\* cut between a call and its results; that is why only the token budget promises it.
NoOrphan ==
    (Len(pipeline) = 1 /\ pipeline[1].name = "budget") =>
        \A i \in DOMAIN messages : messages[i].role = "tool" =>
            i > 1 /\ (messages[i - 1].role = "tool" \/ messages[i - 1].calls > 0)

CompressionKeeps == SystemKept /\ OrderKept /\ BudgetKept /\ NoOrphan
===============================================================================
