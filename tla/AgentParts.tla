------------------------------ MODULE AgentParts ------------------------------
(***************************************************************************)
(* The parts around an agent that are proved about.                        *)
(*  - The MCP client, whose module this one extends, for any finite set of *)
(*    callers: every response ends one request and every request takes one *)
(*    response, its own when nothing was owed and nobody joined, and       *)
(*    nobody waits in vain.                                                *)
(*  - The sessions of a host, for every idle time and lifetime: where no   *)
(*    save, load and clean-up overlap, a session that is live again has    *)
(*    all that the last save was given, and a clean-up deletes only what   *)
(*    has expired.                                                         *)
(*  - The wiki spaces, for any names, paths and clients: the config file   *)
(*    stays sound under overlapping saves, and the engine follows it.      *)
(*  - The index of a wiki, for any page types and bounds: what edits,      *)
(*    rebuilds, crashes and reloads leave follows the pages.               *)
(*  - The curator, for any finite set of sessions and any bounds: each run *)
(*    consolidates the newest of what was said.                            *)
(*  - The web search, for any instances and searchers: searches keep their *)
(*    distance and believe fresh probes only.                              *)
(***************************************************************************)
EXTENDS McpClient, Integers, FiniteSetTheorems, SequenceTheorems, TLAPS

-----------------------------------------------------------------------------
(* The client of an MCP server.                                             *)

\* What the values of the constants have in common.
McpConstants == IsFiniteSet(Callers)

Call == [at : {"idle", "waiting"}, id : Nat, op : {"call", "enrich"}]
Request == [id : Nat, op : {"initialize", "call", "enrich"}]
Line == [kind : {"notification", "result", "error", "broken"}, id : Nat,
         op : {"initialize", "call", "enrich", "none"}]

\* Types; callers wait only when the handshake is over.
McpType ==
  /\ solo \in SUBSET Nat /\ lists \in BOOLEAN /\ alive \in BOOLEAN
  /\ link \in {"new", "greeting", "up", "failed"}
  /\ nextId \in Nat \ {0}
  /\ calls \in [Callers -> Call]
  /\ asked \in SUBSET Request /\ IsFiniteSet(asked)
  /\ wire \in Seq(Line)
  /\ taken \in SUBSET (Nat \X Nat)
  /\ link # "up" => Waiting = {}

\* A response that is taken for one; a broken line is not.
Response(m) == m.kind \in {"result", "error"}

\* Ids are given out once: to one caller, one request and one response.
IdsGiven ==
  /\ \A c \in Waiting : calls[c].id < nextId
  /\ \A q \in asked : q.id < nextId
  /\ \A i \in DOMAIN wire : wire[i].id < nextId
  /\ \A p \in taken : p[1] < nextId /\ p[2] < nextId
CallsOnce ==
  /\ \A c, d \in Waiting : calls[c].id = calls[d].id => c = d
  /\ \A c \in Waiting, p \in taken : p[1] # calls[c].id
AnswersOnce ==
  /\ \A q, r \in asked : q.id = r.id => q = r
  /\ \A i, j \in DOMAIN wire :
       Response(wire[i]) /\ Response(wire[j]) /\ wire[i].id = wire[j].id => i = j
  /\ \A i \in DOMAIN wire, q \in asked : Response(wire[i]) => wire[i].id # q.id
  /\ \A p \in taken : /\ \A q \in asked : q.id # p[2]
                      /\ \A i \in DOMAIN wire : Response(wire[i]) => wire[i].id # p[2]
TakenOnce == \A p, q \in taken : p[1] = q[1] \/ p[2] = q[2] => p = q

\* A request that is alone is the only one that waits, and all that is asked or
\* answered is its.
InTurn ==
  /\ OwnAnswer
  /\ \A id \in solo : id < nextId
  /\ \A c \in Waiting :
       calls[c].id \in solo =>
         /\ Waiting = {c}
         /\ \A q \in asked : q.id = calls[c].id
         /\ \A i \in DOMAIN wire : Response(wire[i]) => wire[i].id = calls[c].id

Ids == IdsGiven /\ CallsOnce /\ AnswersOnce /\ TakenOnce
McpInv == McpType /\ Ids /\ InTurn /\ NobodyWaitsInVain

LEMMA McpSafe == McpInv => McpKeepsRules
  BY DEF McpInv, Ids, InTurn, TakenOnce, McpKeepsRules, AnswersTakenOnce

LEMMA McpInit == Init => McpInv
<1> SUFFICES ASSUME Init PROVE McpInv
  OBVIOUS
<1>1. DOMAIN <<>> = {} /\ <<>> \in Seq(Line) /\ IsFiniteSet({}) /\ Cardinality({}) = 0
  BY FS_EmptySet
<1>2. /\ solo = {} /\ lists \in BOOLEAN /\ alive = TRUE /\ link = "new" /\ nextId = 1
      /\ calls = [c \in Callers |-> NoCall] /\ asked = {} /\ wire = <<>> /\ taken = {}
  BY DEF Init
<1>3. NoCall \in Call /\ Waiting = {}
  BY <1>2 DEF NoCall, Call, Waiting
<1>4. McpType
  BY <1>1, <1>2, <1>3 DEF McpType
<1>5. Ids
  BY <1>1, <1>2, <1>3 DEF Ids, IdsGiven, CallsOnce, AnswersOnce, TakenOnce
<1>6. InTurn
  BY <1>1, <1>2, <1>3 DEF InTurn, OwnAnswer
<1>7. Requested = {} /\ OnTheWay = {}
  BY <1>1, <1>2 DEF Requested, OnTheWay
<1>8. NobodyWaitsInVain
  BY <1>1, <1>3, <1>7 DEF NobodyWaitsInVain
<1> QED
  BY <1>4, <1>5, <1>6, <1>8 DEF McpInv

-----------------------------------------------------------------------------
(* Callers, requests and lines.                                             *)

LEMMA Finite ==
  ASSUME IsFiniteSet(Callers), McpType
  PROVE  /\ IsFiniteSet(Waiting) /\ IsFiniteSet(Requested) /\ IsFiniteSet(OnTheWay) /\ IsFiniteSet(DOMAIN wire)
         /\ Cardinality(Waiting) \in Nat /\ Cardinality(Requested) \in Nat /\ Cardinality(OnTheWay) \in Nat
<1>1. IsFiniteSet(Waiting)
  BY FS_Subset DEF Waiting
<1>2. IsFiniteSet(Requested)
  BY FS_Subset DEF Requested, McpType
<1>3. IsFiniteSet(OnTheWay) /\ IsFiniteSet(DOMAIN wire)
  <2>1. DOMAIN wire = 1..Len(wire) /\ Len(wire) \in Nat
    BY LenProperties DEF McpType
  <2>2. IsFiniteSet(1..Len(wire))
    BY <2>1, FS_Interval
  <2> QED
    BY <2>1, <2>2, FS_Subset DEF OnTheWay
<1> QED
  BY <1>1, <1>2, <1>3, FS_CardinalityType

LEMMA WireFacts ==
  ASSUME McpType
  PROVE  /\ DOMAIN wire = 1..Len(wire) /\ Len(wire) \in Nat
         /\ \A i \in DOMAIN wire : wire[i] \in Line
         /\ wire # <<>> => 1 \in DOMAIN wire /\ Head(wire) = wire[1]
<1>1. wire \in Seq(Line)
  BY DEF McpType
<1>2. DOMAIN wire = 1..Len(wire) /\ Len(wire) \in Nat
  BY <1>1, LenProperties
<1>3. \A i \in DOMAIN wire : wire[i] \in Line
  BY <1>1, <1>2, ElementOfSeq
<1>4. wire # <<>> => 1 \in DOMAIN wire /\ Head(wire) = wire[1]
  <2>1. wire # <<>> => Len(wire) \in Nat \ {0}
    BY <1>1, EmptySeq
  <2> QED
    BY <1>1, <1>2, <2>1
<1> QED
  BY <1>2, <1>3, <1>4

\* A caller stops waiting; its id stays with it.
LEMMA StopsWaiting ==
  ASSUME McpType, NEW c \in Callers, Set(c, "idle")
  PROVE  /\ calls' \in [Callers -> Call] /\ Waiting' = Waiting \ {c}
         /\ \A d \in Callers : calls'[d].id = calls[d].id /\ calls'[d].op = calls[d].op
<1>1. calls \in [Callers -> Call] /\ calls[c] \in Call
  BY DEF McpType
<1> DEFINE k == [calls[c] EXCEPT !.at = "idle"]
<1>2. calls' = [calls EXCEPT ![c] = k]
  BY <1>1 DEF Set
<1>3. k \in Call /\ k.at = "idle" /\ k.id = calls[c].id /\ k.op = calls[c].op
  BY <1>1 DEF Call
<1> HIDE DEF k
<1>4. calls'[c] = k /\ \A d \in Callers : d # c => calls'[d] = calls[d]
  BY <1>1, <1>2
<1>5. calls' \in [Callers -> Call]
  BY <1>1, <1>2, <1>3
<1>6. Waiting' = Waiting \ {c}
  BY <1>3, <1>4 DEF Waiting
<1> QED
  BY <1>3, <1>4, <1>5, <1>6

\* The first line is taken off.
LEMMA WireTail ==
  ASSUME McpType, wire # <<>>, wire' = Tail(wire)
  PROVE  /\ wire' \in Seq(Line)
         /\ \A i \in DOMAIN wire' : i + 1 \in DOMAIN wire /\ wire'[i] = wire[i + 1] /\ i \in Nat
         /\ \A i \in DOMAIN wire' : i + 1 # 1
         /\ \A i \in DOMAIN wire : i # 1 => i - 1 \in DOMAIN wire' /\ i = (i - 1) + 1
<1>1. wire \in Seq(Line) /\ DOMAIN wire = 1..Len(wire) /\ Len(wire) \in Nat /\ Len(wire) > 0
  BY WireFacts DEF McpType
<1>2. /\ wire' \in Seq(Line) /\ Len(wire') = Len(wire) - 1
      /\ \A i \in 1..Len(wire') : wire'[i] = wire[i + 1]
  BY <1>1, HeadTailProperties
<1>3. DOMAIN wire' = 1..Len(wire')
  BY <1>2, LenProperties
<1> QED
  BY <1>1, <1>2, <1>3

LEMMA OnTheWayTail ==
  ASSUME IsFiniteSet(Callers), McpType, wire # <<>>, wire' = Tail(wire)
  PROVE  /\ IsFiniteSet(OnTheWay') /\ Cardinality(OnTheWay') \in Nat
         /\ Cardinality(OnTheWay) <= Cardinality(OnTheWay') + 1
         /\ wire[1].kind = "notification" => Cardinality(OnTheWay) <= Cardinality(OnTheWay')
<1> DEFINE others == OnTheWay \ {1}
           f == [i \in others |-> i - 1]
<1>1. IsFiniteSet(OnTheWay) /\ Cardinality(OnTheWay) \in Nat
  BY Finite
<1>2. /\ IsFiniteSet(others) /\ Cardinality(others) \in Nat
      /\ Cardinality(others) >= Cardinality(OnTheWay) - 1
      /\ 1 \notin OnTheWay => Cardinality(others) = Cardinality(OnTheWay)
  <2>1. /\ IsFiniteSet(others)
        /\ Cardinality(others) = IF 1 \in OnTheWay THEN Cardinality(OnTheWay) - 1 ELSE Cardinality(OnTheWay)
    BY <1>1, FS_RemoveElement
  <2>2. Cardinality(others) \in Nat
    BY <2>1, FS_CardinalityType
  <2> HIDE DEF others
  <2> QED
    BY <1>1, <2>1, <2>2
<1>3. /\ \A i \in DOMAIN wire' : i + 1 \in DOMAIN wire /\ wire'[i] = wire[i + 1] /\ i \in Nat
      /\ \A i \in DOMAIN wire' : i + 1 # 1
      /\ \A i \in DOMAIN wire : i # 1 => i - 1 \in DOMAIN wire' /\ i = (i - 1) + 1
  BY WireTail
<1>4. f \in Bijection(others, OnTheWay')
  <2>1. \A i \in others : i - 1 \in OnTheWay'
    BY <1>3 DEF OnTheWay
  <2>2. \A i, j \in others : i - 1 = j - 1 => i = j
    BY <1>3 DEF OnTheWay
  <2>3. \A j \in OnTheWay' : j + 1 \in others /\ (j + 1) - 1 = j
    BY <1>3 DEF OnTheWay
  <2> HIDE DEF others
  <2>4. f \in [others -> OnTheWay']
    BY <2>1
  <2>5. \A i, j \in others : f[i] = f[j] => i = j
    BY <2>2
  <2>6. \A j \in OnTheWay' : \E i \in others : f[i] = j
    BY <2>3
  <2> HIDE DEF f
  <2> QED
    BY <2>4, <2>5, <2>6 DEF Bijection, Injection, Surjection, IsInjective
<1>5. IsFiniteSet(OnTheWay') /\ Cardinality(OnTheWay') = Cardinality(others)
  <2>1. ExistsBijection(others, OnTheWay')
    BY <1>4 DEF ExistsBijection
  <2> HIDE DEF others, f
  <2> QED
    BY <1>2, <2>1, FS_Bijection
<1>6. wire[1].kind = "notification" => 1 \notin OnTheWay
  BY DEF OnTheWay
<1> HIDE DEF others
<1> QED
  BY <1>1, <1>2, <1>5, <1>6

\* A line is added.
LEMMA WireAppend ==
  ASSUME McpType, NEW m \in Line, wire' = Append(wire, m)
  PROVE  /\ wire' \in Seq(Line)
         /\ DOMAIN wire' = DOMAIN wire \cup {Len(wire) + 1} /\ Len(wire) + 1 \notin DOMAIN wire
         /\ wire'[Len(wire) + 1] = m
         /\ \A i \in DOMAIN wire : wire'[i] = wire[i]
<1>1. wire \in Seq(Line) /\ DOMAIN wire = 1..Len(wire) /\ Len(wire) \in Nat
  BY WireFacts DEF McpType
<1>2. /\ wire' \in Seq(Line) /\ Len(wire') = Len(wire) + 1
      /\ \A i \in 1..Len(wire) : wire'[i] = wire[i]
      /\ wire'[Len(wire) + 1] = m
  BY <1>1, AppendProperties
<1>3. DOMAIN wire' = 1..Len(wire')
  BY <1>2, LenProperties
<1> QED
  BY <1>1, <1>2, <1>3

\* A line loses its beginning: it stays what it answers, but for nobody's id.
LEMMA WireBroken ==
  ASSUME McpType, wire # <<>>, wire' = [wire EXCEPT ![1].kind = "broken"]
  PROVE  /\ wire' \in Seq(Line)
         /\ DOMAIN wire' = DOMAIN wire
         /\ \A i \in DOMAIN wire : /\ wire'[i].id = wire[i].id /\ wire'[i].op = wire[i].op
                                   /\ wire'[i].kind \in {wire[i].kind, "broken"}
<1>1. wire \in Seq(Line) /\ DOMAIN wire = 1..Len(wire) /\ Len(wire) \in Nat /\ 1 \in 1..Len(wire)
  BY WireFacts DEF McpType
<1> DEFINE m == [wire[1] EXCEPT !.kind = "broken"]
<1>2. wire' = [wire EXCEPT ![1] = m]
  BY <1>1
<1>3. m \in Line /\ m.kind = "broken" /\ m.id = wire[1].id /\ m.op = wire[1].op
  BY <1>1, WireFacts DEF Line
<1> HIDE DEF m
<1>4. wire' \in Seq(Line)
  BY <1>1, <1>2, <1>3, ExceptSeq
<1>5. DOMAIN wire' = DOMAIN wire /\ wire'[1] = m /\ \A i \in DOMAIN wire : i # 1 => wire'[i] = wire[i]
  BY <1>1, <1>2
<1> QED
  BY <1>1, <1>3, <1>4, <1>5

-----------------------------------------------------------------------------
(* Ids: given to one caller, one request and one response.                  *)

\* Callers that stop and lines that leave or break take no id with them.
LEMMA IdsStay ==
  ASSUME McpType, Ids, nextId' = nextId, asked' \in SUBSET asked, taken' = taken,
         Waiting' \in SUBSET Waiting, \A d \in Waiting : calls'[d].id = calls[d].id,
         NEW k \in Nat,
         \A i \in DOMAIN wire' : /\ i \in Nat /\ i + k \in DOMAIN wire /\ wire'[i].id = wire[i + k].id
                                 /\ Response(wire'[i]) => Response(wire[i + k])
  PROVE  Ids'
<1>1. IdsGiven'
  BY DEF Ids, IdsGiven
<1>2. CallsOnce'
  BY DEF Ids, CallsOnce
<1>3. AnswersOnce'
  <2>1. \A q, r \in asked' : q.id = r.id => q = r
    BY DEF Ids, AnswersOnce
  <2>2. \A i, j \in DOMAIN wire' :
          Response(wire'[i]) /\ Response(wire'[j]) /\ wire'[i].id = wire'[j].id => i = j
    <3> SUFFICES ASSUME NEW i \in DOMAIN wire', NEW j \in DOMAIN wire',
                        Response(wire'[i]), Response(wire'[j]), wire'[i].id = wire'[j].id
                 PROVE  i = j
      OBVIOUS
    <3>1. i + k = j + k
      BY DEF Ids, AnswersOnce
    <3> QED
      BY <3>1
  <2>3. \A i \in DOMAIN wire', q \in asked' : Response(wire'[i]) => wire'[i].id # q.id
    BY DEF Ids, AnswersOnce
  <2>4. \A p \in taken' : /\ \A q \in asked' : q.id # p[2]
                          /\ \A i \in DOMAIN wire' : Response(wire'[i]) => wire'[i].id # p[2]
    BY DEF Ids, AnswersOnce
  <2> QED
    BY <2>1, <2>2, <2>3, <2>4 DEF AnswersOnce, Response
<1>4. TakenOnce'
  BY DEF Ids, TakenOnce
<1> QED
  BY <1>1, <1>2, <1>3, <1>4 DEF Ids

\* A response taken leaves the wire, and its taker stops waiting.
LEMMA IdsTaken ==
  ASSUME McpType, Ids, NEW c \in Waiting, wire # <<>>, wire' = Tail(wire), Response(wire[1]),
         nextId' = nextId, asked' = asked, taken' = taken \cup {<<calls[c].id, wire[1].id>>},
         Waiting' = Waiting \ {c}, \A d \in Waiting : calls'[d].id = calls[d].id
  PROVE  Ids'
<1> DEFINE x == calls[c].id
           y == wire[1].id
<1>1. /\ \A i \in DOMAIN wire' : i + 1 \in DOMAIN wire /\ wire'[i] = wire[i + 1] /\ i \in Nat
      /\ \A i \in DOMAIN wire' : i + 1 # 1
  BY WireTail
<1>2. 1 \in DOMAIN wire
  BY WireFacts
<1>3. x < nextId /\ y < nextId
  BY <1>2 DEF Ids, IdsGiven
<1>4. /\ \A p \in taken : p[1] # x /\ p[2] # y
      /\ \A d \in Waiting' : calls'[d].id # x
      /\ \A q \in asked : q.id # y
      /\ \A i \in DOMAIN wire' : Response(wire'[i]) => wire'[i].id # y
  <2>1. \A p \in taken : p[1] # x
    BY DEF Ids, CallsOnce
  <2>2. \A p \in taken : p[2] # y
    BY <1>2 DEF Ids, AnswersOnce
  <2>3. \A d \in Waiting' : calls'[d].id # x
    BY DEF Ids, CallsOnce
  <2>4. \A q \in asked : q.id # y
    BY <1>2 DEF Ids, AnswersOnce
  <2>5. \A i \in DOMAIN wire' : Response(wire'[i]) => wire'[i].id # y
    BY <1>1, <1>2 DEF Ids, AnswersOnce
  <2> QED
    BY <2>1, <2>2, <2>3, <2>4, <2>5
<1> HIDE DEF x, y
<1>5. /\ \A p \in taken' : p \in taken \/ (p[1] = x /\ p[2] = y /\ p = <<x, y>>)
      /\ \A i \in DOMAIN wire' : wire'[i].id = wire[i + 1].id
  BY <1>1 DEF x, y
<1>6. IdsGiven'
  BY <1>1, <1>3, <1>5 DEF Ids, IdsGiven
<1>7. CallsOnce'
  BY <1>4, <1>5 DEF Ids, CallsOnce
<1>8. AnswersOnce'
  <2>1. \A q, r \in asked' : q.id = r.id => q = r
    BY DEF Ids, AnswersOnce
  <2>2. \A i, j \in DOMAIN wire' :
          Response(wire'[i]) /\ Response(wire'[j]) /\ wire'[i].id = wire'[j].id => i = j
    <3> SUFFICES ASSUME NEW i \in DOMAIN wire', NEW j \in DOMAIN wire',
                        Response(wire'[i]), Response(wire'[j]), wire'[i].id = wire'[j].id
                 PROVE  i = j
      OBVIOUS
    <3>1. i + 1 = j + 1
      BY <1>1 DEF Ids, AnswersOnce
    <3> QED
      BY <1>1, <3>1
  <2>3. \A i \in DOMAIN wire', q \in asked' : Response(wire'[i]) => wire'[i].id # q.id
    BY <1>1 DEF Ids, AnswersOnce
  <2>4. \A p \in taken : /\ \A q \in asked' : q.id # p[2]
                         /\ \A i \in DOMAIN wire' : Response(wire'[i]) => wire'[i].id # p[2]
    BY <1>1 DEF Ids, AnswersOnce
  <2> QED
    BY <1>4, <1>5, <2>1, <2>2, <2>3, <2>4 DEF AnswersOnce, Response
<1>9. TakenOnce'
  BY <1>4, <1>5 DEF Ids, TakenOnce
<1> QED
  BY <1>6, <1>7, <1>8, <1>9 DEF Ids

\* A request moves to the wire.
LEMMA IdsAnswered ==
  ASSUME McpType, Ids, NEW q \in asked, NEW kind \in {"result", "error"},
         asked' = asked \ {q}, wire' = Append(wire, [kind |-> kind, id |-> q.id, op |-> q.op]),
         nextId' = nextId, taken' = taken, calls' = calls
  PROVE  Ids'
<1> DEFINE m == [kind |-> kind, id |-> q.id, op |-> q.op]
           n == Len(wire) + 1
<1>1. m \in Line /\ m.id = q.id
  BY DEF McpType, Request, Line
<1>2. wire' = Append(wire, m)
  OBVIOUS
<1>3. q.id < nextId
  BY DEF Ids, IdsGiven
<1> HIDE DEF m
<1>4. /\ DOMAIN wire' = DOMAIN wire \cup {n} /\ n \notin DOMAIN wire /\ wire'[n] = m
      /\ \A i \in DOMAIN wire : wire'[i] = wire[i]
  BY <1>1, <1>2, WireAppend
<1> HIDE DEF n
<1>5. /\ \A r \in asked' : r \in asked /\ r.id # q.id
      /\ \A i \in DOMAIN wire : Response(wire[i]) => wire[i].id # q.id
      /\ \A p \in taken : p[2] # q.id
  <2>1. \A r \in asked' : r \in asked /\ r.id # q.id
    BY DEF Ids, AnswersOnce
  <2> QED
    BY <2>1 DEF Ids, AnswersOnce
<1>6. Waiting' = Waiting
  BY DEF Waiting
<1>7. IdsGiven'
  BY <1>1, <1>3, <1>4, <1>6 DEF Ids, IdsGiven
<1>8. CallsOnce'
  BY <1>6 DEF Ids, CallsOnce
<1>9. AnswersOnce'
  <2>1. \A r, t \in asked' : r.id = t.id => r = t
    BY DEF Ids, AnswersOnce
  <2>2. \A i, j \in DOMAIN wire' :
          Response(wire'[i]) /\ Response(wire'[j]) /\ wire'[i].id = wire'[j].id => i = j
    BY <1>1, <1>4, <1>5 DEF Ids, AnswersOnce
  <2>3. \A i \in DOMAIN wire', r \in asked' : Response(wire'[i]) => wire'[i].id # r.id
    BY <1>1, <1>4, <1>5 DEF Ids, AnswersOnce
  <2>4. \A p \in taken' : /\ \A r \in asked' : r.id # p[2]
                          /\ \A i \in DOMAIN wire' : Response(wire'[i]) => wire'[i].id # p[2]
    BY <1>1, <1>4, <1>5 DEF Ids, AnswersOnce
  <2> QED
    BY <2>1, <2>2, <2>3, <2>4 DEF AnswersOnce, Response
<1>10. TakenOnce'
  BY DEF Ids, TakenOnce
<1> QED
  BY <1>7, <1>8, <1>9, <1>10 DEF Ids

\* The next id goes to a request, and to the caller that waits for it.
LEMMA IdsSent ==
  ASSUME McpType, Ids, NEW r, r.id = nextId, asked' = asked \cup {r},
         nextId' = nextId + 1, wire' = wire, taken' = taken,
         NEW C, Waiting' = Waiting \cup C, \A d \in C : calls'[d].id = nextId, \A c, d \in C : c = d,
         \A d \in Waiting : d \notin C => calls'[d].id = calls[d].id
  PROVE  Ids'
<1>1. nextId \in Nat
  BY DEF McpType
<1>2. /\ \A c \in Waiting : calls[c].id < nextId
      /\ \A q \in asked : q.id < nextId
      /\ \A i \in DOMAIN wire : wire[i].id < nextId
      /\ \A p \in taken : p[1] < nextId /\ p[2] < nextId
  BY DEF Ids, IdsGiven
<1>3. /\ \A c \in Waiting : calls[c].id # nextId /\ calls[c].id < nextId + 1
      /\ \A q \in asked : q.id # nextId /\ q.id < nextId + 1
      /\ \A i \in DOMAIN wire : wire[i].id # nextId /\ wire[i].id < nextId + 1
      /\ \A p \in taken : p[1] # nextId /\ p[2] # nextId /\ p[1] < nextId + 1 /\ p[2] < nextId + 1
  <2>1. \A c \in Waiting : calls[c].id \in Nat
    BY DEF Waiting, McpType, Call
  <2>2. \A q \in asked : q.id \in Nat
    BY DEF McpType, Request
  <2>3. \A i \in DOMAIN wire : wire[i].id \in Nat
    BY WireFacts DEF Line
  <2>4. \A p \in taken : p[1] \in Nat /\ p[2] \in Nat
    BY DEF McpType
  <2> QED
    BY <1>1, <1>2, <2>1, <2>2, <2>3, <2>4
<1>4. \A d \in Waiting' : (d \in C /\ calls'[d].id = nextId)
                          \/ (d \in Waiting /\ d \notin C /\ calls'[d].id = calls[d].id)
  OBVIOUS
<1>5. nextId < nextId + 1
  BY <1>1
<1>6. IdsGiven'
  BY <1>3, <1>4, <1>5 DEF IdsGiven
<1>7. CallsOnce'
  <2>1. \A c, d \in Waiting' : calls'[c].id = calls'[d].id => c = d
    BY <1>3, <1>4 DEF Ids, CallsOnce
  <2>2. \A c \in Waiting', p \in taken : p[1] # calls'[c].id
    BY <1>3, <1>4 DEF Ids, CallsOnce
  <2> QED
    BY <2>1, <2>2 DEF CallsOnce
<1>8. AnswersOnce'
  <2>1. \A q, t \in asked' : q.id = t.id => q = t
    BY <1>3 DEF Ids, AnswersOnce
  <2>2. \A i \in DOMAIN wire, q \in asked' : Response(wire[i]) => wire[i].id # q.id
    BY <1>3 DEF Ids, AnswersOnce
  <2>3. \A p \in taken, q \in asked' : q.id # p[2]
    BY <1>3 DEF Ids, AnswersOnce
  <2> QED
    BY <2>1, <2>2, <2>3 DEF Ids, AnswersOnce
<1>9. TakenOnce'
  BY DEF Ids, TakenOnce
<1> QED
  BY <1>6, <1>7, <1>8, <1>9 DEF Ids

-----------------------------------------------------------------------------
(* The steps.                                                               *)

LEMMA Frame ==
  ASSUME McpInv, UNCHANGED <<solo, nextId, calls, asked, wire, taken>>,
         lists' \in BOOLEAN, link' \in {link, "failed"}, alive' \in BOOLEAN,
         link' = "failed" => link = "failed" \/ (~alive /\ Waiting = {}), alive' => alive
  PROVE  McpInv'
<1>1. Waiting' = Waiting /\ Requested' = Requested /\ OnTheWay' = OnTheWay
  BY DEF Waiting, Requested, OnTheWay
<1>2. McpType'
  BY <1>1 DEF McpInv, McpType
<1>3. Ids'
  BY <1>1 DEF McpInv, Ids, IdsGiven, CallsOnce, AnswersOnce, TakenOnce
<1>4. InTurn'
  BY <1>1 DEF McpInv, InTurn, OwnAnswer
<1>5. NobodyWaitsInVain'
  BY <1>1 DEF McpInv, NobodyWaitsInVain
<1> QED
  BY <1>2, <1>3, <1>4, <1>5 DEF McpInv

LEMMA StepGreet == ASSUME IsFiniteSet(Callers), McpInv, Greet PROVE McpInv'
<1> DEFINE r == [id |-> nextId, op |-> "initialize"]
<1>1. McpType /\ Ids
  BY DEF McpInv
<1>2. /\ link = "new" /\ alive /\ link' = "greeting" /\ nextId' = nextId + 1 /\ asked' = asked \cup {r}
      /\ UNCHANGED <<solo, lists, calls, wire, alive, taken>>
  BY DEF Greet
<1>3. r \in Request /\ r.id = nextId /\ r.op = "initialize"
  BY <1>1 DEF McpType, Request
<1> HIDE DEF r
<1>4. Waiting = {} /\ Waiting' = {}
  BY <1>1, <1>2 DEF McpType, Waiting
<1>5. McpType'
  <2>1. IsFiniteSet(asked') /\ asked' \in SUBSET Request
    BY <1>1, <1>2, <1>3, FS_AddElement DEF McpType
  <2> QED
    BY <1>1, <1>2, <1>4, <2>1 DEF McpType
<1>6. Ids'
  BY <1>1, <1>2, <1>3, <1>4, IdsSent
<1>7. InTurn'
  <2>1. \A id \in solo : id \in Nat /\ id < nextId /\ nextId \in Nat
    BY <1>1 DEF McpInv, McpType, InTurn
  <2> QED
    BY <1>2, <1>4, <2>1 DEF McpInv, InTurn, OwnAnswer
<1>8. NobodyWaitsInVain'
  <2>1. Requested' = Requested /\ OnTheWay' = OnTheWay
    BY <1>2, <1>3 DEF Requested, OnTheWay
  <2> QED
    BY <1>2, <1>4, <2>1 DEF McpInv, NobodyWaitsInVain
<1> QED
  BY <1>5, <1>6, <1>7, <1>8 DEF McpInv

LEMMA StepGreeted == ASSUME IsFiniteSet(Callers), McpInv, Greeted PROVE McpInv'
<1>1. McpType /\ Ids
  BY DEF McpInv
<1>2. /\ link = "greeting" /\ wire # <<>> /\ wire' = Tail(wire)
      /\ UNCHANGED <<solo, lists, nextId, calls, asked, alive, taken>>
  BY DEF Greeted
<1>3. 1 \in DOMAIN wire /\ Head(wire) = wire[1] /\ wire[1] \in Line
  BY <1>1, <1>2, WireFacts
<1>4. \/ link' = "greeting" /\ wire[1].kind = "notification"
      \/ link' = "up" /\ Response(wire[1]) /\ alive
      \/ link' = "failed" /\ wire[1].kind # "notification"
  BY <1>3 DEF Greeted, Response
<1>5. Waiting = {} /\ Waiting' = {}
  BY <1>1, <1>2 DEF McpType, Waiting
<1>6. /\ wire' \in Seq(Line)
      /\ \A i \in DOMAIN wire' : i + 1 \in DOMAIN wire /\ wire'[i] = wire[i + 1] /\ i \in Nat
      /\ \A i \in DOMAIN wire' : i + 1 # 1
  BY <1>1, <1>2, WireTail
<1>7. McpType'
  BY <1>1, <1>2, <1>4, <1>5, <1>6 DEF McpType
<1>8. Ids'
  <2>1. \A i \in DOMAIN wire' : /\ i \in Nat /\ i + 1 \in DOMAIN wire /\ wire'[i].id = wire[i + 1].id
                                /\ Response(wire'[i]) => Response(wire[i + 1])
    BY <1>6
  <2> QED
    BY <1>1, <1>2, <1>5, <2>1, IdsStay
<1>9. InTurn'
  BY <1>2, <1>5 DEF McpInv, InTurn, OwnAnswer
<1>10. NobodyWaitsInVain'
  <2>1. Cardinality(Waiting') = 0
    BY <1>5, FS_EmptySet
  <2>2. Cardinality(Requested') \in Nat /\ Cardinality(OnTheWay') \in Nat
    <3>1. Requested' = Requested
      BY <1>2 DEF Requested
    <3> QED
      BY <1>1, <1>2, <3>1, Finite, OnTheWayTail
  <2> QED
    BY <2>1, <2>2 DEF NobodyWaitsInVain
<1> QED
  BY <1>7, <1>8, <1>9, <1>10 DEF McpInv

LEMMA StepSend ==
  ASSUME IsFiniteSet(Callers), McpInv, NEW c \in Callers, NEW op \in {"call", "enrich"}, Send(c, op)
  PROVE  McpInv'
<1>1. McpType /\ Ids
  BY DEF McpInv
<1>2. /\ link = "up" /\ calls[c].at = "idle" /\ nextId' = nextId + 1
      /\ UNCHANGED <<lists, link, wire, alive, taken>>
  BY DEF Send, Free
<1>3. OnTheWay' = OnTheWay
  BY <1>2 DEF OnTheWay
<1>4. CASE ~alive
  <2>1. asked' = asked /\ calls' = calls /\ solo' = solo
    BY <1>4 DEF Send
  <2>2. Waiting' = Waiting /\ nextId \in Nat
    BY <1>1, <2>1 DEF Waiting, McpType
  <2>3. McpType'
    BY <1>1, <1>2, <2>1, <2>2 DEF McpType
  <2>4. IdsGiven'
    <3>1. \A n \in Nat : n < nextId => n < nextId + 1
      BY <2>2
    <3>2. /\ \A d \in Waiting : calls[d].id \in Nat
          /\ \A q \in asked : q.id \in Nat
          /\ \A p \in taken : p[1] \in Nat /\ p[2] \in Nat
      BY <1>1 DEF Waiting, McpType, Call, Request
    <3>3. \A i \in DOMAIN wire : wire[i].id \in Nat
      BY <1>1, WireFacts DEF Line
    <3> QED
      BY <1>1, <1>2, <2>1, <2>2, <3>1, <3>2, <3>3 DEF Ids, IdsGiven
  <2>5. Ids'
    BY <1>1, <1>2, <2>1, <2>2, <2>4 DEF Ids, CallsOnce, AnswersOnce, TakenOnce
  <2>6. InTurn'
    <3>1. \A id \in solo : id \in Nat
      BY <1>1 DEF McpType
    <3> QED
      BY <1>2, <2>1, <2>2, <3>1 DEF McpInv, InTurn, OwnAnswer
  <2>7. ~alive'
    BY <1>2, <1>4
  <2> QED
    BY <2>3, <2>5, <2>6, <2>7 DEF McpInv, NobodyWaitsInVain
<1>5. CASE alive
  <2> DEFINE r == [id |-> nextId, op |-> op]
             k == [at |-> "waiting", id |-> nextId, op |-> op]
  <2>1. asked' = asked \cup {r} /\ calls' = [calls EXCEPT ![c] = k]
    BY <1>5 DEF Send
  <2>2. /\ r \in Request /\ r.id = nextId /\ r.op # "initialize"
        /\ k \in Call /\ k.at = "waiting" /\ k.id = nextId
    BY <1>1 DEF McpType, Request, Call
  <2> HIDE DEF r, k
  <2>3. /\ calls' \in [Callers -> Call] /\ calls'[c] = k
        /\ \A d \in Callers : d # c => calls'[d] = calls[d]
    BY <1>1, <2>1, <2>2 DEF McpType
  <2>4. Waiting' = Waiting \cup {c} /\ c \notin Waiting
    BY <1>2, <2>2, <2>3 DEF Waiting
  <2>5. asked' \in SUBSET Request /\ IsFiniteSet(asked')
    BY <1>1, <2>1, <2>2, FS_AddElement DEF McpType
  <2>6. McpType'
    <3>1. solo' \in SUBSET Nat
      BY <1>1, <1>5 DEF Send, McpType
    <3> QED
      BY <1>1, <1>2, <2>3, <2>5, <3>1 DEF McpType
  <2>7. Ids'
    <3>1. \A d \in Waiting : d \notin {c} => calls'[d].id = calls[d].id
      BY <2>3 DEF Waiting
    <3>2. /\ \A d \in {c} : calls'[d].id = nextId
          /\ \A b, d \in {c} : b = d
      BY <2>2, <2>3
    <3> QED
      BY <1>1, <1>2, <2>1, <2>2, <2>4, <3>1, <3>2, IdsSent
  <2>8. r \notin asked
    BY <1>1, <2>2 DEF Ids, IdsGiven, McpType
  <2>9. InTurn'
    <3>1. \/ NothingOwed /\ Waiting = {} /\ solo' = solo \cup {nextId}
          \/ solo' = solo \ {calls[d].id : d \in Waiting}
      BY <1>5 DEF Send
    <3>2. OwnAnswer /\ \A id \in solo : id \in Nat /\ id < nextId
      BY <1>1 DEF McpInv, InTurn, McpType
    <3>3. \A p \in taken : p[1] < nextId
      BY <1>1 DEF Ids, IdsGiven
    <3>4. nextId \in Nat /\ nextId \notin solo
      BY <1>1, <3>2 DEF McpType
    <3>5. \A id \in solo' : id < nextId'
      BY <1>2, <3>1, <3>2, <3>4
    <3>6. \A p \in taken : p[1] # nextId
      BY <1>1, <3>3, <3>4 DEF McpType
    <3>7. OwnAnswer'
      BY <1>2, <3>1, <3>2, <3>6 DEF OwnAnswer
    <3>8. CASE NothingOwed /\ Waiting = {} /\ solo' = solo \cup {nextId}
      <4>1. asked' = {r} /\ \A i \in DOMAIN wire : ~Response(wire[i])
        BY <2>1, <3>8 DEF NothingOwed, Response
      <4>2. \A d \in Waiting' : d = c /\ calls'[d].id = nextId
        BY <2>2, <2>3, <2>4, <3>8
      <4> QED
        BY <1>2, <2>2, <2>4, <3>5, <3>7, <3>8, <4>1, <4>2 DEF InTurn, Response
    <3>9. CASE solo' = solo \ {calls[d].id : d \in Waiting}
      <4>1. \A d \in Waiting' : calls'[d].id \notin solo'
        <5> SUFFICES ASSUME NEW d \in Waiting' PROVE calls'[d].id \notin solo'
          OBVIOUS
        <5>1. CASE d = c
          BY <2>2, <2>3, <3>4, <3>9, <5>1
        <5>2. CASE d # c
          <6>1. d \in Waiting /\ d \in Callers
            BY <2>4, <5>2 DEF Waiting
          <6> QED
            BY <2>3, <3>9, <5>2, <6>1
        <5> QED
          BY <5>1, <5>2
      <4> QED
        BY <3>5, <3>7, <4>1 DEF InTurn
    <3> QED
      BY <3>1, <3>8, <3>9
  <2>10. NobodyWaitsInVain'
    <3>1. Requested' = Requested \cup {r} /\ r \notin Requested
      BY <2>1, <2>2, <2>8 DEF Requested
    <3>2. Cardinality(Requested') = Cardinality(Requested) + 1
      BY <1>1, <3>1, Finite, FS_AddElement
    <3>3. Cardinality(Waiting') = Cardinality(Waiting) + 1
      BY <1>1, <2>4, Finite, FS_AddElement
    <3> QED
      BY <1>1, <1>2, <1>3, <1>5, <3>2, <3>3, Finite DEF McpInv, NobodyWaitsInVain
  <2> QED
    BY <2>6, <2>7, <2>9, <2>10 DEF McpInv
<1> QED
  BY <1>4, <1>5

LEMMA StepTake == ASSUME IsFiniteSet(Callers), McpInv, NEW c \in Callers, Take(c) PROVE McpInv'
<1>1. McpType /\ Ids
  BY DEF McpInv
<1>2. /\ calls[c].at = "waiting" /\ c \in Waiting /\ wire # <<>> /\ wire' = Tail(wire)
      /\ UNCHANGED <<solo, lists, link, nextId, asked, alive>>
  BY DEF Take, Waiting
<1>3. 1 \in DOMAIN wire /\ Head(wire) = wire[1] /\ wire[1] \in Line
  BY <1>1, <1>2, WireFacts
<1>4. /\ wire' \in Seq(Line)
      /\ \A i \in DOMAIN wire' : i + 1 \in DOMAIN wire /\ wire'[i] = wire[i + 1] /\ i \in Nat
      /\ \A i \in DOMAIN wire' : i + 1 # 1
  BY <1>1, <1>2, WireTail
<1>5. link = "up" /\ link' = "up"
  BY <1>1, <1>2 DEF McpType
<1>6. /\ \A i \in DOMAIN wire' : /\ i \in Nat /\ i + 1 \in DOMAIN wire /\ wire'[i].id = wire[i + 1].id
                                 /\ Response(wire'[i]) => Response(wire[i + 1])
      /\ Requested' = Requested
  BY <1>2, <1>4 DEF Requested
<1>7. CASE wire[1].kind = "notification"
  <2>1. calls' = calls /\ taken' = taken
    BY <1>3, <1>7 DEF Take
  <2>2. Waiting' = Waiting
    BY <2>1 DEF Waiting
  <2>3. McpType'
    BY <1>1, <1>2, <1>4, <2>1, <2>2 DEF McpType
  <2>4. Ids'
    BY <1>1, <1>2, <1>6, <2>1, <2>2, IdsStay
  <2>6. InTurn'
    BY <1>2, <1>4, <2>1, <2>2 DEF McpInv, InTurn, OwnAnswer, Response
  <2>7. NobodyWaitsInVain'
    BY <1>1, <1>2, <1>6, <1>7, <2>2, Finite, OnTheWayTail DEF McpInv, NobodyWaitsInVain
  <2> QED
    BY <2>3, <2>4, <2>6, <2>7 DEF McpInv
<1>8. CASE wire[1].kind # "notification"
  <2>1. /\ Set(c, "idle")
        /\ taken' = IF wire[1].kind = "broken" THEN taken ELSE taken \cup {<<calls[c].id, wire[1].id>>}
    BY <1>3, <1>8 DEF Take, Finish
  <2>2. /\ calls' \in [Callers -> Call] /\ Waiting' = Waiting \ {c}
        /\ \A d \in Callers : calls'[d].id = calls[d].id /\ calls'[d].op = calls[d].op
    BY <1>1, <2>1, StopsWaiting
  <2>3. \A d \in Waiting : calls'[d].id = calls[d].id
    BY <2>2 DEF Waiting
  <2>4. McpType'
    <3>1. calls[c].id \in Nat /\ wire[1].id \in Nat
      BY <1>1, <1>3 DEF McpType, Call, Line
    <3>2. taken' \in SUBSET (Nat \X Nat)
      BY <1>1, <2>1, <3>1 DEF McpType
    <3> QED
      BY <1>1, <1>2, <1>4, <1>5, <2>2, <3>2 DEF McpType
  <2>5. Ids'
    <3>1. CASE wire[1].kind = "broken"
      BY <1>1, <1>2, <1>6, <2>1, <2>2, <2>3, <3>1, IdsStay
    <3>2. CASE wire[1].kind # "broken"
      <4>1. Response(wire[1])
        BY <1>3, <1>8, <3>2 DEF Line, Response
      <4>2. taken' = taken \cup {<<calls[c].id, wire[1].id>>}
        BY <2>1, <3>2
      <4> QED
        BY <1>1, <1>2, <2>2, <2>3, <4>1, <4>2, IdsTaken
    <3> QED
      BY <3>1, <3>2
  <2>6. InTurn'
    <3>1. /\ OwnAnswer /\ \A id \in solo : id < nextId
          /\ calls[c].id \in solo => \A i \in DOMAIN wire : Response(wire[i]) => wire[i].id = calls[c].id
      BY <1>2 DEF McpInv, InTurn
    <3>2. wire[1].kind # "broken" => Response(wire[1])
      BY <1>3, <1>8 DEF Line, Response
    <3>3. OwnAnswer'
      BY <1>2, <1>3, <2>1, <3>1, <3>2 DEF OwnAnswer
    <3>4. ASSUME NEW d \in Waiting', calls'[d].id \in solo PROVE FALSE
      <4>1. d \in Waiting /\ d # c /\ calls[d].id \in solo
        BY <2>2, <2>3, <3>4
      <4> QED
        BY <1>2, <4>1 DEF McpInv, InTurn
    <3> QED
      BY <1>2, <3>1, <3>3, <3>4 DEF InTurn
  <2>7. NobodyWaitsInVain'
    <3>1. Cardinality(Waiting') = Cardinality(Waiting) - 1
      BY <1>1, <1>2, <2>2, Finite, FS_RemoveElement
    <3> QED
      BY <1>1, <1>2, <1>6, <3>1, Finite, OnTheWayTail DEF McpInv, NobodyWaitsInVain
  <2> QED
    BY <2>4, <2>5, <2>6, <2>7 DEF McpInv
<1> QED
  BY <1>7, <1>8

\* A caller stops waiting without a response; a line may have broken.
LEMMA GivesUp ==
  ASSUME IsFiniteSet(Callers), McpInv, NEW c \in Callers, c \in Waiting, Set(c, "idle"),
         UNCHANGED <<solo, lists, link, nextId, asked, alive, taken>>,
         \/ UNCHANGED wire
         \/ wire # <<>> /\ wire' = [wire EXCEPT ![1].kind = "broken"]
  PROVE  McpInv'
<1>1. McpType /\ Ids
  BY DEF McpInv
<1>2. /\ calls' \in [Callers -> Call] /\ Waiting' = Waiting \ {c}
      /\ \A d \in Waiting : calls'[d].id = calls[d].id
  BY <1>1, StopsWaiting DEF Waiting
<1>3. /\ wire' \in Seq(Line) /\ DOMAIN wire' = DOMAIN wire
      /\ \A i \in DOMAIN wire : /\ wire'[i].id = wire[i].id /\ wire'[i].op = wire[i].op
                                /\ wire'[i].kind \in {wire[i].kind, "broken"}
  BY <1>1, WireBroken DEF McpType
<1>4. McpType'
  BY <1>1, <1>2, <1>3 DEF McpType
<1>5. Ids'
  <2>1. \A i \in DOMAIN wire' : /\ i \in Nat /\ i + 0 \in DOMAIN wire /\ wire'[i].id = wire[i + 0].id
                                /\ Response(wire'[i]) => Response(wire[i + 0])
    BY <1>1, <1>3, WireFacts DEF Response
  <2> QED
    BY <1>1, <1>2, <2>1, IdsStay
<1>6. InTurn'
  <2>1. OwnAnswer /\ \A id \in solo : id < nextId
    BY DEF McpInv, InTurn
  <2>2. ASSUME NEW d \in Waiting', calls'[d].id \in solo PROVE FALSE
    <3>1. d \in Waiting /\ d # c /\ calls[d].id \in solo
      BY <1>2, <2>2
    <3> QED
      BY <3>1 DEF McpInv, InTurn
  <2> QED
    BY <2>1, <2>2 DEF InTurn, OwnAnswer
<1>7. NobodyWaitsInVain'
  <2>1. Requested' = Requested
    BY DEF Requested
  <2>2. OnTheWay \in SUBSET OnTheWay'
    BY <1>3 DEF OnTheWay
  <2>3. IsFiniteSet(OnTheWay') /\ Cardinality(OnTheWay') \in Nat
    <3>1. IsFiniteSet(DOMAIN wire)
      BY <1>1, Finite
    <3>2. OnTheWay' \in SUBSET DOMAIN wire
      BY <1>3 DEF OnTheWay
    <3> QED
      BY <3>1, <3>2, FS_Subset, FS_CardinalityType
  <2>4. Cardinality(OnTheWay) <= Cardinality(OnTheWay')
    BY <2>2, <2>3, FS_Subset
  <2>5. Cardinality(Waiting') = Cardinality(Waiting) - 1
    BY <1>1, <1>2, Finite, FS_RemoveElement
  <2> QED
    BY <1>1, <2>1, <2>3, <2>4, <2>5, Finite DEF McpInv, NobodyWaitsInVain
<1> QED
  BY <1>4, <1>5, <1>6, <1>7 DEF McpInv

LEMMA StepAnswer == ASSUME IsFiniteSet(Callers), McpInv, Answer PROVE McpInv'
<1>1. McpType /\ Ids
  BY DEF McpInv
<1>2. PICK q \in asked, kind \in {"result", "error"} :
        /\ asked' = asked \ {q}
        /\ wire' = Append(wire, [kind |-> kind, id |-> q.id, op |-> q.op])
  BY DEF Answer
<1>3. alive /\ UNCHANGED <<solo, lists, link, nextId, calls, alive, taken>>
  BY DEF Answer
<1> DEFINE m == [kind |-> kind, id |-> q.id, op |-> q.op]
           n == Len(wire) + 1
<1>4. m \in Line /\ m.id = q.id /\ m.op = q.op /\ m.kind = kind
  BY <1>1 DEF McpType, Request, Line
<1>5. wire' = Append(wire, m)
  BY <1>2
<1> HIDE DEF m
<1>6. /\ wire' \in Seq(Line) /\ DOMAIN wire' = DOMAIN wire \cup {n} /\ n \notin DOMAIN wire
      /\ wire'[n] = m /\ \A i \in DOMAIN wire : wire'[i] = wire[i]
  BY <1>1, <1>4, <1>5, WireAppend
<1> HIDE DEF n
<1>7. Waiting' = Waiting
  BY <1>3 DEF Waiting
<1>8. McpType'
  <2>1. asked' \in SUBSET Request /\ IsFiniteSet(asked')
    BY <1>1, <1>2, FS_RemoveElement DEF McpType
  <2> QED
    BY <1>1, <1>3, <1>6, <1>7, <2>1 DEF McpType
<1>9. Ids'
  BY <1>1, <1>2, <1>3, IdsAnswered
<1>10. InTurn'
  <2>1. OwnAnswer' /\ \A id \in solo' : id < nextId'
    BY <1>3 DEF McpInv, InTurn, OwnAnswer
  <2>2. \A i \in DOMAIN wire' : wire'[i].id = q.id \/ (i \in DOMAIN wire /\ wire'[i] = wire[i])
    BY <1>4, <1>6
  <2>3. ASSUME NEW c \in Waiting', calls'[c].id \in solo'
        PROVE  /\ Waiting' = {c}
               /\ \A r \in asked' : r.id = calls'[c].id
               /\ \A i \in DOMAIN wire' : Response(wire'[i]) => wire'[i].id = calls'[c].id
    <3>1. /\ Waiting = {c}
          /\ \A r \in asked : r.id = calls[c].id
          /\ \A i \in DOMAIN wire : Response(wire[i]) => wire[i].id = calls[c].id
      BY <1>3, <1>7, <2>3 DEF McpInv, InTurn
    <3> QED
      BY <1>2, <1>3, <1>7, <2>2, <3>1
  <2> QED
    BY <2>1, <2>3 DEF InTurn, Response
<1>11. NobodyWaitsInVain'
  <2>1. CASE q.op = "initialize"
    <3>1. Requested' = Requested
      BY <1>2, <2>1 DEF Requested
    <3>2. OnTheWay' = OnTheWay
      BY <1>4, <1>6, <2>1 DEF OnTheWay
    <3> QED
      BY <1>3, <1>7, <3>1, <3>2 DEF McpInv, NobodyWaitsInVain
  <2>2. CASE q.op # "initialize"
    <3>1. Requested' = Requested \ {q} /\ q \in Requested
      BY <1>2, <2>2 DEF Requested
    <3>2. OnTheWay' = OnTheWay \cup {n} /\ n \notin OnTheWay
      BY <1>4, <1>6, <2>2 DEF OnTheWay
    <3>3. Cardinality(Requested') = Cardinality(Requested) - 1
      BY <1>1, <3>1, Finite, FS_RemoveElement
    <3>4. Cardinality(OnTheWay') = Cardinality(OnTheWay) + 1
      BY <1>1, <3>2, Finite, FS_AddElement
    <3> QED
      BY <1>1, <1>3, <1>7, <3>3, <3>4, Finite DEF McpInv, NobodyWaitsInVain
  <2> QED
    BY <2>1, <2>2
<1> QED
  BY <1>8, <1>9, <1>10, <1>11 DEF McpInv

LEMMA StepNotify == ASSUME IsFiniteSet(Callers), McpInv, Notify PROVE McpInv'
<1>1. McpType /\ Ids
  BY DEF McpInv
<1> DEFINE m == [kind |-> "notification", id |-> 0, op |-> "none"]
           n == Len(wire) + 1
<1>2. wire' = Append(wire, m) /\ UNCHANGED <<solo, lists, link, nextId, calls, asked, alive, taken>>
  BY DEF Notify
<1>3. m \in Line /\ m.kind = "notification" /\ m.id = 0
  BY DEF Line
<1> HIDE DEF m
<1>4. /\ wire' \in Seq(Line) /\ DOMAIN wire' = DOMAIN wire \cup {n} /\ n \notin DOMAIN wire
      /\ wire'[n] = m /\ \A i \in DOMAIN wire : wire'[i] = wire[i]
  BY <1>1, <1>2, <1>3, WireAppend
<1> HIDE DEF n
<1>5. /\ Waiting' = Waiting /\ Requested' = Requested /\ OnTheWay' = OnTheWay
      /\ nextId > 0
  BY <1>1, <1>2, <1>3, <1>4 DEF Waiting, Requested, OnTheWay, McpType
<1>6. \A i \in DOMAIN wire' : \/ i \in DOMAIN wire /\ wire'[i] = wire[i]
                              \/ i = n /\ ~Response(wire'[i]) /\ wire'[i].id < nextId /\ wire'[i].kind # "broken"
  BY <1>3, <1>4, <1>5 DEF Response
<1>7. McpType'
  BY <1>1, <1>2, <1>4, <1>5 DEF McpType
<1>8. Ids'
  <2>1. IdsGiven'
    BY <1>1, <1>2, <1>5, <1>6 DEF Ids, IdsGiven
  <2>2. CallsOnce' /\ TakenOnce'
    BY <1>1, <1>2, <1>5 DEF Ids, CallsOnce, TakenOnce
  <2>3. \A i \in DOMAIN wire' : Response(wire'[i]) => i \in DOMAIN wire /\ wire'[i] = wire[i]
    BY <1>6
  <2>4. AnswersOnce'
    BY <1>1, <1>2, <2>3 DEF Ids, AnswersOnce, Response
  <2> QED
    BY <2>1, <2>2, <2>4 DEF Ids
<1>9. InTurn'
  BY <1>2, <1>5, <1>6 DEF McpInv, InTurn, OwnAnswer, Response
<1>10. NobodyWaitsInVain'
  BY <1>2, <1>5 DEF McpInv, NobodyWaitsInVain
<1> QED
  BY <1>7, <1>8, <1>9, <1>10 DEF McpInv

LEMMA McpStep == McpConstants /\ McpInv /\ [Next]_mcpVars => McpInv'
<1> SUFFICES ASSUME IsFiniteSet(Callers), McpInv, [Next]_mcpVars PROVE McpInv'
  BY DEF McpConstants
<1>1. CASE GreetFails
  <2>1. Waiting = {}
    BY <1>1 DEF GreetFails, McpInv, McpType
  <2> QED
    BY <1>1, <2>1, Frame DEF GreetFails, McpInv, McpType
<1>2. ASSUME NEW c \in Callers, EnrichWithout(c) PROVE McpInv'
  BY <1>2, Frame DEF EnrichWithout, McpInv, McpType
<1>3. CASE Die
  BY <1>3, Frame DEF Die, McpInv, McpType
<1>4. CASE UNCHANGED mcpVars \/ Quiet
  BY <1>4, Frame DEF Quiet, mcpVars, McpInv, McpType
<1>5. ASSUME NEW c \in Callers, Closed(c) PROVE McpInv'
  BY <1>5, GivesUp DEF Closed, Finish, Waiting
<1>6. ASSUME NEW c \in Callers, Cancel(c) PROVE McpInv'
  BY <1>6, GivesUp DEF Cancel, Waiting
<1> QED
  BY <1>1, <1>2, <1>3, <1>4, <1>5, <1>6, StepGreet, StepGreeted, StepSend, StepTake, StepAnswer, StepNotify
  DEF Next

\* For any finite set of callers: every response ends one request and every
\* request takes one response, its own if nothing was owed when it was sent and
\* nobody joined; and who waits on a server that lives has a response ahead.
THEOREM RulesKept == McpConstants => (Spec => []McpKeepsRules)
<1> SUFFICES ASSUME McpConstants PROVE Spec => []McpKeepsRules
  OBVIOUS
<1> QED
  BY McpInit, McpStep, McpSafe, PTL DEF Spec

-----------------------------------------------------------------------------
(* The sessions of a host.                                                  *)

CONSTANTS Idle, Life, MaxTime, MaxTurns

VARIABLES storage, named, apart, now, live, stored, writing, loading, doomed, saved, lost

D == INSTANCE Sessions WITH kind <- storage, careful <- apart

\* What the values of the constants have in common.
SessionConstants == Idle \in Nat /\ Life \in Nat /\ MaxTime \in Nat /\ MaxTurns \in Nat

Held == [turns : Nat, active : Nat, created : Nat, there : BOOLEAN]
Copy == [session : Held, mtime : Nat, whole : BOOLEAN]

\* Types; no activity is later than now.
SessionType ==
  /\ storage \in {"memory", "disk"} /\ named \in BOOLEAN /\ apart \in BOOLEAN
  /\ now \in Nat /\ saved \in Nat /\ doomed \in BOOLEAN /\ lost \in BOOLEAN
  /\ live \in Held /\ writing \in Held /\ loading \in Held /\ stored \in Copy
  /\ \A s \in {live, writing, loading, stored.session} : s.active <= now /\ s.created <= now

LEMMA HeldFacts ==
  ASSUME SessionConstants, SessionType
  PROVE  /\ D!None \in Held /\ ~D!None.there /\ D!None.active <= now /\ D!None.created <= now
         /\ D!NoCopy \in Copy /\ D!NoCopy.session = D!None
         /\ D!Fresh \in Held /\ D!Fresh.there /\ D!Fresh.turns = 0 /\ D!Fresh.active = now /\ D!Fresh.created = now
  BY DEF D!None, D!NoCopy, D!Fresh, D!Session, Held, Copy, SessionType

\* What a save takes of the live session.
LEMMA SnapshotFacts ==
  ASSUME SessionType, NEW s \in D!Snapshot, live.there
  PROVE  s \in Held /\ s.there /\ s.active <= now /\ s.created <= now /\ (apart => s = live)
<1>1. live \in Held /\ live.active <= now /\ live.created <= now
  BY DEF SessionType
<1>2. CASE s = live
  BY <1>1, <1>2
<1>3. CASE s = [live EXCEPT !.turns = 0] /\ ~apart
  BY <1>1, <1>3 DEF Held
<1>4. CASE s = [live EXCEPT !.created = 0] /\ ~apart
  BY <1>1, <1>4 DEF Held, SessionType
<1> QED
  BY <1>2, <1>3, <1>4 DEF D!Snapshot

\* A copy in the place of another.
LEMMA CopyType ==
  ASSUME NEW s \in Held, NEW t \in Nat, NEW w \in BOOLEAN
  PROVE  LET c == [session |-> s, mtime |-> t, whole |-> w]
         IN  c \in Copy /\ c.session = s /\ c.whole = w
  BY DEF Copy

LEMMA ReadFacts ==
  ASSUME SessionConstants, SessionType
  PROVE  D!Read \in Held /\ D!Read.there /\ D!Read.active <= now /\ D!Read.created <= now
<1>1. CASE D!Readable(stored)
  BY <1>1 DEF D!Read, D!Readable, SessionType, Copy
<1>2. CASE ~D!Readable(stored)
  BY <1>2, HeldFacts DEF D!Read, SessionType
<1> QED
  BY <1>1, <1>2

LEMMA SessionTypeStep ==
  ASSUME SessionConstants, SessionType, [D!Next]_(D!sessVars)
  PROVE  SessionType'
<1>0. /\ D!None \in Held /\ D!NoCopy \in Copy /\ D!NoCopy.session = D!None
      /\ D!None.active <= now /\ D!None.created <= now
  BY HeldFacts
<1>1. CASE D!Turn
  <2>1. live \in Held /\ now \in Nat /\ live.turns + 1 \in Nat
    BY DEF SessionType, Held
  <2>2. live' = [live EXCEPT !.turns = live.turns + 1, !.active = now]
    BY <1>1 DEF D!Turn
  <2> DEFINE n == live.turns + 1
  <2>3. live' = [live EXCEPT !.turns = n, !.active = now] /\ n \in Nat
    BY <2>1, <2>2
  <2> HIDE DEF n
  <2>4. live' \in Held /\ live'.active = now /\ live'.created = live.created
    BY <2>1, <2>3 DEF Held
  <2> QED
    BY <1>1, <2>4 DEF D!Turn, SessionType
<1>2. CASE D!SaveMemory
  <2>1. PICK s \in D!Snapshot : stored' = [session |-> s, mtime |-> now, whole |-> TRUE] /\ saved' = s.turns
    BY <1>2 DEF D!SaveMemory
  <2>2. s \in Held /\ s.active <= now /\ s.created <= now
    BY <1>2, SnapshotFacts DEF D!SaveMemory
  <2>3. stored' \in Copy /\ stored'.session = s /\ saved' \in Nat
    BY <2>1, <2>2, CopyType DEF SessionType, Held
  <2> QED
    BY <1>2, <2>2, <2>3 DEF D!SaveMemory, SessionType
<1>3. CASE D!BeginWrite
  <2>1. PICK s \in D!Snapshot : writing' = s /\ stored' = [session |-> s, mtime |-> now, whole |-> FALSE]
    BY <1>3 DEF D!BeginWrite
  <2>2. s \in Held /\ s.active <= now /\ s.created <= now
    BY <1>3, SnapshotFacts DEF D!BeginWrite
  <2>3. stored' \in Copy /\ stored'.session = s
    BY <2>1, <2>2, CopyType DEF SessionType
  <2> QED
    BY <1>3, <2>1, <2>2, <2>3 DEF D!BeginWrite, SessionType
<1>4. CASE D!EndWrite
  <2>1. /\ stored' \in Copy
        /\ stored'.session.active <= now /\ stored'.session.created <= now
    <3>1. CASE stored.session.there
      BY <1>4, <3>1, CopyType DEF D!EndWrite, SessionType
    <3>2. CASE ~stored.session.there
      BY <1>4, <3>2 DEF D!EndWrite, SessionType
    <3> QED
      BY <3>1, <3>2
  <2>2. saved' \in Nat /\ writing' = D!None
    BY <1>4 DEF D!EndWrite, SessionType, Held
  <2> QED
    BY <1>0, <1>4, <2>1, <2>2 DEF D!EndWrite, SessionType
<1>5. CASE D!BeginLoad
  BY <1>5, ReadFacts DEF D!BeginLoad, SessionType
<1>6. CASE D!EndLoad
  BY <1>0, <1>6 DEF D!EndLoad, SessionType
<1>7. CASE D!GetOrCreate
  BY <1>7, ReadFacts DEF D!GetOrCreate, SessionType
<1>8. CASE D!RemoveLive
  BY <1>0, <1>8 DEF D!RemoveLive, SessionType
<1>9. CASE D!DeleteStored \/ D!Scan \/ D!Remove
  <2>1. /\ UNCHANGED <<storage, named, apart, now, live, writing, loading, saved>>
        /\ stored' \in {stored, D!NoCopy} /\ doomed' \in BOOLEAN
        /\ lost' = lost \/ lost' = (lost \/ D!InTime(stored.session))
    BY <1>9 DEF D!DeleteStored, D!Scan, D!Remove, SessionType
  <2>2. lost' \in BOOLEAN
    BY <2>1 DEF SessionType, D!InTime
  <2> QED
    BY <1>0, <2>1, <2>2 DEF SessionType
<1>10. CASE D!Crash
  BY <1>0, <1>10 DEF D!Crash, SessionType
<1>11. CASE D!Second
  <2>1. now' \in Nat /\ now <= now'
    BY <1>11 DEF D!Second, SessionType
  <2>2. \A s \in Held : s.active <= now /\ s.created <= now => s.active <= now' /\ s.created <= now'
    BY <2>1 DEF SessionType, Held
  <2>3. stored.session \in Held
    BY DEF SessionType, Copy
  <2> QED
    BY <1>11, <2>1, <2>2, <2>3 DEF D!Second, SessionType
<1>12. CASE UNCHANGED D!sessVars
  BY <1>12 DEF D!sessVars, SessionType
<1> QED
  BY <1>1, <1>2, <1>3, <1>4, <1>5, <1>6, <1>7, <1>8, <1>9, <1>10, <1>11, <1>12 DEF D!Next

-----------------------------------------------------------------------------
(* Where nothing overlaps.                                                  *)

\* One thing at a time; a write is of the session that is live, or was, and its
\* file is there; what a load has read is what is stored; a copy that a clean-up
\* is about to delete has expired.
OneAtATime ==
  /\ writing.there => ~loading.there /\ ~doomed
  /\ loading.there => ~doomed /\ ~live.there

WritesLive ==
  writing.there =>
    stored.session.there /\ (live.there => live.turns >= writing.turns)

LoadsStored ==
  loading.there /\ stored.session.there /\ named => loading.turns = stored.session.turns

DoomedExpired == doomed /\ stored.session.there => D!Expired(stored.session)

Careful ==
  apart => OneAtATime /\ WritesLive /\ LoadsStored /\ DoomedExpired /\ D!SessionsKept

SessionsInv == SessionType /\ Careful

LEMMA SessionsInit == SessionConstants /\ D!Init => SessionsInv
<1> SUFFICES ASSUME SessionConstants, D!Init PROVE SessionsInv
  OBVIOUS
<1>1. D!None \in Held /\ ~D!None.there /\ D!None.active = 0 /\ D!None.created = 0
      /\ D!NoCopy \in Copy /\ D!NoCopy.session = D!None
  BY DEF D!None, D!NoCopy, Held, Copy
<1>2. SessionType
  <2>1. now = 0 /\ live = D!None /\ writing = D!None /\ loading = D!None /\ stored = D!NoCopy
    BY DEF D!Init
  <2>2. \A s \in {live, writing, loading, stored.session} : s.active <= now /\ s.created <= now
    BY <1>1, <2>1
  <2>3. live \in Held /\ writing \in Held /\ loading \in Held /\ stored \in Copy
    BY <1>1, <2>1
  <2>4. /\ storage \in {"memory", "disk"} /\ named \in BOOLEAN /\ apart \in BOOLEAN
        /\ now \in Nat /\ saved \in Nat /\ doomed \in BOOLEAN /\ lost \in BOOLEAN
    BY DEF D!Init
  <2> QED
    BY <2>2, <2>3, <2>4 DEF SessionType
<1>3. Careful
  BY <1>1 DEF D!Init, Careful, OneAtATime, WritesLive, LoadsStored, DoomedExpired, D!SessionsKept,
              D!TurnsRecovered, D!CleanUpSpares
<1> QED
  BY <1>2, <1>3 DEF SessionsInv

\* What has expired stays expired, and is not in time.
LEMMA ExpiredFacts ==
  ASSUME SessionConstants, SessionType, NEW s \in Held, s.active <= now, s.created <= now, D!Expired(s)
  PROVE  ~D!InTime(s) /\ (now' \in Nat /\ now' >= now => D!Expired(s)')
  BY DEF SessionConstants, SessionType, Held, D!Expired, D!InTime

\* The copy of a session that is there, where nothing overlaps.
LEMMA CarefulRead ==
  ASSUME SessionConstants, SessionType, apart, Careful, ~D!Busy
  PROVE  stored.session.there /\ named => D!Read.turns = saved
<1>1. stored.session.there => stored.whole /\ stored.session.turns = saved
  BY DEF Careful, D!SessionsKept, D!TurnsRecovered, D!Busy
<1> QED
  BY <1>1 DEF D!Read, D!Readable

LEMMA CarefulStep ==
  ASSUME SessionConstants, SessionType, Careful, [D!Next]_(D!sessVars)
  PROVE  Careful'
<1> SUFFICES ASSUME apart, apart' = apart
             PROVE  /\ OneAtATime' /\ WritesLive' /\ LoadsStored' /\ DoomedExpired'
                    /\ D!TurnsRecovered' /\ D!CleanUpSpares'
  <2>1. apart' = apart
    BY DEF D!Next, D!sessVars, D!Turn, D!SaveMemory, D!BeginWrite, D!EndWrite, D!BeginLoad, D!EndLoad, D!GetOrCreate,
           D!RemoveLive, D!DeleteStored, D!Scan, D!Remove, D!Crash, D!Second
  <2> QED
    BY <2>1 DEF Careful, D!SessionsKept
<1>0. /\ OneAtATime /\ WritesLive /\ LoadsStored /\ DoomedExpired /\ D!TurnsRecovered /\ ~lost
      /\ ~D!None.there /\ D!None.turns = 0 /\ D!NoCopy.session = D!None /\ D!NoCopy.whole
  BY DEF Careful, D!SessionsKept, D!CleanUpSpares, D!None, D!NoCopy
<1>1. /\ live \in Held /\ writing \in Held /\ loading \in Held /\ stored \in Copy /\ stored.session \in Held
      /\ now \in Nat /\ saved \in Nat /\ lost \in BOOLEAN /\ doomed \in BOOLEAN
      /\ stored.session.active <= now /\ stored.session.created <= now
  BY DEF SessionType, Copy
<1>2. CASE D!Turn
  <2>1. /\ live'.turns = live.turns + 1 /\ live'.there = live.there /\ live.there /\ live.turns \in Nat
        /\ UNCHANGED <<named, now, stored, writing, loading, doomed, saved, lost>>
    BY <1>1, <1>2 DEF D!Turn, Held
  <2>2. writing.turns \in Nat /\ saved \in Nat
    BY <1>1 DEF Held
  <2>3. OneAtATime' /\ LoadsStored' /\ DoomedExpired' /\ D!CleanUpSpares'
    BY <1>0, <2>1 DEF OneAtATime, LoadsStored, DoomedExpired, D!Expired, D!CleanUpSpares
  <2>4. WritesLive'
    BY <1>0, <2>1, <2>2 DEF WritesLive
  <2>5. D!TurnsRecovered'
    BY <1>0, <2>1, <2>2 DEF D!TurnsRecovered
  <2> QED
    BY <2>3, <2>4, <2>5
<1>3. CASE D!SaveMemory
  <2>1. /\ ~D!Busy /\ live.there
        /\ UNCHANGED <<named, now, live, writing, loading, doomed, lost>>
    BY <1>3 DEF D!SaveMemory, D!MayBegin
  <2>2. stored' = [session |-> live, mtime |-> now, whole |-> TRUE] /\ saved' = live.turns
    <3>1. \A s \in D!Snapshot : s = live
      BY <2>1, SnapshotFacts
    <3> QED
      BY <1>3, <3>1 DEF D!SaveMemory
  <2>3. stored'.session = live /\ stored'.whole /\ live.turns \in Nat
    BY <1>1, <2>2 DEF Held
  <2> QED
    BY <1>0, <2>1, <2>2, <2>3 DEF D!Busy, OneAtATime, WritesLive, LoadsStored, DoomedExpired, D!TurnsRecovered,
                                  D!CleanUpSpares
<1>4. CASE D!BeginWrite
  <2>1. /\ ~D!Busy /\ live.there
        /\ UNCHANGED <<named, now, live, loading, doomed, saved, lost>>
    BY <1>4 DEF D!BeginWrite, D!MayBegin
  <2>2. stored' = [session |-> live, mtime |-> now, whole |-> FALSE] /\ writing' = live
    <3>1. \A s \in D!Snapshot : s = live
      BY <2>1, SnapshotFacts
    <3> QED
      BY <1>4, <3>1 DEF D!BeginWrite
  <2>3. stored'.session = live /\ live.turns \in Nat
    BY <1>1, <2>2 DEF Held
  <2> QED
    BY <1>0, <2>1, <2>2, <2>3 DEF D!Busy, OneAtATime, WritesLive, LoadsStored, DoomedExpired, D!TurnsRecovered,
                                  D!CleanUpSpares
<1>5. CASE D!EndWrite
  <2>1. /\ writing.there /\ stored.session.there /\ ~loading.there /\ ~doomed
        /\ live.there => live.turns >= writing.turns
        /\ UNCHANGED <<named, now, live, loading, doomed, lost>>
    BY <1>0, <1>5 DEF D!EndWrite, OneAtATime, WritesLive
  <2>2. /\ stored' = [session |-> writing, mtime |-> now, whole |-> TRUE]
        /\ saved' = writing.turns /\ writing' = D!None
    BY <1>5, <2>1 DEF D!EndWrite
  <2>3. stored'.session = writing /\ stored'.whole
    BY <2>2
  <2> QED
    BY <1>0, <2>1, <2>2, <2>3 DEF OneAtATime, WritesLive, LoadsStored, DoomedExpired, D!TurnsRecovered,
                                  D!CleanUpSpares
<1>6. CASE D!BeginLoad
  <2>1. /\ ~D!Busy /\ ~live.there /\ loading' = D!Read
        /\ UNCHANGED <<named, now, live, stored, writing, doomed, saved, lost>>
    BY <1>6 DEF D!BeginLoad, D!MayBegin
  <2>2. stored.session.there /\ named => D!Read.turns = saved /\ stored.session.turns = saved
    BY <1>0, <2>1, CarefulRead DEF D!TurnsRecovered, D!Busy
  <2> QED
    BY <1>0, <2>1, <2>2 DEF D!Busy, OneAtATime, WritesLive, LoadsStored, DoomedExpired, D!TurnsRecovered,
                            D!CleanUpSpares, D!Expired
<1>7. CASE D!EndLoad
  <2>1. /\ loading.there /\ ~doomed /\ ~writing.there /\ live' = loading /\ loading' = D!None
        /\ UNCHANGED <<named, now, stored, writing, doomed, saved, lost>>
    BY <1>0, <1>7 DEF D!EndLoad, OneAtATime
  <2>2. stored.session.there => stored.whole /\ stored.session.turns = saved
    BY <1>0, <2>1 DEF D!TurnsRecovered
  <2>3. stored.session.there /\ named => loading.turns >= saved
    BY <1>0, <1>1, <2>1, <2>2 DEF LoadsStored
  <2> QED
    BY <1>0, <2>1, <2>2, <2>3 DEF OneAtATime, WritesLive, LoadsStored, DoomedExpired, D!TurnsRecovered,
                                  D!CleanUpSpares
<1>8. CASE D!GetOrCreate
  <2>1. /\ ~D!Busy /\ live' = D!Read
        /\ UNCHANGED <<named, now, stored, writing, loading, doomed, saved, lost>>
    BY <1>8 DEF D!GetOrCreate, D!MayBegin
  <2>2. stored.session.there /\ named => D!Read.turns >= saved
    BY <1>1, <2>1, CarefulRead
  <2> QED
    BY <1>0, <2>1, <2>2 DEF D!Busy, OneAtATime, WritesLive, LoadsStored, DoomedExpired, D!TurnsRecovered,
                            D!CleanUpSpares
<1>9. CASE D!RemoveLive
  <2>1. /\ live' = D!None
        /\ UNCHANGED <<named, now, stored, writing, loading, doomed, saved, lost>>
    BY <1>9 DEF D!RemoveLive
  <2> QED
    BY <1>0, <2>1 DEF OneAtATime, WritesLive, LoadsStored, DoomedExpired, D!Expired, D!TurnsRecovered,
                      D!CleanUpSpares
<1>10. CASE D!DeleteStored
  <2>1. /\ ~D!Busy /\ stored' = D!NoCopy
        /\ UNCHANGED <<named, now, live, writing, loading, doomed, saved, lost>>
    BY <1>10 DEF D!DeleteStored, D!MayBegin
  <2> QED
    BY <1>0, <2>1 DEF D!Busy, OneAtATime, WritesLive, LoadsStored, DoomedExpired, D!TurnsRecovered,
                      D!CleanUpSpares
<1>11. CASE D!Scan
  <2>1. /\ ~D!Busy /\ UNCHANGED <<named, now, live, writing, loading, saved>> /\ D!Condemned(stored)
    BY <1>11 DEF D!Scan, D!MayBegin
  <2>2. stored.session.there /\ D!Expired(stored.session)
    BY <1>0, <2>1 DEF D!Condemned, D!TurnsRecovered, D!Busy
  <2>3. ~D!InTime(stored.session)
    BY <1>1, <2>2, ExpiredFacts
  <2>4. CASE storage = "disk"
    <3>1. doomed' /\ UNCHANGED <<stored, lost>>
      BY <1>11, <2>4 DEF D!Scan
    <3> QED
      BY <1>0, <2>1, <2>2, <3>1 DEF D!Busy, OneAtATime, WritesLive, LoadsStored, DoomedExpired, D!Expired,
                                    D!TurnsRecovered, D!CleanUpSpares
  <2>5. CASE storage # "disk"
    <3>1. stored' = D!NoCopy /\ doomed' = doomed /\ lost' = (lost \/ D!InTime(stored.session))
      BY <1>11, <2>5 DEF D!Scan
    <3>2. ~lost'
      BY <1>0, <2>3, <3>1
    <3> QED
      BY <1>0, <2>1, <3>1, <3>2 DEF D!Busy, OneAtATime, WritesLive, LoadsStored, DoomedExpired,
                                    D!TurnsRecovered, D!CleanUpSpares
  <2> QED
    BY <2>4, <2>5
<1>12. CASE D!Remove
  <2>1. /\ doomed /\ ~doomed' /\ stored' = D!NoCopy /\ ~writing.there /\ ~loading.there
        /\ lost' = (lost \/ D!InTime(stored.session))
        /\ UNCHANGED <<named, now, live, writing, loading, saved>>
    BY <1>0, <1>12 DEF D!Remove, OneAtATime
  <2>2. ~D!InTime(stored.session)
    <3>1. CASE stored.session.there
      BY <1>0, <1>1, <2>1, <3>1, ExpiredFacts DEF DoomedExpired
    <3>2. CASE ~stored.session.there
      BY <3>2 DEF D!InTime
    <3> QED
      BY <3>1, <3>2
  <2>3. ~lost'
    BY <1>0, <2>1, <2>2
  <2> QED
    BY <1>0, <2>1, <2>3 DEF OneAtATime, WritesLive, LoadsStored, DoomedExpired, D!TurnsRecovered,
                            D!CleanUpSpares
<1>13. CASE D!Crash
  <2>1. /\ live' = D!None /\ writing' = D!None /\ loading' = D!None /\ ~doomed' /\ ~writing.there
        /\ stored' \in {stored, D!NoCopy} /\ UNCHANGED <<named, now, saved, lost>>
    BY <1>13 DEF D!Crash
  <2> QED
    BY <1>0, <2>1 DEF OneAtATime, WritesLive, LoadsStored, DoomedExpired, D!TurnsRecovered, D!CleanUpSpares
<1>14. CASE D!Second
  <2>1. /\ now' = now + 1 /\ UNCHANGED <<named, live, stored, writing, loading, doomed, saved, lost>>
    BY <1>14 DEF D!Second
  <2>2. now' \in Nat /\ now' >= now
    BY <1>1, <2>1
  <2>3. DoomedExpired'
    <3>1. ASSUME NEW s \in Held, s = stored.session, doomed, s.there PROVE D!Expired(s)'
      BY <1>0, <1>1, <2>2, <3>1, ExpiredFacts DEF DoomedExpired
    <3> QED
      BY <1>1, <2>1, <3>1 DEF DoomedExpired, D!Expired
  <2> QED
    BY <1>0, <2>1, <2>3 DEF OneAtATime, WritesLive, LoadsStored, D!TurnsRecovered, D!CleanUpSpares
<1>15. CASE UNCHANGED D!sessVars
  BY <1>0, <1>15 DEF D!sessVars, OneAtATime, WritesLive, LoadsStored, DoomedExpired, D!Expired, D!TurnsRecovered,
                     D!CleanUpSpares
<1> QED
  BY <1>2, <1>3, <1>4, <1>5, <1>6, <1>7, <1>8, <1>9, <1>10, <1>11, <1>12, <1>13, <1>14, <1>15 DEF D!Next

LEMMA SessionsStep == SessionConstants /\ SessionsInv /\ [D!Next]_(D!sessVars) => SessionsInv'
  BY SessionTypeStep, CarefulStep DEF SessionsInv

LEMMA SessionsSafe == SessionsInv => D!SessionsKept
  BY DEF SessionsInv, Careful, D!SessionsKept, D!TurnsRecovered, D!CleanUpSpares

\* Where no save, load and clean-up overlap: a session that is live again goes
\* on from what the last save was given, and a clean-up spares what has not
\* expired, whatever the idle time and the lifetime.
THEOREM SessionsAreKept == SessionConstants => (D!Spec => []D!SessionsKept)
<1> SUFFICES ASSUME SessionConstants PROVE D!Spec => []D!SessionsKept
  OBVIOUS
<1> QED
  BY SessionsInit, SessionsStep, SessionsSafe, PTL DEF D!Spec

-----------------------------------------------------------------------------
(* The wiki spaces.                                                         *)

CONSTANTS SpaceNames, SpacePaths, SpaceClients, SettingSections, SettingKeys, MaxSpaceOps, MaxSets

VARIABLES single, listed, engine, mounted, folders, tasks, operations, strayed, settingsNow,
  settingsTold, setCount

S == INSTANCE WikiSpaces WITH Names <- SpaceNames, Paths <- SpacePaths, Clients <- SpaceClients,
  Sections <- SettingSections, Keys <- SettingKeys, MaxOps <- MaxSpaceOps, alone <- single,
  file <- listed, dirs <- folders, task <- tasks, ops <- operations, cfg <- settingsNow,
  told <- settingsTold, sets <- setCount

Entry(n, p) == [name |-> n, path |-> p]
Entries(f) == {f.wikis[i] : i \in DOMAIN f.wikis}
ConfigFile == [wikis : Seq([name : SpaceNames, path : SpacePaths]), default : SpaceNames]

\* A config file names each wiki once, the default among them.
Sound(f) ==
  /\ f \in ConfigFile /\ f.default \in S!Registered(f)
  /\ \A i, j \in DOMAIN f.wikis : f.wikis[i].name = f.wikis[j].name => i = j

\* All that is mounted, but for these names, is what the file says.
Agree(names) == \A n \in DOMAIN mounted \ names : Entry(n, mounted[n]) \in Entries(listed)

\* The steps of the operations.
Register(n, p, forced) == [do |-> "register", name |-> n, path |-> p, force |-> forced]
MountAt(n, p) == [do |-> "mount", name |-> n, path |-> p]
DefaultTo(n) == [do |-> "default", name |-> n]
EngineTo(n) == [do |-> "engineDefault", name |-> n]
Unmount(n) == [do |-> "unmount", name |-> n]
Unregister(n, gone) == [do |-> "remove", name |-> n, delete |-> gone]

\* What an operation has still to do; one that is alone knows how the file and the
\* engine differ until it is done.
Registering(st) ==
  /\ \E n \in SpaceNames, p \in SpacePaths, forced \in BOOLEAN :
       st \in {<<Register(n, p, forced), MountAt(n, p)>>, <<Register(n, p, forced), DefaultTo(n), MountAt(n, p)>>}
  /\ single => Agree({})
Mounting(st) ==
  \E n \in SpaceNames, p \in SpacePaths :
    /\ st \in {<<DefaultTo(n), MountAt(n, p)>>, <<MountAt(n, p)>>}
    /\ single => Agree({n}) /\ Entry(n, p) \in Entries(listed)
Unmounting(st) ==
  /\ \E n \in SpaceNames, gone \in BOOLEAN : st = <<Unmount(n), Unregister(n, gone)>>
  /\ single => Agree({})
Removing(st) ==
  \E n \in SpaceNames, gone \in BOOLEAN :
    /\ st = <<Unregister(n, gone)>>
    /\ single => Agree({}) /\ n \notin DOMAIN mounted
Choosing(st) ==
  /\ \E n \in SpaceNames : st \in {<<DefaultTo(n), EngineTo(n)>>, <<EngineTo(n)>>}
  /\ single => Agree({})
Stage(st) == Registering(st) \/ Mounting(st) \/ Unmounting(st) \/ Removing(st) \/ Choosing(st)

\* A config that was loaded is sound and passed the checks of its step.
Loaded(c) ==
  \A f \in tasks[c].loaded :
    /\ Sound(f) /\ S!Now(c).do \in S!FileSteps /\ ~S!Fails(S!Now(c), f)
    /\ single => f = listed

Busy(c) == tasks[c] # S!Idle
SpacesType ==
  /\ single \in BOOLEAN /\ Sound(listed) /\ engine \in ConfigFile
  /\ DOMAIN mounted \in SUBSET SpaceNames /\ \A n \in DOMAIN mounted : mounted[n] \in SpacePaths
  /\ mounted = [n \in DOMAIN mounted |-> mounted[n]]
  /\ engine.default \in DOMAIN mounted
  /\ tasks = [c \in SpaceClients |-> [steps |-> tasks[c].steps, loaded |-> tasks[c].loaded]]
ClientsStaged ==
  /\ \A c \in SpaceClients : Busy(c) => Stage(tasks[c].steps) /\ Loaded(c)
  /\ single => \A c, d \in SpaceClients : Busy(c) /\ Busy(d) => c = d
  /\ single /\ S!Resting => Agree({})

\* A wiki's section of settings is what was set in it, or is not there.
SettingsTold ==
  /\ settingsNow = [global |-> settingsNow.global, wiki |-> settingsNow.wiki]
  /\ settingsTold = [global |-> settingsTold.global, wiki |-> settingsTold.wiki]
  /\ settingsNow.global = settingsTold.global
  /\ settingsTold.global \in [SettingSections -> [SettingKeys -> Nat]]
  /\ settingsTold.wiki \in [SettingSections -> [SettingKeys -> Nat]]
  /\ settingsNow.wiki \in [SettingSections -> [SettingKeys -> Nat] \cup {S!Unset}]
  /\ \A s \in SettingSections :
       \/ settingsNow.wiki[s] = S!Unset /\ \A k \in SettingKeys : settingsTold.wiki[s][k] = 0
       \/ settingsNow.wiki[s] = settingsTold.wiki[s] /\ \E k \in SettingKeys : settingsTold.wiki[s][k] # 0

SpacesInv == SpacesType /\ ClientsStaged /\ SettingsTold

\* The file's list of wikis, as a set.
LEMMA EntryFacts ==
  ASSUME NEW f, Sound(f)
  PROVE  /\ \A n : n \in S!Registered(f) <=> \E e \in Entries(f) : e.name = n
         /\ \A e \in Entries(f) : S!PathOf(f, e.name) = e.path /\ e = Entry(e.name, e.path)
                                  /\ e.name \in SpaceNames /\ e.path \in SpacePaths
         /\ \A n \in S!Registered(f) : Entry(n, S!PathOf(f, n)) \in Entries(f)
         /\ \A d, e \in Entries(f) : d.name = e.name => d = e
<1>1. \A n : n \in S!Registered(f) <=> \E e \in Entries(f) : e.name = n
  BY DEF S!Registered, Entries
<1>2. \A i \in DOMAIN f.wikis : /\ i \in Nat /\ f.wikis[i] \in [name : SpaceNames, path : SpacePaths]
                               /\ \A j \in 1..i-1 : j \in DOMAIN f.wikis /\ j # i
  <2>1. f.wikis \in Seq([name : SpaceNames, path : SpacePaths])
    BY DEF Sound, ConfigFile
  <2>2. DOMAIN f.wikis = 1..Len(f.wikis) /\ Len(f.wikis) \in Nat
    BY <2>1, LenProperties
  <2>3. \A i \in 1..Len(f.wikis) : f.wikis[i] \in [name : SpaceNames, path : SpacePaths]
    BY <2>1, ElementOfSeq
  <2>4. \A i \in 1..Len(f.wikis) : i \in Nat /\ \A j \in 1..i-1 : j \in 1..Len(f.wikis) /\ j # i
    BY <2>2
  <2> QED
    BY <2>2, <2>3, <2>4
<1>3. ASSUME NEW i \in DOMAIN f.wikis PROVE S!PathOf(f, f.wikis[i].name) = f.wikis[i].path
  <2> DEFINE n == f.wikis[i].name
             P(k) == f.wikis[k].name = n /\ \A j \in 1..k-1 : f.wikis[j].name # n
  <2>1. P(i)
    BY <1>2 DEF Sound
  <2>2. \A k \in DOMAIN f.wikis : P(k) => k = i
    BY DEF Sound
  <2>3. (CHOOSE k \in DOMAIN f.wikis : P(k)) = i
    BY <2>1, <2>2
  <2> QED
    BY <2>3 DEF S!PathOf
<1>4. \A e \in Entries(f) : S!PathOf(f, e.name) = e.path /\ e \in [name : SpaceNames, path : SpacePaths]
  BY <1>2, <1>3 DEF Entries
<1>5. \A e \in Entries(f) : e = Entry(e.name, e.path) /\ e.name \in SpaceNames /\ e.path \in SpacePaths
  BY <1>4 DEF Entry
<1>6. \A d, e \in Entries(f) : d.name = e.name => d = e
  BY DEF Entries, Sound
<1> QED
  BY <1>1, <1>4, <1>5, <1>6

LEMMA SpacesSafe == SpacesInv => S!SpacesKept
<1> SUFFICES ASSUME SpacesInv PROVE S!SpacesKept
  OBVIOUS
<1>1. S!FileSound
  BY DEF SpacesInv, SpacesType, Sound, S!FileSound
<1>2. S!EngineFollowsFile
  <2>1. single /\ S!Resting => \A n \in DOMAIN mounted : Entry(n, mounted[n]) \in Entries(listed)
    BY DEF SpacesInv, ClientsStaged, Agree
  <2>2. \A n : Entry(n, mounted[n]).name = n /\ Entry(n, mounted[n]).path = mounted[n]
    BY DEF Entry
  <2>3. single /\ S!Resting => \A n \in DOMAIN mounted : n \in S!Registered(listed) /\ mounted[n] = S!PathOf(listed, n)
    BY <2>1, <2>2, EntryFacts DEF SpacesInv, SpacesType
  <2> QED
    BY <2>3 DEF SpacesInv, SpacesType, S!EngineFollowsFile
<1>3. S!SettingsResolve
  <2> SUFFICES ASSUME NEW s \in SettingSections, NEW k \in SettingKeys
               PROVE  /\ settingsTold.wiki[s][k] # 0 => S!ResolvedBy(settingsNow, s, k) = settingsTold.wiki[s][k]
                      /\ (\A j \in SettingKeys : settingsTold.wiki[s][j] = 0) =>
                           S!ResolvedBy(settingsNow, s, k) = settingsTold.global[s][k]
    BY DEF S!SettingsResolve
  <2>1. CASE settingsNow.wiki[s] = S!Unset /\ \A j \in SettingKeys : settingsTold.wiki[s][j] = 0
    <3>1. DOMAIN settingsNow.wiki[s] = {}
      BY <2>1 DEF S!Unset
    <3> QED
      BY <2>1, <3>1 DEF SpacesInv, SettingsTold, S!ResolvedBy
  <2>2. CASE settingsNow.wiki[s] = settingsTold.wiki[s] /\ \E j \in SettingKeys : settingsTold.wiki[s][j] # 0
    <3>1. DOMAIN settingsNow.wiki[s] # {}
      BY <2>2 DEF SpacesInv, SettingsTold
    <3> QED
      BY <2>2, <3>1 DEF S!ResolvedBy
  <2> QED
    BY <2>1, <2>2 DEF SpacesInv, SettingsTold
<1> QED
  BY <1>1, <1>2, <1>3 DEF S!SpacesKept

\* What a save makes of a config that it loaded.
LEMMA SavedDefault ==
  ASSUME NEW f, Sound(f), NEW n \in SpaceNames, ~S!Fails(DefaultTo(n), f)
  PROVE  Sound(S!Saved(DefaultTo(n), f)) /\ Entries(S!Saved(DefaultTo(n), f)) = Entries(f)
<1> DEFINE g == [f EXCEPT !.default = n]
<1>1. S!Saved(DefaultTo(n), f) = g /\ n \in S!Registered(f)
  BY DEF S!Saved, S!Fails, DefaultTo
<1>2. g \in ConfigFile /\ g.default = n /\ g.wikis = f.wikis
  BY DEF Sound, ConfigFile
<1> HIDE DEF g
<1> QED
  BY <1>1, <1>2 DEF Sound, Entries, S!Registered

LEMMA SavedRegister ==
  ASSUME NEW f, Sound(f), NEW n \in SpaceNames, NEW p \in SpacePaths, NEW forced \in BOOLEAN
  PROVE  LET g == S!Saved(Register(n, p, forced), f) IN
         /\ Sound(g) /\ Entry(n, p) \in Entries(g)
         /\ \A e \in Entries(f) : e.name # n => e \in Entries(g)
<1> DEFINE s == Register(n, p, forced)
           e == Entry(n, p)
<1>0. /\ e \in [name : SpaceNames, path : SpacePaths] /\ e.name = n
      /\ f.wikis \in Seq([name : SpaceNames, path : SpacePaths]) /\ DOMAIN f.wikis = 1..Len(f.wikis) /\ Len(f.wikis) \in Nat
  BY DEF Entry, Sound, ConfigFile
<1>1. CASE n \in S!Registered(f)
  <2> DEFINE g == [f EXCEPT !.wikis = [i \in DOMAIN @ |-> IF @[i].name = n THEN e ELSE @[i]]]
             w == [i \in DOMAIN f.wikis |-> IF f.wikis[i].name = n THEN e ELSE f.wikis[i]]
  <2>1. S!Saved(s, f) = g
    BY <1>1 DEF S!Saved, Register, Entry
  <2>2. /\ w \in Seq([name : SpaceNames, path : SpacePaths]) /\ DOMAIN w = DOMAIN f.wikis
        /\ \A i \in DOMAIN w : w[i].name = f.wikis[i].name /\ w[i] = (IF f.wikis[i].name = n THEN e ELSE f.wikis[i])
    <3>1. \A i \in DOMAIN f.wikis : f.wikis[i] \in [name : SpaceNames, path : SpacePaths]
      BY <1>0, ElementOfSeq
    <3>2. \A i \in DOMAIN f.wikis : w[i].name = f.wikis[i].name
      BY <1>0
    <3>3. \A i \in 1..Len(f.wikis) : w[i] \in [name : SpaceNames, path : SpacePaths]
      BY <1>0, <3>1
    <3>4. w \in [1..Len(f.wikis) -> [name : SpaceNames, path : SpacePaths]]
      BY <1>0, <3>3
    <3>5. w \in Seq([name : SpaceNames, path : SpacePaths])
      BY <1>0, <3>4
    <3> QED
      BY <3>2, <3>5
  <2>3. g \in ConfigFile /\ g.wikis = w /\ g.default = f.default
    BY <2>2 DEF Sound, ConfigFile
  <2> HIDE DEF g, w
  <2>4. S!Registered(g) = S!Registered(f)
    BY <2>2, <2>3 DEF S!Registered
  <2>5. Sound(g)
    BY <2>2, <2>3, <2>4 DEF Sound
  <2>6. e \in Entries(g)
    BY <1>1, <2>2, <2>3 DEF Entries, S!Registered
  <2>7. \A d \in Entries(f) : d.name # n => d \in Entries(g)
    BY <2>2, <2>3 DEF Entries
  <2> QED
    BY <2>1, <2>5, <2>6, <2>7
<1>2. CASE n \notin S!Registered(f)
  <2> DEFINE g == [f EXCEPT !.wikis = Append(@, e)]
             w == Append(f.wikis, e)
  <2>1. S!Saved(s, f) = g
    BY <1>2 DEF S!Saved, Register, Entry
  <2>2. /\ w \in Seq([name : SpaceNames, path : SpacePaths]) /\ DOMAIN w = 1..Len(f.wikis) + 1
        /\ w[Len(f.wikis) + 1] = e
        /\ \A i \in DOMAIN f.wikis : w[i] = f.wikis[i] /\ i \in DOMAIN w
        /\ \A i \in DOMAIN w : i \in DOMAIN f.wikis \/ i = Len(f.wikis) + 1
    BY <1>0, AppendProperties, LenProperties
  <2>3. g \in ConfigFile /\ g.wikis = w /\ g.default = f.default
    BY <2>2 DEF Sound, ConfigFile
  <2> HIDE DEF g, w
  <2>4. \A i \in DOMAIN f.wikis : f.wikis[i].name # n
    BY <1>2 DEF S!Registered
  <2>5. f.default \in S!Registered(g)
    BY <2>2, <2>3 DEF S!Registered, Sound
  <2>6. \A i, j \in DOMAIN w : w[i].name = w[j].name => i = j
    BY <1>0, <2>2, <2>4 DEF Sound
  <2>7. Sound(g)
    BY <2>3, <2>5, <2>6 DEF Sound
  <2>8. e \in Entries(g)
    BY <1>0, <2>2, <2>3 DEF Entries
  <2>9. \A d \in Entries(f) : d \in Entries(g)
    BY <2>2, <2>3 DEF Entries
  <2> QED
    BY <2>1, <2>7, <2>8, <2>9
<1> QED
  BY <1>1, <1>2

LEMMA SavedRemove ==
  ASSUME NEW f, Sound(f), NEW n \in SpaceNames, NEW gone \in BOOLEAN, ~S!Fails(Unregister(n, gone), f)
  PROVE  LET g == S!Saved(Unregister(n, gone), f) IN
         /\ Sound(g) /\ \A e \in Entries(f) : e.name # n => e \in Entries(g)
<1> DEFINE s == Unregister(n, gone)
           Entity == [name : SpaceNames, path : SpacePaths]
           P(k) == f.wikis[k].name = n /\ \A j \in 1..k-1 : f.wikis[j].name # n
           i == CHOOSE k \in DOMAIN f.wikis : P(k)
           w == SubSeq(f.wikis, 1, i - 1) \o SubSeq(f.wikis, i + 1, Len(f.wikis))
           g == [f EXCEPT !.wikis = w]
<1>1. f.default # n /\ n \in S!Registered(f)
  BY DEF S!Fails, Unregister
<1>2. f.wikis \in Seq(Entity) /\ DOMAIN f.wikis = 1..Len(f.wikis) /\ Len(f.wikis) \in Nat
  BY DEF Sound, ConfigFile
<1>3. S!Saved(s, f) = g
  BY DEF S!Saved, Unregister
<1>4. i \in DOMAIN f.wikis /\ f.wikis[i].name = n
  <2>1. PICK k \in DOMAIN f.wikis : f.wikis[k].name = n
    BY <1>1 DEF S!Registered
  <2>2. \A j \in 1..k-1 : j \in DOMAIN f.wikis /\ j # k
    BY <1>2, <2>1
  <2>3. P(k)
    BY <2>1, <2>2 DEF Sound
  <2> QED
    BY <2>1, <2>3
<1> HIDE DEF i
<1>5. /\ w \in Seq(Entity) /\ Len(w) = Len(f.wikis) - 1 /\ DOMAIN w = 1..Len(w) /\ i \in Nat
      /\ \A j \in 1..Len(w) : w[j] = IF j < i THEN f.wikis[j] ELSE f.wikis[j + 1]
  <2> DEFINE u == SubSeq(f.wikis, 1, i - 1)
             v == SubSeq(f.wikis, i + 1, Len(f.wikis))
  <2>0. \A j \in 1..Len(f.wikis) : f.wikis[j] \in Entity
    <3> HIDE DEF Entity
    <3> QED
      BY <1>2, ElementOfSeq
  <2>1. i \in 1..Len(f.wikis) /\ Len(f.wikis) \in Nat
    BY <1>2, <1>4
  <2>2. u \in Seq(Entity) /\ Len(u) = i - 1 /\ \A j \in 1..i-1 : u[j] = f.wikis[j]
    <3>1. 1 \in 1..Len(f.wikis)+1 /\ i - 1 \in 0..Len(f.wikis) /\ (i - 1) - 1 + 1 = i - 1
      BY <1>2, <2>1
    <3>2. \A j \in 1..i-1 : f.wikis[j] \in Entity
      BY <2>0, <2>1
    <3>3. /\ u \in Seq(Entity) /\ Len(u) = IF 1 <= i - 1 THEN (i - 1) - 1 + 1 ELSE 0
          /\ \A j \in 1..(i - 1) - 1 + 1 : u[j] = f.wikis[1 + j - 1]
      BY <2>1, <3>2, SubSeqProperties
    <3> HIDE DEF u
    <3> QED
      BY <2>1, <3>3
  <2>3. v \in Seq(Entity) /\ Len(v) = Len(f.wikis) - i /\ \A j \in 1..Len(f.wikis)-i : v[j] = f.wikis[i + j]
    <3>1. i + 1 \in 1..Len(f.wikis)+1 /\ Len(f.wikis) \in i..Len(f.wikis)
      BY <1>2, <2>1
    <3>2. \A j \in i+1..Len(f.wikis) : f.wikis[j] \in Entity
      BY <1>2, <2>0, <2>1
    <3>3. /\ v \in Seq(Entity) /\ Len(v) = IF i + 1 <= Len(f.wikis) THEN Len(f.wikis) - (i + 1) + 1 ELSE 0
          /\ \A j \in 1..Len(f.wikis) - (i + 1) + 1 : v[j] = f.wikis[i + 1 + j - 1]
      BY <1>2, <2>1, <3>2, SubSeqProperties
    <3> HIDE DEF v
    <3> QED
      BY <1>2, <2>1, <3>3
  <2> HIDE DEF u, v
  <2>4. u \o v \in Seq(Entity) /\ Len(u \o v) = Len(u) + Len(v)
        /\ \A j \in 1..Len(u) + Len(v) : (u \o v)[j] = IF j <= Len(u) THEN u[j] ELSE v[j - Len(u)]
    BY <2>2, <2>3, ConcatProperties
  <2>5. w = u \o v
    BY DEF u, v
  <2>6. ASSUME NEW j \in 1..Len(f.wikis)-1 PROVE (u \o v)[j] = IF j < i THEN f.wikis[j] ELSE f.wikis[j + 1]
    <3>1. CASE j < i
      BY <1>2, <2>1, <2>2, <2>3, <2>4, <3>1
    <3>2. CASE ~(j < i)
      <4>1. (u \o v)[j] = v[j - (i - 1)] /\ j - (i - 1) \in 1..Len(f.wikis)-i /\ i + (j - (i - 1)) = j + 1
        BY <1>2, <2>1, <2>2, <2>3, <2>4, <3>2
      <4>2. (u \o v)[j] = f.wikis[i + (j - (i - 1))]
        BY <2>3, <4>1
      <4> QED
        BY <3>2, <4>1, <4>2
    <3> QED
      BY <3>1, <3>2
  <2>7. Len(u \o v) = Len(f.wikis) - 1 /\ i \in Nat
    BY <2>1, <2>2, <2>3, <2>4
  <2> HIDE DEF w, Entity
  <2>8. w \in Seq(Entity) /\ Len(w) = Len(f.wikis) - 1
    BY <2>4, <2>5, <2>7
  <2>9. DOMAIN w = 1..Len(w)
    BY <2>8, LenProperties
  <2>10. \A j \in 1..Len(w) : w[j] = IF j < i THEN f.wikis[j] ELSE f.wikis[j + 1]
    BY <2>5, <2>6, <2>8
  <2> QED
    BY <2>7, <2>8, <2>9, <2>10
<1>6. g \in ConfigFile /\ g.wikis = w /\ g.default = f.default
  BY <1>5 DEF Sound, ConfigFile
<1> HIDE DEF w, g
<1>7. ASSUME NEW j \in DOMAIN f.wikis, j # i PROVE \E k \in DOMAIN w : w[k] = f.wikis[j]
  <2>1. CASE j < i
    BY <1>2, <1>4, <1>5, <2>1
  <2>2. CASE j > i
    <3>1. j - 1 \in DOMAIN w /\ ~(j - 1 < i) /\ (j - 1) + 1 = j
      BY <1>2, <1>4, <1>5, <2>2
    <3> QED
      BY <1>5, <3>1
  <2> QED
    BY <1>2, <1>4, <1>7, <2>1, <2>2
<1>8. f.default \in S!Registered(g)
  <2>1. PICK j \in DOMAIN f.wikis : f.wikis[j].name = f.default
    BY DEF Sound, S!Registered
  <2>2. PICK k \in DOMAIN w : w[k] = f.wikis[j]
    BY <1>1, <1>4, <1>7, <2>1
  <2> QED
    BY <1>6, <2>1, <2>2 DEF S!Registered
<1>9. ASSUME NEW j \in DOMAIN w, NEW k \in DOMAIN w, w[j].name = w[k].name PROVE j = k
  <2> DEFINE Old(m) == IF m < i THEN m ELSE m + 1
  <2>1. /\ Old(j) \in DOMAIN f.wikis /\ w[j] = f.wikis[Old(j)]
        /\ Old(k) \in DOMAIN f.wikis /\ w[k] = f.wikis[Old(k)]
    <3>1. \A m \in DOMAIN w : m \in 1..Len(w) /\ w[m] = f.wikis[Old(m)]
      BY <1>5
    <3>2. \A m \in 1..Len(w) : Old(m) \in DOMAIN f.wikis
      BY <1>2, <1>4, <1>5
    <3> QED
      BY <3>1, <3>2
  <2>2. Old(j) = Old(k)
    BY <1>9, <2>1 DEF Sound
  <2> QED
    BY <1>2, <1>4, <1>5, <2>2
<1>10. Sound(g)
  BY <1>6, <1>8, <1>9 DEF Sound
<1>11. ASSUME NEW e \in Entries(f), e.name # n PROVE e \in Entries(g)
  <2>1. PICK j \in DOMAIN f.wikis : f.wikis[j] = e
    BY DEF Entries
  <2>2. PICK k \in DOMAIN w : w[k] = f.wikis[j]
    BY <1>4, <1>7, <1>11, <2>1
  <2> QED
    BY <1>6, <2>1, <2>2 DEF Entries
<1> QED
  BY <1>3, <1>10, <1>11

LEMMA SpacesInit == S!Init => SpacesInv
<1> SUFFICES ASSUME S!Init PROVE SpacesInv
  OBVIOUS
<1>1. PICK n \in SpaceNames, p \in SpacePaths :
        /\ listed = [wikis |-> <<Entry(n, p)>>, default |-> n]
        /\ mounted = [m \in {n} |-> p]
  BY DEF S!Init, Entry
<1>2. /\ listed.wikis = <<Entry(n, p)>> /\ listed.default = n /\ DOMAIN listed.wikis = {1}
      /\ Entry(n, p) \in [name : SpaceNames, path : SpacePaths] /\ Entry(n, p).name = n
  BY <1>1 DEF Entry
<1>3. Sound(listed)
  <2>1. <<Entry(n, p)>> \in Seq([name : SpaceNames, path : SpacePaths])
    BY <1>2
  <2>2. listed \in ConfigFile
    BY <1>1, <2>1 DEF ConfigFile
  <2>3. listed.wikis[1] = Entry(n, p)
    BY <1>2
  <2> QED
    BY <1>2, <2>2, <2>3 DEF Sound, S!Registered
<1>4. Entry(n, p) \in Entries(listed) /\ Agree({})
  <2>1. listed.wikis[1] = Entry(n, p)
    BY <1>2
  <2> QED
    BY <1>1, <1>2, <2>1 DEF Entries, Agree
<1>5. /\ single \in BOOLEAN /\ engine = listed
      /\ tasks = [c \in SpaceClients |-> S!Idle]
  BY DEF S!Init
<1>6. SpacesType
  <2>1. \A c \in SpaceClients : tasks[c] = [steps |-> tasks[c].steps, loaded |-> tasks[c].loaded]
    BY <1>5 DEF S!Idle
  <2> QED
    BY <1>1, <1>2, <1>3, <1>5, <2>1 DEF SpacesType, Sound
<1>7. ClientsStaged
  BY <1>4, <1>5 DEF ClientsStaged, Busy
<1>8. SettingsTold
  BY DEF S!Init, SettingsTold
<1> QED
  BY <1>6, <1>7, <1>8 DEF SpacesInv

\* Nothing that the spaces depend on changes.
LEMMA StageStays ==
  ASSUME UNCHANGED <<single, listed, mounted>>, NEW st
  PROVE  (Stage(st)' <=> Stage(st)) /\ (Agree({})' <=> Agree({}))
<1>1. \A names : Agree(names)' <=> Agree(names)
  BY DEF Agree, Entries, Entry
<1>2. Entries(listed)' = Entries(listed)
  BY DEF Entries
<1>3. Registering(st)' <=> Registering(st)
  BY <1>1 DEF Registering
<1>4. Mounting(st)' <=> Mounting(st)
  BY <1>1, <1>2 DEF Mounting, Agree
<1>5. Unmounting(st)' <=> Unmounting(st)
  BY <1>1 DEF Unmounting
<1>6. Removing(st)' <=> Removing(st)
  BY <1>1 DEF Removing
<1>7. Choosing(st)' <=> Choosing(st)
  BY <1>1 DEF Choosing
<1> QED
  BY <1>1, <1>3, <1>4, <1>5, <1>6, <1>7 DEF Stage

LEMMA SameSpaces ==
  ASSUME SpacesInv, UNCHANGED <<single, listed, engine, mounted, tasks>>
  PROVE  SpacesType' /\ ClientsStaged'
<1>1. \A st : Stage(st)' <=> Stage(st)
  BY StageStays
<1>2. Agree({})' <=> Agree({})
  BY StageStays
<1>3. SpacesType'
  BY DEF SpacesInv, SpacesType, Sound, S!Registered
<1>4. \A c \in SpaceClients : (Busy(c)' <=> Busy(c)) /\ (Loaded(c)' <=> Loaded(c))
  BY DEF Busy, Loaded, S!Idle, S!Now, Sound, S!FileSteps, S!Fails, S!Registered
<1>5. S!Resting' <=> S!Resting
  BY DEF S!Resting
<1>6. ClientsStaged'
  BY <1>1, <1>2, <1>4, <1>5 DEF SpacesInv, ClientsStaged
<1> QED
  BY <1>3, <1>6

LEMMA SameSettings ==
  ASSUME SpacesInv, UNCHANGED <<settingsNow, settingsTold>> PROVE SettingsTold'
BY DEF SpacesInv, SettingsTold, S!Unset

\* One client takes a step: what it has still to do fits the state it leaves.
LEMMA ClientsMove ==
  ASSUME SpacesInv, NEW c \in SpaceClients, NEW t, t = [steps |-> t.steps, loaded |-> t.loaded],
         single' = single, tasks' = [tasks EXCEPT ![c] = t],
         single => \A d \in SpaceClients : Busy(d) => d = c,
         t # S!Idle => Stage(t.steps)' /\ Loaded(c)',
         single /\ t = S!Idle => Agree({})'
  PROVE  ClientsStaged' /\ (tasks = [d \in SpaceClients |-> [steps |-> tasks[d].steps, loaded |-> tasks[d].loaded]])'
<1>1. /\ tasks'[c] = t /\ \A d \in SpaceClients : d # c => tasks'[d] = tasks[d]
      /\ \A d \in SpaceClients : tasks'[d] = [steps |-> tasks'[d].steps, loaded |-> tasks'[d].loaded]
      /\ (tasks = [d \in SpaceClients |-> [steps |-> tasks[d].steps, loaded |-> tasks[d].loaded]])'
  BY DEF SpacesInv, SpacesType
<1>2. Busy(c)' <=> t # S!Idle
  BY <1>1 DEF Busy, S!Idle
<1>3. ASSUME NEW d \in SpaceClients, d # c, Busy(d)' PROVE ~single /\ Stage(tasks[d].steps)' /\ Loaded(d)'
  <2>1. Busy(d) /\ tasks'[d] = tasks[d] /\ S!Now(d)' = S!Now(d)
    BY <1>1, <1>3 DEF Busy, S!Idle, S!Now
  <2>2. ~single /\ ~single'
    BY <1>3, <2>1
  <2>3. Stage(tasks[d].steps) /\ Loaded(d)
    BY <2>1 DEF SpacesInv, ClientsStaged
  <2>4. PICK st : st = tasks[d].steps
    OBVIOUS
  <2>5. Stage(st) => Stage(st)'
    BY <2>2 DEF Stage, Registering, Mounting, Unmounting, Removing, Choosing, Register, MountAt, DefaultTo, Unmount,
                Unregister, EngineTo
  <2>6. Loaded(d)'
    <3>1. PICK s : s = S!Now(d)
      OBVIOUS
    <3>2. S!Now(d)' = s /\ tasks'[d].loaded = tasks[d].loaded
      BY <2>1, <3>1
    <3>3. \A f \in tasks[d].loaded : Sound(f) /\ s.do \in S!FileSteps /\ ~S!Fails(s, f)
      BY <2>3, <3>1 DEF Loaded
    <3> QED
      BY <2>2, <3>2, <3>3 DEF Loaded
  <2>7. tasks'[d].steps = st
    BY <2>1, <2>4
  <2> QED
    BY <2>2, <2>3, <2>4, <2>5, <2>6, <2>7
<1>4. \A d \in SpaceClients : Busy(d)' => Stage(tasks[d].steps)' /\ Loaded(d)'
  <2>1. t # S!Idle => Stage(tasks[c].steps)'
    BY <1>1
  <2> QED
    BY <1>2, <1>3, <2>1
<1>5. single' => \A d, e \in SpaceClients : Busy(d)' /\ Busy(e)' => d = e
  BY <1>3
<1>6. single' /\ S!Resting' => Agree({})'
  BY <1>1 DEF S!Resting
<1> QED
  BY <1>1, <1>4, <1>5, <1>6 DEF ClientsStaged

LEMMA StartSpaces ==
  ASSUME SpacesInv, NEW c \in SpaceClients, NEW st, S!Start(c, st), (single => Agree({})) => st = <<>> \/ Stage(st),
         UNCHANGED <<single, listed, engine, mounted, settingsNow, settingsTold>>
  PROVE  SpacesInv'
<1>1. /\ tasks[c] = S!Idle /\ tasks' = [tasks EXCEPT ![c] = [steps |-> st, loaded |-> {}]]
      /\ single => S!Resting
  BY DEF S!Start, S!Resting
<1>2. SettingsTold'
  BY SameSettings
<1>3. single => Agree({}) /\ \A d \in SpaceClients : ~Busy(d)
  BY <1>1 DEF SpacesInv, ClientsStaged, S!Resting, Busy
<1>4. PICK t : t = [steps |-> st, loaded |-> {}]
  OBVIOUS
<1>5. t = [steps |-> t.steps, loaded |-> t.loaded] /\ t.steps = st /\ t.loaded = {} /\ (st = <<>> => t = S!Idle)
  BY <1>4 DEF S!Idle
<1>6. tasks' = [tasks EXCEPT ![c] = t]
  BY <1>1, <1>4
<1>7. st # <<>> => Stage(st)'
  BY <1>3, StageStays
<1>8. Loaded(c)'
  <2>1. tasks'[c].loaded = {}
    BY <1>5, <1>6 DEF SpacesInv, SpacesType
  <2> QED
    BY <2>1 DEF Loaded
<1>9. single => Agree({})'
  BY <1>3, StageStays
<1>10. ClientsStaged' /\ (tasks = [d \in SpaceClients |-> [steps |-> tasks[d].steps, loaded |-> tasks[d].loaded]])'
  BY <1>3, <1>5, <1>6, <1>7, <1>8, <1>9, ClientsMove
<1>11. SpacesType'
  BY <1>10 DEF SpacesInv, SpacesType, Sound, S!Registered
<1> QED
  BY <1>2, <1>10, <1>11 DEF SpacesInv

LEMMA CreateSpace ==
  ASSUME SpacesInv, NEW c \in SpaceClients, NEW n \in SpaceNames, NEW p \in SpacePaths, NEW force \in BOOLEAN,
         NEW default \in BOOLEAN, S!Create(c, n, p, force, default)
  PROVE  SpacesInv'
<1> DEFINE steps == IF default THEN <<Register(n, p, force), DefaultTo(n), MountAt(n, p)>>
                    ELSE <<Register(n, p, force), MountAt(n, p)>>
<1>1. UNCHANGED <<single, listed, engine, mounted, settingsNow, settingsTold>>
  BY DEF S!Create, S!settings
<1>2. S!Start(c, <<>>) \/ S!Start(c, steps)
  BY DEF S!Create, DefaultTo, Register, MountAt
<1>3. steps \in {<<Register(n, p, force), MountAt(n, p)>>, <<Register(n, p, force), DefaultTo(n), MountAt(n, p)>>}
  OBVIOUS
<1> HIDE DEF steps
<1>4. (single => Agree({})) => Stage(steps)
  BY <1>3 DEF Stage, Registering
<1> QED
  BY <1>1, <1>2, <1>4, StartSpaces

LEMMA OtherStarts ==
  ASSUME SpacesInv, NEW c \in SpaceClients, NEW n \in SpaceNames,
         \/ \E p \in SpacePaths : S!RegisterExisting(c, n, p)
         \/ S!SetDefault(c, n)
         \/ \E delete \in BOOLEAN : S!Remove(c, n, delete)
  PROVE  SpacesInv'
<1>1. ASSUME NEW p \in SpacePaths, S!RegisterExisting(c, n, p) PROVE SpacesInv'
  <2>1. UNCHANGED <<single, listed, engine, mounted, settingsNow, settingsTold>>
    BY <1>1 DEF S!RegisterExisting, S!settings
  <2>2. S!Start(c, <<>>) \/ S!Start(c, <<Register(n, p, FALSE), MountAt(n, p)>>)
    BY <1>1 DEF S!RegisterExisting, Register, MountAt
  <2>3. (single => Agree({})) => Stage(<<Register(n, p, FALSE), MountAt(n, p)>>)
    BY DEF Stage, Registering
  <2> QED
    BY <2>1, <2>2, <2>3, StartSpaces
<1>2. ASSUME S!SetDefault(c, n) PROVE SpacesInv'
  <2>1. UNCHANGED <<single, listed, engine, mounted, settingsNow, settingsTold>>
    BY <1>2 DEF S!SetDefault, S!settings
  <2>2. S!Start(c, <<DefaultTo(n), EngineTo(n)>>)
    BY <1>2 DEF S!SetDefault, DefaultTo, EngineTo
  <2>3. (single => Agree({})) => Stage(<<DefaultTo(n), EngineTo(n)>>)
    BY DEF Stage, Choosing
  <2> QED
    BY <2>1, <2>2, <2>3, StartSpaces
<1>3. ASSUME NEW delete \in BOOLEAN, S!Remove(c, n, delete) PROVE SpacesInv'
  <2>1. UNCHANGED <<single, listed, engine, mounted, settingsNow, settingsTold>>
    BY <1>3 DEF S!Remove, S!settings
  <2>2. S!Start(c, <<Unmount(n), Unregister(n, delete)>>)
    BY <1>3 DEF S!Remove, Unmount, Unregister
  <2>3. (single => Agree({})) => Stage(<<Unmount(n), Unregister(n, delete)>>)
    BY DEF Stage, Unmounting
  <2> QED
    BY <2>1, <2>2, <2>3, StartSpaces
<1> QED
  BY <1>1, <1>2, <1>3

\* A client that is at work: its stage, and that it is alone if it works alone.
LEMMA AtWork ==
  ASSUME SpacesInv, NEW c \in SpaceClients, tasks[c].steps # <<>>
  PROVE  /\ Busy(c) /\ Stage(tasks[c].steps) /\ Loaded(c)
         /\ single => \A d \in SpaceClients : Busy(d) => d = c
<1>1. Busy(c)
  BY DEF Busy, S!Idle
<1> QED
  BY <1>1 DEF SpacesInv, ClientsStaged

LEMMA LoadStep ==
  ASSUME SpacesInv, NEW c \in SpaceClients, S!Load(c) PROVE SpacesInv'
<1> DEFINE st == tasks[c].steps
<1>1. /\ UNCHANGED <<single, listed, engine, mounted, settingsNow, settingsTold>>
      /\ st # <<>> /\ S!Now(c).do \in S!FileSteps
  BY DEF S!Load, S!settings
<1>2. /\ Stage(st) /\ Loaded(c)
      /\ single => \A d \in SpaceClients : Busy(d) => d = c
  BY <1>1, AtWork
<1>3. ClientsStaged' /\ (tasks = [d \in SpaceClients |-> [steps |-> tasks[d].steps, loaded |-> tasks[d].loaded]])'
  <2>1. CASE S!Fails(S!Now(c), listed)
    <3>1. tasks' = [tasks EXCEPT ![c] = S!Idle]
      BY <2>1 DEF S!Load, S!Abort
    <3>2. single => Agree({})
      <4>1. ASSUME single, Mounting(st) PROVE FALSE
        <5>1. PICK n \in SpaceNames, p \in SpacePaths : /\ st \in {<<DefaultTo(n), MountAt(n, p)>>, <<MountAt(n, p)>>}
                                                       /\ Entry(n, p) \in Entries(listed)
          BY <4>1 DEF Mounting
        <5>2. S!Now(c) = DefaultTo(n)
          BY <1>1, <5>1 DEF S!Now, S!FileSteps, MountAt
        <5>3. n \in S!Registered(listed)
          BY <5>1, EntryFacts DEF Entry, SpacesInv, SpacesType
        <5> QED
          BY <2>1, <5>2, <5>3 DEF S!Fails, DefaultTo
      <4> QED
        BY <1>2, <4>1 DEF Stage, Registering, Unmounting, Removing, Choosing
    <3>3. single => Agree({})'
      BY <1>1, <3>2, StageStays
    <3>4. PICK t : t = S!Idle
      OBVIOUS
    <3>5. t = [steps |-> t.steps, loaded |-> t.loaded]
      BY <3>4 DEF S!Idle
    <3> QED
      BY <1>1, <1>2, <3>1, <3>3, <3>4, <3>5, ClientsMove
  <2>2. CASE ~S!Fails(S!Now(c), listed)
    <3>1. tasks' = [tasks EXCEPT ![c] = [steps |-> st, loaded |-> {listed}]]
      BY <2>2 DEF S!Load
    <3>2. PICK t : t = [steps |-> st, loaded |-> {listed}]
      OBVIOUS
    <3>3. t = [steps |-> t.steps, loaded |-> t.loaded] /\ t.steps = st
      BY <3>2
    <3>5. tasks' = [tasks EXCEPT ![c] = t]
      BY <3>1, <3>2
    <3>6. tasks'[c] = t
      BY <3>5 DEF SpacesInv, SpacesType
    <3>7. PICK os : os = st
      OBVIOUS
    <3>8. Stage(os)' /\ t.steps = os
      BY <1>1, <1>2, <3>3, <3>7, StageStays
    <3>9. Loaded(c)'
      <4>1. PICK s : s = S!Now(c)
        OBVIOUS
      <4>2. S!Now(c)' = s /\ tasks'[c].loaded = {listed}
        BY <3>2, <3>6, <4>1 DEF S!Now
      <4>3. PICK f : f = listed
        OBVIOUS
      <4>4. Sound(f) /\ s.do \in S!FileSteps /\ ~S!Fails(s, f) /\ listed' = f
        BY <1>1, <2>2, <4>1, <4>3 DEF SpacesInv, SpacesType
      <4>5. tasks'[c].loaded = {f}
        BY <4>2, <4>3
      <4> QED
        BY <4>2, <4>4, <4>5 DEF Loaded
    <3>10. t # S!Idle
      BY <1>1, <3>3 DEF S!Idle
    <3> QED
      BY <1>1, <1>2, <3>3, <3>5, <3>8, <3>9, <3>10, ClientsMove
  <2> QED
    BY <2>1, <2>2
<1>4. SpacesType'
  BY <1>1, <1>3 DEF SpacesInv, SpacesType, Sound, S!Registered
<1>5. SettingsTold'
  BY <1>1, SameSettings
<1> QED
  BY <1>3, <1>4, <1>5 DEF SpacesInv

\* What a client still has to do after the first of its steps.
LEMMA Rests ==
  /\ \A a : Tail(<<a>>) = <<>> /\ <<a>>[1] = a
  /\ \A a, b : Tail(<<a, b>>) = <<b>> /\ <<a, b>>[1] = a
  /\ \A a, b, d : Tail(<<a, b, d>>) = <<b, d>> /\ <<a, b, d>>[1] = a
OBVIOUS

\* A step that is done: what is left of the operation fits the state it leaves.
LEMMA StepDone ==
  ASSUME SpacesInv, NEW c \in SpaceClients, tasks[c].steps # <<>>, tasks' = S!Done(c),
         single' = single, NEW st, st = Tail(tasks[c].steps),
         st # <<>> => Stage(st)', single /\ st = <<>> => Agree({})'
  PROVE  ClientsStaged' /\ (tasks = [d \in SpaceClients |-> [steps |-> tasks[d].steps, loaded |-> tasks[d].loaded]])'
<1>1. PICK t : t = [steps |-> st, loaded |-> {}]
  OBVIOUS
<1>2. t = [steps |-> t.steps, loaded |-> t.loaded] /\ t.steps = st /\ t.loaded = {} /\ (t # S!Idle => st # <<>>)
      /\ (t = S!Idle => st = <<>>)
  BY <1>1 DEF S!Idle
<1>3. tasks' = [tasks EXCEPT ![c] = t]
  BY <1>1 DEF S!Done
<1>4. Loaded(c)'
  <2>1. tasks'[c].loaded = {}
    BY <1>2, <1>3 DEF SpacesInv, SpacesType
  <2> QED
    BY <2>1 DEF Loaded
<1>5. single => \A d \in SpaceClients : Busy(d) => d = c
  BY AtWork
<1> QED
  BY <1>2, <1>3, <1>4, <1>5, ClientsMove

LEMMA StepAborted ==
  ASSUME SpacesInv, NEW c \in SpaceClients, tasks[c].steps # <<>>, tasks' = S!Abort(c),
         single' = single, single => Agree({})'
  PROVE  ClientsStaged' /\ (tasks = [d \in SpaceClients |-> [steps |-> tasks[d].steps, loaded |-> tasks[d].loaded]])'
<1>1. PICK t : t = S!Idle
  OBVIOUS
<1>2. t = [steps |-> t.steps, loaded |-> t.loaded]
  BY <1>1 DEF S!Idle
<1>3. tasks' = [tasks EXCEPT ![c] = t]
  BY <1>1 DEF S!Abort
<1>4. single => \A d \in SpaceClients : Busy(d) => d = c
  BY AtWork
<1> QED
  BY <1>1, <1>2, <1>3, <1>4, ClientsMove

LEMMA SaveStep ==
  ASSUME SpacesInv, NEW c \in SpaceClients, S!Save(c) PROVE SpacesInv'
<1>1. PICK st : st = tasks[c].steps
  OBVIOUS
<1>2. PICK f : f \in tasks[c].loaded /\ listed' = S!Saved(st[1], f)
  BY <1>1 DEF S!Save, S!Now
<1>3. /\ UNCHANGED <<single, engine, mounted, settingsNow, settingsTold>>
      /\ st # <<>> /\ tasks' = S!Done(c)
  BY <1>1 DEF S!Save, S!settings
<1>4. /\ Stage(st) /\ Sound(f) /\ st[1].do \in S!FileSteps /\ ~S!Fails(st[1], f)
      /\ single => f = listed
  BY <1>1, <1>2, <1>3, AtWork DEF Loaded, S!Now
<1>5. PICK rest : rest = Tail(st)
  OBVIOUS
<1>6. /\ Sound(listed')
      /\ rest # <<>> => Stage(rest)'
      /\ single /\ rest = <<>> => Agree({})'
  <2>1. CASE Registering(st)
    <3>1. PICK n \in SpaceNames, p \in SpacePaths, forced \in BOOLEAN :
            st \in {<<Register(n, p, forced), MountAt(n, p)>>, <<Register(n, p, forced), DefaultTo(n), MountAt(n, p)>>}
      BY <2>1 DEF Registering
    <3>2. /\ st[1] = Register(n, p, forced)
          /\ rest \in {<<DefaultTo(n), MountAt(n, p)>>, <<MountAt(n, p)>>} /\ rest # <<>>
      <4>1. CASE st = <<Register(n, p, forced), MountAt(n, p)>>
        BY <1>5, <4>1, Rests
      <4>2. CASE st = <<Register(n, p, forced), DefaultTo(n), MountAt(n, p)>>
        BY <1>5, <4>2, Rests
      <4> QED
        BY <3>1, <4>1, <4>2
    <3>3. /\ Sound(listed') /\ Entry(n, p) \in Entries(listed')
          /\ \A e \in Entries(f) : e.name # n => e \in Entries(listed')
      BY <1>2, <1>4, <3>2, SavedRegister
    <3>4. single => Agree({n})'
      <4>1. ASSUME single, NEW m \in DOMAIN mounted \ {n} PROVE Entry(m, mounted[m]) \in Entries(listed')
        <5>1. Entry(m, mounted[m]) \in Entries(f)
          BY <1>4, <2>1, <4>1 DEF Registering, Agree
        <5> QED
          BY <3>3, <5>1 DEF Entry
      <4>2. Entries(listed)' = Entries(listed')
        BY DEF Entries
      <4> QED
        BY <1>3, <4>1, <4>2 DEF Agree, Entry
    <3>5. Mounting(rest)'
      <4>1. Entry(n, p) \in Entries(listed)'
        BY <3>3 DEF Entries
      <4> QED
        BY <1>3, <3>2, <3>4, <4>1 DEF Mounting
    <3> QED
      BY <3>2, <3>3, <3>5 DEF Stage
  <2>2. CASE Mounting(st)
    <3>1. PICK n \in SpaceNames, p \in SpacePaths :
            /\ st \in {<<DefaultTo(n), MountAt(n, p)>>, <<MountAt(n, p)>>}
            /\ single => Agree({n}) /\ Entry(n, p) \in Entries(listed)
      BY <2>2 DEF Mounting
    <3>2. st = <<DefaultTo(n), MountAt(n, p)>>
      BY <1>4, <3>1, Rests DEF S!FileSteps, MountAt
    <3>3. st[1] = DefaultTo(n) /\ rest = <<MountAt(n, p)>> /\ rest # <<>>
      BY <1>5, <3>2, Rests
    <3>4. Sound(listed') /\ Entries(listed') = Entries(f)
      BY <1>2, <1>4, <3>3, SavedDefault
    <3>5. single => Entries(listed)' = Entries(listed)
      BY <1>4, <3>4 DEF Entries
    <3>6. single => Agree({n})' /\ Entry(n, p) \in Entries(listed)'
      BY <1>3, <3>1, <3>5 DEF Agree, Entry
    <3>7. Mounting(rest)'
      BY <1>3, <3>3, <3>6 DEF Mounting
    <3> QED
      BY <3>3, <3>4, <3>7 DEF Stage
  <2>3. CASE Unmounting(st)
    <3>1. PICK n \in SpaceNames, gone \in BOOLEAN : st = <<Unmount(n), Unregister(n, gone)>>
      BY <2>3 DEF Unmounting
    <3> QED
      BY <1>4, <3>1, Rests DEF S!FileSteps, Unmount
  <2>4. CASE Removing(st)
    <3>1. PICK n \in SpaceNames, gone \in BOOLEAN :
            /\ st = <<Unregister(n, gone)>>
            /\ single => Agree({}) /\ n \notin DOMAIN mounted
      BY <2>4 DEF Removing
    <3>2. st[1] = Unregister(n, gone) /\ rest = <<>>
      BY <1>5, <3>1, Rests
    <3>3. Sound(listed') /\ \A e \in Entries(f) : e.name # n => e \in Entries(listed')
      BY <1>2, <1>4, <3>2, SavedRemove
    <3>4. single => Agree({})'
      <4>1. ASSUME single, NEW m \in DOMAIN mounted PROVE Entry(m, mounted[m]) \in Entries(listed')
        <5>1. Entry(m, mounted[m]) \in Entries(f) /\ m # n
          BY <1>4, <3>1, <4>1 DEF Agree
        <5> QED
          BY <3>3, <5>1 DEF Entry
      <4>2. Entries(listed)' = Entries(listed')
        BY DEF Entries
      <4> QED
        BY <1>3, <4>1, <4>2 DEF Agree, Entry
    <3> QED
      BY <3>2, <3>3, <3>4
  <2>5. CASE Choosing(st)
    <3>1. PICK n \in SpaceNames : st \in {<<DefaultTo(n), EngineTo(n)>>, <<EngineTo(n)>>}
      BY <2>5 DEF Choosing
    <3>2. st = <<DefaultTo(n), EngineTo(n)>>
      BY <1>4, <3>1, Rests DEF S!FileSteps, EngineTo
    <3>3. st[1] = DefaultTo(n) /\ rest = <<EngineTo(n)>> /\ rest # <<>>
      BY <1>5, <3>2, Rests
    <3>4. Sound(listed') /\ Entries(listed') = Entries(f)
      BY <1>2, <1>4, <3>3, SavedDefault
    <3>5. single => Entries(listed)' = Entries(listed)
      BY <1>4, <3>4 DEF Entries
    <3>6. single => Agree({})'
      BY <1>3, <2>5, <3>5 DEF Agree, Entry, Choosing
    <3>7. Choosing(rest)'
      BY <1>3, <3>3, <3>6 DEF Choosing
    <3> QED
      BY <3>3, <3>4, <3>7 DEF Stage
  <2> QED
    BY <1>4, <2>1, <2>2, <2>3, <2>4, <2>5 DEF Stage
<1>7. ClientsStaged' /\ (tasks = [d \in SpaceClients |-> [steps |-> tasks[d].steps, loaded |-> tasks[d].loaded]])'
  BY <1>1, <1>3, <1>5, <1>6, StepDone
<1>8. SpacesType'
  <2>1. Sound(listed)'
    BY <1>6 DEF Sound, S!Registered
  <2> QED
    BY <1>3, <1>7, <2>1 DEF SpacesInv, SpacesType
<1>9. SettingsTold'
  BY <1>3, SameSettings
<1> QED
  BY <1>7, <1>8, <1>9 DEF SpacesInv

LEMMA EngineStep ==
  ASSUME SpacesInv, NEW c \in SpaceClients, S!InEngine(c) PROVE SpacesInv'
<1>1. PICK st : st = tasks[c].steps
  OBVIOUS
<1>2. /\ UNCHANGED <<single, listed, settingsNow, settingsTold>> /\ st # <<>>
  BY <1>1 DEF S!InEngine, S!settings
<1>3. Stage(st) /\ Entries(listed)' = Entries(listed)
  BY <1>1, <1>2, AtWork DEF Entries
<1>4. PICK rest : rest = Tail(st)
  OBVIOUS
<1> DEFINE Kept == /\ engine' \in ConfigFile /\ engine'.default \in DOMAIN mounted'
                   /\ DOMAIN mounted' \in SUBSET SpaceNames
                   /\ \A n \in DOMAIN mounted' : mounted'[n] \in SpacePaths
                   /\ mounted' = [n \in DOMAIN mounted' |-> mounted'[n]]
           Moved == \/ tasks' = S!Done(c) /\ (rest # <<>> => Stage(rest)') /\ (single /\ rest = <<>> => Agree({})')
                    \/ tasks' = S!Abort(c) /\ (single => Agree({})')
<1>5. ASSUME NEW n \in SpaceNames, NEW p \in SpacePaths, st[1] = MountAt(n, p) PROVE Kept /\ Moved
  <2>1. /\ mounted' = [m \in DOMAIN mounted \cup {n} |-> IF m = n THEN p ELSE mounted[m]]
        /\ tasks' = S!Done(c) /\ engine' = engine
    BY <1>1, <1>5 DEF S!InEngine, S!Now, MountAt
  <2>2. Kept
    BY <2>1 DEF SpacesInv, SpacesType
  <2>3. \A m, q : MountAt(n, p) # DefaultTo(m) /\ MountAt(n, p) # EngineTo(m) /\ MountAt(n, p) # Unmount(m)
    BY DEF MountAt, DefaultTo, EngineTo, Unmount
  <2>4. PICK m \in SpaceNames, q \in SpacePaths : st = <<MountAt(m, q)>>
                  /\ (single => Agree({m}) /\ Entry(m, q) \in Entries(listed))
    <3>1. ~Registering(st)
      BY <1>5, Rests DEF Registering, Register, MountAt
    <3>2. ~Unmounting(st)
      BY <1>5, Rests DEF Unmounting, Unmount, MountAt
    <3>3. ~Removing(st)
      BY <1>5, Rests DEF Removing, Unregister, MountAt
    <3>4. ~Choosing(st)
      BY <1>5, Rests DEF Choosing, DefaultTo, EngineTo, MountAt
    <3>5. Mounting(st)
      BY <1>3, <3>1, <3>2, <3>3, <3>4 DEF Stage
    <3> QED
      BY <1>5, <2>3, <3>5, Rests DEF Mounting
  <2>5. m = n /\ q = p /\ rest = <<>>
    BY <1>4, <1>5, <2>4, Rests DEF MountAt
  <2>6. single => Agree({})'
    BY <1>3, <2>1, <2>4, <2>5 DEF Agree, Entry
  <2> QED
    BY <2>1, <2>2, <2>5, <2>6
<1>6. ASSUME NEW n \in SpaceNames, st[1] = Unmount(n) PROVE Kept /\ Moved
  <2>1. Unmounting(st)
    <3>1. ~Registering(st)
      BY <1>6, Rests DEF Registering, Register, Unmount
    <3>2. ASSUME Mounting(st) PROVE FALSE
      <4>1. PICK m \in SpaceNames, q \in SpacePaths : st \in {<<DefaultTo(m), MountAt(m, q)>>, <<MountAt(m, q)>>}
        BY <3>2 DEF Mounting
      <4>2. st[1] \in {DefaultTo(m), MountAt(m, q)}
        BY <4>1, Rests
      <4> QED
        BY <1>6, <4>2 DEF Unmount, MountAt, DefaultTo
    <3>3. ~Removing(st)
      BY <1>6, Rests DEF Removing, Unregister, Unmount
    <3>4. ~Choosing(st)
      BY <1>6, Rests DEF Choosing, DefaultTo, EngineTo, Unmount
    <3> QED
      BY <1>3, <3>1, <3>2, <3>3, <3>4 DEF Stage
  <2>2. PICK m \in SpaceNames, gone \in BOOLEAN : st = <<Unmount(m), Unregister(m, gone)>>
    BY <2>1 DEF Unmounting
  <2>3. m = n /\ rest = <<Unregister(n, gone)>> /\ rest # <<>>
    BY <1>4, <1>6, <2>2, Rests DEF Unmount
  <2>4. engine' = engine /\ (engine.default = n \/ n \notin DOMAIN mounted => tasks' = S!Abort(c) /\ mounted' = mounted)
        /\ (~(engine.default = n \/ n \notin DOMAIN mounted) =>
              tasks' = S!Done(c) /\ mounted' = [k \in DOMAIN mounted \ {n} |-> mounted[k]])
    BY <1>1, <1>6 DEF S!InEngine, S!Now, Unmount
  <2>5. single => Agree({})
    BY <2>1 DEF Unmounting
  <2>6. CASE engine.default = n \/ n \notin DOMAIN mounted
    <3>1. single => Agree({})'
      BY <1>3, <2>4, <2>5, <2>6 DEF Agree, Entry
    <3>2. Kept
      BY <2>4, <2>6 DEF SpacesInv, SpacesType
    <3> QED
      BY <2>4, <2>6, <3>1, <3>2
  <2>7. CASE ~(engine.default = n \/ n \notin DOMAIN mounted)
    <3>1. /\ mounted' = [k \in DOMAIN mounted \ {n} |-> mounted[k]]
          /\ n \notin DOMAIN mounted' /\ DOMAIN mounted' \in SUBSET DOMAIN mounted
          /\ \A k \in DOMAIN mounted' : mounted'[k] = mounted[k]
      BY <2>4, <2>7
    <3>2. Kept
      BY <2>4, <2>7, <3>1 DEF SpacesInv, SpacesType
    <3>3. single => Agree({})' /\ n \notin DOMAIN mounted'
      BY <1>3, <2>5, <3>1 DEF Agree, Entry
    <3>4. Removing(rest)'
      BY <1>2, <2>3, <3>3 DEF Removing
    <3> QED
      BY <2>3, <2>4, <2>7, <3>2, <3>4 DEF Stage
  <2> QED
    BY <2>6, <2>7
<1>7. ASSUME NEW n \in SpaceNames, st[1] = EngineTo(n) PROVE Kept /\ Moved
  <2>1. Choosing(st)
    <3>1. ~Registering(st)
      BY <1>7, Rests DEF Registering, Register, EngineTo
    <3>2. ASSUME Mounting(st) PROVE FALSE
      <4>1. PICK m \in SpaceNames, q \in SpacePaths : st \in {<<DefaultTo(m), MountAt(m, q)>>, <<MountAt(m, q)>>}
        BY <3>2 DEF Mounting
      <4>2. st[1] \in {DefaultTo(m), MountAt(m, q)}
        BY <4>1, Rests
      <4> QED
        BY <1>7, <4>2 DEF EngineTo, MountAt, DefaultTo
    <3>3. ~Removing(st)
      BY <1>7, Rests DEF Removing, Unregister, EngineTo
    <3>4. ~Unmounting(st)
      BY <1>7, Rests DEF Unmounting, Unmount, EngineTo
    <3> QED
      BY <1>3, <3>1, <3>2, <3>3, <3>4 DEF Stage
  <2>2. rest = <<>>
    <3>1. PICK m \in SpaceNames : st \in {<<DefaultTo(m), EngineTo(m)>>, <<EngineTo(m)>>}
      BY <2>1 DEF Choosing
    <3>2. st # <<DefaultTo(m), EngineTo(m)>>
      BY <1>7, Rests DEF DefaultTo, EngineTo
    <3> QED
      BY <1>4, <3>1, <3>2, Rests
  <2>3. mounted' = mounted /\ (n \in DOMAIN mounted => engine' = [engine EXCEPT !.default = n] /\ tasks' = S!Done(c))
        /\ (n \notin DOMAIN mounted => tasks' = S!Abort(c) /\ engine' = engine)
    BY <1>1, <1>7 DEF S!InEngine, S!Now, EngineTo
  <2>4. Kept
    BY <2>3 DEF SpacesInv, SpacesType, ConfigFile
  <2>5. single => Agree({})'
    BY <1>3, <2>1, <2>3 DEF Agree, Entry, Choosing
  <2> QED
    BY <2>2, <2>3, <2>4, <2>5
<1>8. Kept /\ Moved
  <2>1. st[1].do \in {"mount", "unmount", "engineDefault"}
    BY <1>1 DEF S!InEngine, S!Now
  <2>2. \/ \E n \in SpaceNames, p \in SpacePaths, forced \in BOOLEAN : st[1] = Register(n, p, forced)
        \/ \E n \in SpaceNames, p \in SpacePaths : st[1] \in {DefaultTo(n), MountAt(n, p)}
        \/ \E n \in SpaceNames, gone \in BOOLEAN : st[1] \in {Unmount(n), Unregister(n, gone), DefaultTo(n), EngineTo(n)}
    <3>1. CASE Registering(st)
      BY <3>1, Rests DEF Registering
    <3>2. CASE Mounting(st)
      BY <3>2, Rests DEF Mounting
    <3>3. CASE Unmounting(st)
      BY <3>3, Rests DEF Unmounting
    <3>4. CASE Removing(st)
      BY <3>4, Rests DEF Removing
    <3>5. CASE Choosing(st)
      <4>1. PICK n \in SpaceNames : st \in {<<DefaultTo(n), EngineTo(n)>>, <<EngineTo(n)>>}
        BY <3>5 DEF Choosing
      <4>2. st[1] \in {DefaultTo(n), EngineTo(n)} /\ TRUE \in BOOLEAN
        BY <4>1, Rests
      <4> QED
        BY <4>2
    <3> QED
      BY <1>3, <3>1, <3>2, <3>3, <3>4, <3>5 DEF Stage
  <2>3. \/ \E n \in SpaceNames, p \in SpacePaths : st[1] = MountAt(n, p)
        \/ \E n \in SpaceNames : st[1] \in {Unmount(n), EngineTo(n)}
    <3>1. \A n, p, x : Register(n, p, x).do = "register" /\ DefaultTo(n).do = "default" /\ Unregister(n, x).do = "remove"
      BY DEF Register, DefaultTo, Unregister
    <3>2. \A n, p, x : st[1] \notin {Register(n, p, x), DefaultTo(n), Unregister(n, x)}
      BY <2>1, <3>1
    <3> QED
      BY <2>2, <3>2
  <2> QED
    BY <1>5, <1>6, <1>7, <2>3
<1> HIDE DEF Kept
<1>9. ClientsStaged' /\ (tasks = [d \in SpaceClients |-> [steps |-> tasks[d].steps, loaded |-> tasks[d].loaded]])'
  <2>1. CASE tasks' = S!Done(c) /\ (rest # <<>> => Stage(rest)') /\ (single /\ rest = <<>> => Agree({})')
    BY <1>1, <1>2, <1>4, <2>1, StepDone
  <2>2. CASE tasks' = S!Abort(c) /\ (single => Agree({})')
    BY <1>1, <1>2, <2>2, StepAborted
  <2> QED
    BY <1>8, <2>1, <2>2
<1>10. SpacesType'
  <2>1. Sound(listed)'
    BY <1>2 DEF SpacesInv, SpacesType, Sound, S!Registered
  <2> QED
    BY <1>2, <1>8, <1>9, <2>1 DEF SpacesInv, SpacesType, Kept
<1>11. SettingsTold'
  BY <1>2, SameSettings
<1> QED
  BY <1>9, <1>10, <1>11 DEF SpacesInv

LEMMA RestartStep ==
  ASSUME SpacesInv, S!Restart PROVE SpacesInv'
<1>1. /\ UNCHANGED <<single, listed, tasks, settingsNow, settingsTold>> /\ engine' = listed
      /\ mounted' = [n \in S!Registered(listed) |-> S!PathOf(listed, n)] /\ S!Resting
  BY DEF S!Restart, S!settings, S!Resting
<1>2. \A n \in S!Registered(listed) : /\ Entry(n, S!PathOf(listed, n)) \in Entries(listed)
                                     /\ n \in SpaceNames /\ S!PathOf(listed, n) \in SpacePaths
  <2>1. Sound(listed)
    BY DEF SpacesInv, SpacesType
  <2>2. \A n, p : Entry(n, p).name = n /\ Entry(n, p).path = p
    BY DEF Entry
  <2>3. \A n \in S!Registered(listed) : Entry(n, S!PathOf(listed, n)) \in Entries(listed)
    BY <2>1, EntryFacts
  <2> QED
    BY <2>1, <2>2, <2>3, EntryFacts
<1>3. Agree({})' /\ Sound(listed)'
  BY <1>1, <1>2 DEF Agree, Entry, Entries, Sound, SpacesInv, SpacesType, S!Registered
<1>4. SpacesType'
  BY <1>1, <1>2, <1>3 DEF SpacesInv, SpacesType, Sound
<1>5. ClientsStaged'
  BY <1>1, <1>3 DEF SpacesInv, ClientsStaged, S!Resting, Busy, S!Idle
<1>6. SettingsTold'
  BY <1>1, SameSettings
<1> QED
  BY <1>4, <1>5, <1>6 DEF SpacesInv

LEMMA SettingStep ==
  ASSUME SpacesInv, NEW s \in SettingSections, NEW k \in SettingKeys, S!ConfigSet(s, k, 1) PROVE SpacesInv'
<1>1. UNCHANGED <<single, listed, engine, mounted, tasks>>
  BY DEF S!ConfigSet
<1>2. SpacesType' /\ ClientsStaged'
  BY <1>1, SameSpaces
<1>3. CASE S!SetGlobal(s, k, 1)
  <2>1. SettingsTold'
    BY <1>3 DEF S!SetGlobal, SpacesInv, SettingsTold, S!Unset
  <2> QED
    BY <1>2, <2>1 DEF SpacesInv
<1>4. CASE S!SetWiki(s, k, 1)
  <2>1. /\ settingsNow'.global = settingsNow.global /\ settingsTold'.global = settingsTold.global
        /\ settingsNow' = [global |-> settingsNow'.global, wiki |-> settingsNow'.wiki]
        /\ settingsTold' = [global |-> settingsTold'.global, wiki |-> settingsTold'.wiki]
        /\ settingsTold'.wiki = [settingsTold.wiki EXCEPT ![s][k] = 1]
        /\ settingsNow'.wiki = [settingsNow.wiki EXCEPT ![s] =
             [(IF settingsNow.wiki[s] = S!Unset THEN [j \in SettingKeys |-> 0] ELSE settingsNow.wiki[s]) EXCEPT ![k] = 1]]
    BY <1>4 DEF S!SetWiki, SpacesInv, SettingsTold
  <2>2. (IF settingsNow.wiki[s] = S!Unset THEN [j \in SettingKeys |-> 0] ELSE settingsNow.wiki[s]) = settingsTold.wiki[s]
    <3>1. CASE settingsNow.wiki[s] = S!Unset /\ \A j \in SettingKeys : settingsTold.wiki[s][j] = 0
      BY <3>1 DEF SpacesInv, SettingsTold
    <3>2. CASE settingsNow.wiki[s] = settingsTold.wiki[s] /\ \E j \in SettingKeys : settingsTold.wiki[s][j] # 0
      <4>1. DOMAIN S!Unset = {} /\ DOMAIN settingsTold.wiki[s] = SettingKeys
        BY DEF S!Unset, SpacesInv, SettingsTold
      <4> QED
        BY <3>2, <4>1
    <3> QED
      BY <3>1, <3>2 DEF SpacesInv, SettingsTold
  <2>3. /\ settingsTold.wiki \in [SettingSections -> [SettingKeys -> Nat]]
        /\ settingsNow.wiki \in [SettingSections -> [SettingKeys -> Nat] \cup {S!Unset}]
        /\ settingsTold.wiki[s] \in [SettingKeys -> Nat]
    BY DEF SpacesInv, SettingsTold
  <2>4. PICK g : g = [settingsTold.wiki[s] EXCEPT ![k] = 1]
    OBVIOUS
  <2>5. g \in [SettingKeys -> Nat] /\ g[k] # 0
    BY <2>3, <2>4
  <2>6. settingsTold'.wiki = [settingsTold.wiki EXCEPT ![s] = g] /\ settingsNow'.wiki = [settingsNow.wiki EXCEPT ![s] = g]
    BY <2>1, <2>2, <2>4
  <2>7. /\ settingsTold'.wiki[s] = g /\ settingsNow'.wiki[s] = g
        /\ \A t \in SettingSections : t # s => /\ settingsTold'.wiki[t] = settingsTold.wiki[t]
                                              /\ settingsNow'.wiki[t] = settingsNow.wiki[t]
        /\ settingsTold'.wiki \in [SettingSections -> [SettingKeys -> Nat]]
        /\ settingsNow'.wiki \in [SettingSections -> [SettingKeys -> Nat] \cup {S!Unset}]
    BY <2>3, <2>5, <2>6
  <2>8. \A t \in SettingSections :
          \/ settingsNow'.wiki[t] = S!Unset /\ \A j \in SettingKeys : settingsTold'.wiki[t][j] = 0
          \/ settingsNow'.wiki[t] = settingsTold'.wiki[t] /\ \E j \in SettingKeys : settingsTold'.wiki[t][j] # 0
    <3>1. settingsNow'.wiki[s] = settingsTold'.wiki[s] /\ settingsTold'.wiki[s][k] # 0
      BY <2>5, <2>7
    <3>2. ASSUME NEW t \in SettingSections, t # s
          PROVE  \/ settingsNow'.wiki[t] = S!Unset /\ \A j \in SettingKeys : settingsTold'.wiki[t][j] = 0
                 \/ settingsNow'.wiki[t] = settingsTold'.wiki[t] /\ \E j \in SettingKeys : settingsTold'.wiki[t][j] # 0
      BY <2>7, <3>2 DEF SpacesInv, SettingsTold
    <3> QED
      BY <3>1, <3>2
  <2>9. SettingsTold'
    <3>1. settingsNow'.global = settingsTold'.global /\ settingsTold'.global \in [SettingSections -> [SettingKeys -> Nat]]
      BY <2>1 DEF SpacesInv, SettingsTold
    <3>2. S!Unset' = S!Unset
      BY DEF S!Unset
    <3> QED
      BY <2>1, <2>7, <2>8, <3>1, <3>2 DEF SettingsTold
  <2> QED
    BY <1>2, <2>9 DEF SpacesInv
<1> QED
  BY <1>3, <1>4 DEF S!ConfigSet

LEMMA SpacesStep == SpacesInv /\ [S!Next]_S!vars => SpacesInv'
<1> SUFFICES ASSUME SpacesInv, [S!Next]_S!vars PROVE SpacesInv'
  OBVIOUS
<1>1. ASSUME UNCHANGED <<single, listed, engine, mounted, tasks, settingsNow, settingsTold>> PROVE SpacesInv'
  BY <1>1, SameSpaces, SameSettings DEF SpacesInv
<1>2. ASSUME NEW n \in SpaceNames, S!Write(n) PROVE SpacesInv'
  BY <1>1, <1>2 DEF S!Write, S!settings
<1>3. CASE UNCHANGED S!vars
  BY <1>1, <1>3 DEF S!vars
<1> QED
  BY <1>2, <1>3, CreateSpace, OtherStarts, LoadStep, SaveStep, EngineStep, RestartStep, SettingStep DEF S!Next

-----------------------------------------------------------------------------
(* The index of a wiki and the graph that is built of it.                   *)

CONSTANTS PageIds, PageKinds, MaxEdits, MaxRebuilds, MaxQueue, MaxCrashes

VARIABLES watched, autoRebuild, pages, schema, registry, types, docs, reader, generation,
  queue, batch, job, request, graphCache, up, edits, crashes, missed

I == INSTANCE WikiIndex WITH cache <- graphCache

\* The type of a page that names none is one of the types.
IndexConstants == "page" \in PageKinds /\ I!Untyped \notin PageKinds

Versions == [PageKinds -> Nat]
Job(a) ==
  /\ job[a].at \in {"idle", "retry", "writing", "walked", "committed", "reloaded", "bumped"}
  /\ job[a].kinds \in SUBSET I!AllKinds /\ job[a].owed \in BOOLEAN
  /\ job[a].kinds = I!AllKinds \/ job[a].kinds \subseteq PageKinds

IndexType ==
  /\ up \in BOOLEAN /\ missed \in BOOLEAN /\ autoRebuild \in BOOLEAN
  /\ edits \in Nat /\ generation \in Nat /\ graphCache.key \in Nat
  /\ \A p \in DOMAIN pages : pages[p].kind \in I!AllKinds
  /\ schema \in Versions /\ registry \in Versions /\ types \in Versions
  /\ \A e \in queue \cup batch : e[1] \in {"page", "schema"}
  /\ job = [a \in I!Actors |-> job[a]] /\ \A a \in I!Actors : Job(a)
  /\ \E s \in {"none", "asked", "building"}, n, m \in Nat :
       request = [at |-> s, sees |-> request.sees, key |-> n, born |-> m]

\* What was built is no newer than what is mounted, and that no newer than the disk.
VersionsGrow ==
  \A k \in PageKinds : types[k] <= registry[k] /\ registry[k] <= schema[k] /\ schema[k] <= edits

\* Nothing is under way while the process is down, and one actor at most has the
\* writer.
DownIsIdle ==
  ~up => queue = {} /\ batch = {} /\ request = I!NoRequest /\ \A a \in I!Actors : job[a] = I!Idle
Waits(a) == job[a].at \in {"idle", "retry"}
OneWriter == \A a, b \in I!Actors : Waits(a) \/ Waits(b) \/ a = b

\* An edit that was not missed is in the index, or a full rebuild is still to come;
\* or it is in what a walk has made, if it was there before the walk.
PageAhead == \E e \in queue \cup batch : e[1] = "page"
RebuildAhead == job["watcher"].at \in {"writing", "walked"} /\ job["watcher"].kinds = I!AllKinds
EditsIndexed == I!Owed \/ I!Current(docs) \/ PageAhead \/ RebuildAhead
WalkIndexed ==
  \A a \in I!Actors : job[a].at = "walked" => missed \/ I!Current(job[a].docs) \/ PageAhead

\* The reader sees the index, but for a commit whose reload is still to come.
ReaderFollows == up => reader = docs \/ \E a \in I!Actors : job[a].at = "committed"

\* No graph is of a generation that is still to come, and one of a request that began
\* in this generation is of the index the reader sees.
KeysPast == up => /\ graphCache.key <= generation /\ request.key <= generation
                  /\ graphCache.born <= generation /\ request.born <= generation
                  /\ graphCache.born \in Nat
RequestCurrent ==
  request # I!NoRequest /\ request.born = generation /\ ~I!Reloading => request.sees = reader
GraphFollows ==
  up /\ graphCache.born = generation /\ ~I!Reloading => graphCache.docs = reader

IndexInv ==
  /\ IndexType /\ VersionsGrow /\ DownIsIdle /\ EditsIndexed /\ ReaderFollows
  /\ OneWriter /\ WalkIndexed /\ KeysPast /\ RequestCurrent /\ GraphFollows

LEMMA IndexSafe == IndexInv => I!WikiIndexed
<1> SUFFICES ASSUME IndexInv PROVE I!QuietFresh /\ I!GraphCurrent
  BY DEF I!WikiIndexed
<1>1. I!GraphCurrent
  BY DEF IndexInv, GraphFollows, I!GraphCurrent
<1>2. ASSUME I!Quiet, ~missed PROVE I!Current(reader)
  <2>1. \A a \in I!Actors : job[a] = I!Idle
    BY <1>2 DEF I!Quiet
  <2>2. \A a \in I!Actors : job[a].at = "idle"
    BY <2>1 DEF I!Idle
  <2>3. reader = docs
    BY <1>2, <2>2 DEF IndexInv, ReaderFollows, I!Quiet
  <2>4. "watcher" \in I!Actors
    BY DEF I!Actors
  <2>5. ~I!Owed /\ ~PageAhead /\ ~RebuildAhead
    BY <1>2, <2>2, <2>4 DEF I!Owed, PageAhead, RebuildAhead, I!Quiet
  <2>6. I!Current(docs)
    BY <2>5 DEF IndexInv, EditsIndexed
  <2> QED
    BY <2>3, <2>6
<1> QED
  BY <1>1, <1>2 DEF I!QuietFresh

LEMMA IndexInit == IndexConstants /\ I!Init => IndexInv
<1> SUFFICES ASSUME IndexConstants, I!Init PROVE IndexInv
  OBVIOUS
<1>1. PICK k \in PageKinds : k = CHOOSE l \in PageKinds : TRUE
  BY DEF IndexConstants
<1>2. /\ pages = [p \in PageIds |-> [kind |-> k, text |-> 0]]
      /\ schema = [l \in PageKinds |-> 0] /\ registry = schema /\ types = schema
      /\ docs = I!Docs(schema) /\ reader = docs /\ generation = 0
      /\ queue = {} /\ batch = {} /\ job = [a \in I!Actors |-> I!Idle]
      /\ request = I!NoRequest /\ graphCache = [key |-> 0, docs |-> docs, born |-> 0]
      /\ up = TRUE /\ edits = 0 /\ missed = FALSE
      /\ autoRebuild \in BOOLEAN
  BY <1>1 DEF I!Init
<1>3. \A p \in DOMAIN pages : pages[p].kind \in I!AllKinds
  BY <1>2 DEF I!AllKinds
<1>4. \A a \in I!Actors : job[a] = I!Idle /\ job[a].at = "idle" /\ job[a].kinds = {} /\ job[a].owed = FALSE
  BY <1>2 DEF I!Idle
<1>5. IndexType
  <2>1. \A a \in I!Actors : Job(a)
    BY <1>4 DEF Job
  <2> QED
    BY <1>2, <1>3, <2>1 DEF IndexType, Versions, I!NoRequest
<1>6. VersionsGrow
  BY <1>2 DEF VersionsGrow
<1>7. I!Current(docs)
  BY <1>2 DEF I!Current
<1>8. DownIsIdle /\ EditsIndexed /\ ReaderFollows /\ KeysPast /\ RequestCurrent /\ GraphFollows
  BY <1>2, <1>7 DEF DownIsIdle, EditsIndexed, ReaderFollows, KeysPast, RequestCurrent, GraphFollows, I!NoRequest
<1>9. OneWriter /\ WalkIndexed
  BY <1>4 DEF OneWriter, Waits, WalkIndexed
<1> QED
  BY <1>5, <1>6, <1>8, <1>9 DEF IndexInv

\* A rebuild of all kinds makes all documents anew, and one of some types keeps an
\* index current that is.
LEMMA KindOf ==
  ASSUME IndexConstants
  PROVE  /\ \A k \in PageKinds : I!TypeOf(k) = k
         /\ \A k \in I!AllKinds : I!TypeOf(k) \in I!AllKinds /\ I!TypeOf(k) \in PageKinds
         /\ \A k \in I!AllKinds : k \in PageKinds \/ k = I!Untyped
  BY DEF IndexConstants, I!TypeOf, I!AllKinds

LEMMA DocKinds ==
  ASSUME IndexType, NEW v
  PROVE  \A d \in I!Docs(v) : d.kind \in I!AllKinds
  BY DEF IndexType, I!Docs, I!Doc

LEMMA FullRebuild ==
  ASSUME IndexConstants, IndexType
  PROVE  I!Current(I!Partial(I!AllKinds, registry))
<1>1. \A d \in I!Docs(registry) : I!TypeOf(d.kind) \in I!AllKinds
  BY DocKinds, KindOf
<1>2. PageKinds \subseteq I!AllKinds
  BY DEF I!AllKinds
<1> QED
  BY <1>1, <1>2 DEF I!Partial, I!Current

LEMMA PartialRebuild ==
  ASSUME IndexConstants, IndexType, NEW ks \in SUBSET PageKinds, I!Current(docs)
  PROVE  I!Current(I!Partial(ks, registry))
<1>1. ASSUME NEW d \in I!Docs(registry) PROVE d \in I!Partial(ks, registry)
  <2>1. d \in docs /\ (d.kind \in ks => I!TypeOf(d.kind) = d.kind)
    BY KindOf DEF I!Current
  <2> QED
    BY <2>1 DEF I!Partial
<1>2. \A d \in I!Partial(ks, registry) : d.kind \in PageKinds => d \in I!Docs(registry)
  BY DEF I!Partial, I!Current
<1> QED
  BY <1>1, <1>2 DEF I!Current

LEMMA SameDocs ==
  ASSUME UNCHANGED <<pages, registry>>
  PROVE  /\ I!Docs(registry)' = I!Docs(registry)
         /\ \A ds : I!Current(ds)' = I!Current(ds)
  BY DEF I!Docs, I!Doc, I!Current

\* The job of one actor becomes another.
LEMMA SetJob ==
  ASSUME IndexType, NEW a \in I!Actors, NEW j, job' = [job EXCEPT ![a] = j],
         j.at \in {"idle", "retry", "writing", "walked", "committed", "reloaded", "bumped"},
         j.kinds \in SUBSET I!AllKinds, j.owed \in BOOLEAN, j.kinds = I!AllKinds \/ j.kinds \subseteq PageKinds
  PROVE  /\ job' = [b \in I!Actors |-> job'[b]] /\ \A b \in I!Actors : Job(b)'
         /\ job'[a] = j /\ \A b \in I!Actors : b # a => job'[b] = job[b]
<1>1. job'[a] = j /\ \A b \in I!Actors : b # a => job'[b] = job[b]
  BY DEF IndexType
<1>2. \A b \in I!Actors : Job(b)'
  <2> SUFFICES ASSUME NEW b \in I!Actors PROVE Job(b)'
    OBVIOUS
  <2>1. CASE b = a
    BY <1>1, <2>1 DEF Job
  <2>2. CASE b # a
    <3>1. job'[b] = job[b] /\ Job(b)
      BY <1>1, <2>2 DEF IndexType
    <3> QED
      BY <3>1 DEF Job
  <2> QED
    BY <2>1, <2>2
<1>3. job' = [b \in I!Actors |-> job'[b]]
  BY DEF IndexType
<1> QED
  BY <1>1, <1>2, <1>3

\* What nobody's job or index bears on stays.
LEMMA RestStays ==
  ASSUME IndexInv, UNCHANGED <<docs, reader, generation, job, request, graphCache, up>>
  PROVE  ReaderFollows' /\ KeysPast' /\ RequestCurrent' /\ GraphFollows' /\ OneWriter'
  BY DEF IndexInv, ReaderFollows, KeysPast, RequestCurrent, GraphFollows, OneWriter, Waits, I!Reloading

-----------------------------------------------------------------------------

LEMMA NotifyKeeps ==
  ASSUME IndexInv, NEW e, e[1] \in {"page", "schema"}, I!Notify(e), UNCHANGED <<batch, up>>
  PROVE  /\ missed' \in BOOLEAN /\ \A x \in queue' \cup batch' : x[1] \in {"page", "schema"}
         /\ ~up => queue' = {}
         /\ queue \subseteq queue' /\ (missed => missed')
         /\ e[1] = "page" => missed' \/ e \in queue'
<1>1. CASE queue' = queue \cup {e} /\ missed' = missed /\ up
  BY <1>1 DEF IndexInv, IndexType
<1>2. CASE missed' = (missed \/ e[1] = "page") /\ queue' = queue
  BY <1>2 DEF IndexInv, IndexType, DownIsIdle
<1> QED
  BY <1>1, <1>2 DEF I!Notify

LEMMA EditPageStep ==
  ASSUME IndexInv, NEW p \in PageIds, I!EditPage(p)
  PROVE  IndexInv'
<1> DEFINE e == <<"page", p, edits>>
<1>1. /\ edits' = edits + 1 /\ I!Notify(e)
      /\ UNCHANGED <<autoRebuild, schema, registry, types, docs, reader, generation, batch, job, request, graphCache, up>>
  BY DEF I!EditPage, I!mode, I!index, I!asking, I!life
<1>2. \A q \in DOMAIN pages' : pages'[q].kind \in I!AllKinds
  <2>1. CASE \E k \in I!AllKinds : pages' = [q \in DOMAIN pages \cup {p} |->
                                 IF q = p THEN [kind |-> k, text |-> edits + 1] ELSE pages[q]]
    BY <2>1 DEF IndexInv, IndexType
  <2>2. CASE pages' = [q \in DOMAIN pages \ {p} |-> pages[q]]
    BY <2>2 DEF IndexInv, IndexType
  <2> QED
    BY <2>1, <2>2 DEF I!EditPage
<1>3. /\ missed' \in BOOLEAN /\ \A x \in queue' \cup batch' : x[1] \in {"page", "schema"}
      /\ ~up => queue' = {}
      /\ missed' \/ e \in queue'
  BY <1>1, NotifyKeeps
<1>4. IndexType'
  BY <1>1, <1>2, <1>3 DEF IndexInv, IndexType, Job
<1>5. VersionsGrow'
  BY <1>1 DEF IndexInv, IndexType, VersionsGrow, Versions
<1>6. DownIsIdle'
  BY <1>1, <1>3 DEF IndexInv, DownIsIdle
<1>7. EditsIndexed' /\ WalkIndexed'
  BY <1>3 DEF EditsIndexed, WalkIndexed, PageAhead, I!Owed
<1>8. ReaderFollows' /\ KeysPast' /\ RequestCurrent' /\ GraphFollows' /\ OneWriter'
  BY <1>1, RestStays
<1> QED
  BY <1>4, <1>5, <1>6, <1>7, <1>8 DEF IndexInv

LEMMA EditSchemaStep ==
  ASSUME IndexInv, NEW k \in PageKinds, I!EditSchema(k)
  PROVE  IndexInv'
<1> DEFINE e == <<"schema", k, edits>>
<1>1. /\ edits' = edits + 1 /\ I!Notify(e) /\ schema' = [schema EXCEPT ![k] = edits + 1]
      /\ UNCHANGED <<autoRebuild, pages, registry, types, docs, reader, generation, batch, job, request, graphCache, up>>
  BY DEF I!EditSchema, I!mode, I!index, I!asking, I!life
<1>2. schema' \in Versions /\ \A l \in PageKinds : schema[l] <= schema'[l] /\ schema'[l] <= edits'
  BY <1>1 DEF IndexInv, IndexType, VersionsGrow, Versions
<1>3. /\ missed' \in BOOLEAN /\ \A x \in queue' \cup batch' : x[1] \in {"page", "schema"}
      /\ (~up => queue' = {}) /\ queue \subseteq queue' /\ (missed => missed')
  BY <1>1, NotifyKeeps
<1>4. IndexType'
  BY <1>1, <1>2, <1>3 DEF IndexInv, IndexType, Job
<1>5. VersionsGrow'
  BY <1>1, <1>2 DEF IndexInv, IndexType, VersionsGrow, Versions
<1>6. DownIsIdle'
  BY <1>1, <1>3 DEF IndexInv, DownIsIdle
<1>7. EditsIndexed' /\ WalkIndexed'
  <2>1. queue \subseteq queue' /\ batch' = batch /\ job' = job /\ docs' = docs /\ (missed => missed')
    BY <1>1, <1>3
  <2>2. /\ PageAhead => PageAhead'
        /\ RebuildAhead => RebuildAhead'
        /\ I!Owed => I!Owed'
    BY <2>1 DEF PageAhead, RebuildAhead, I!Owed
  <2>3. \A ds : I!Current(ds)' = I!Current(ds)
    BY <1>1, SameDocs
  <2> QED
    BY <2>1, <2>2, <2>3 DEF IndexInv, EditsIndexed, WalkIndexed
<1>8. ReaderFollows' /\ KeysPast' /\ RequestCurrent' /\ GraphFollows' /\ OneWriter'
  BY <1>1, RestStays
<1> QED
  BY <1>4, <1>5, <1>6, <1>7, <1>8 DEF IndexInv

LEMMA CollectStep ==
  ASSUME IndexInv, NEW e \in queue, I!Collect(e)
  PROVE  IndexInv'
<1>1. /\ up /\ batch' = batch \cup {e} /\ queue' = queue \ {e}
      /\ UNCHANGED <<autoRebuild, pages, schema, edits, registry, types, docs, reader, generation, job, request, graphCache, up, missed>>
  BY DEF I!Collect, I!mode, I!disk, I!index, I!asking, I!life
<1>2. queue' \cup batch' = queue \cup batch
  BY <1>1
<1>3. IndexType'
  BY <1>1, <1>2 DEF IndexInv, IndexType, Job
<1>4. EditsIndexed' /\ WalkIndexed'
  <2>1. /\ PageAhead' = PageAhead /\ RebuildAhead' = RebuildAhead /\ I!Owed' = I!Owed
        /\ \A ds : I!Current(ds)' = I!Current(ds)
    BY <1>1, <1>2, SameDocs DEF PageAhead, RebuildAhead, I!Owed
  <2> QED
    BY <1>1, <2>1 DEF IndexInv, EditsIndexed, WalkIndexed
<1>5. VersionsGrow' /\ DownIsIdle'
  BY <1>1 DEF IndexInv, VersionsGrow, DownIsIdle
<1>6. ReaderFollows' /\ KeysPast' /\ RequestCurrent' /\ GraphFollows' /\ OneWriter'
  BY <1>1, RestStays
<1> QED
  BY <1>3, <1>4, <1>5, <1>6 DEF IndexInv

\* Who takes the writer, or fails to, was in no rebuild that others wait for.
LEMMA TakeKeeps ==
  ASSUME IndexInv, NEW a \in I!Actors, Waits(a), NEW ks \in SUBSET I!AllKinds,
         ks = I!AllKinds \/ ks \subseteq PageKinds, I!Take(a, ks)
  PROVE  /\ job' = [b \in I!Actors |-> job'[b]] /\ \A b \in I!Actors : Job(b)'
         /\ job'[a].at = IF ~I!Busy THEN "writing" ELSE job'[a].at
         /\ ~I!Busy => job'[a].kinds = ks
         /\ job'[a].at \in {"idle", "retry"} \/ (job'[a].at = "writing" /\ ~I!Busy)
         /\ \A b \in I!Actors : b # a => job'[b] = job[b]
<1> DEFINE j == IF ~I!Busy THEN [I!Idle EXCEPT !.at = "writing", !.kinds = ks]
                ELSE IF ks # I!AllKinds THEN [I!Idle EXCEPT !.at = "retry", !.kinds = I!AllKinds] ELSE I!Idle
<1>1. job' = [job EXCEPT ![a] = j]
  BY DEF I!Take
<1>2. /\ j.at \in {"idle", "retry", "writing"} /\ j.kinds \in SUBSET I!AllKinds /\ j.owed \in BOOLEAN
      /\ j.kinds = I!AllKinds \/ j.kinds \subseteq PageKinds
      /\ j.at = "writing" <=> ~I!Busy
      /\ ~I!Busy => j.kinds = ks
  BY DEF I!Idle
<1> HIDE DEF j
<1>3. IndexType
  BY DEF IndexInv
<1>4. /\ job' = [b \in I!Actors |-> job'[b]] /\ \A b \in I!Actors : Job(b)'
      /\ job'[a] = j /\ \A b \in I!Actors : b # a => job'[b] = job[b]
  BY <1>1, <1>2, <1>3, SetJob
<1> QED
  BY <1>2, <1>4

\* What the end of a debounce and the start of a rebuild leave alone.
LEMMA TakeFrame ==
  ASSUME IndexInv, up, NEW a \in I!Actors, Waits(a), NEW ks \in SUBSET I!AllKinds,
         ks = I!AllKinds \/ ks \subseteq PageKinds, I!Take(a, ks),
         UNCHANGED <<autoRebuild, pages, schema, edits, registry, types, docs, reader, generation, request, graphCache, up, queue>>,
         missed' \in BOOLEAN, missed => missed', batch' \subseteq batch
  PROVE  /\ IndexType' /\ VersionsGrow' /\ DownIsIdle' /\ ReaderFollows' /\ KeysPast'
         /\ RequestCurrent' /\ GraphFollows' /\ OneWriter'
         /\ (I!Owed => I!Owed') /\ (I!Current(docs) => I!Current(docs)')
         /\ \A b \in I!Actors : job'[b].at = "walked" => job[b] = job'[b] /\ job[b].at = "walked" /\ I!Busy
<1>1. /\ job' = [b \in I!Actors |-> job'[b]] /\ \A b \in I!Actors : Job(b)'
      /\ job'[a].at \in {"idle", "retry"} \/ (job'[a].at = "writing" /\ ~I!Busy)
      /\ \A b \in I!Actors : b # a => job'[b] = job[b]
  BY TakeKeeps
<1>2. job[a].at \in {"idle", "retry"}
  BY DEF Waits
<1>3. \A b \in I!Actors, s \in {"walked", "committed", "reloaded"} : job'[b].at = s <=> job[b].at = s
  BY <1>1, <1>2
<1>4. IndexType'
  BY <1>1 DEF IndexInv, IndexType
<1>5. VersionsGrow' /\ DownIsIdle' /\ KeysPast'
  BY DEF IndexInv, VersionsGrow, DownIsIdle, KeysPast
<1>6. I!Reloading' = I!Reloading
  BY <1>3 DEF I!Reloading
<1>7. ReaderFollows' /\ RequestCurrent' /\ GraphFollows'
  BY <1>3, <1>6 DEF IndexInv, ReaderFollows, RequestCurrent, GraphFollows
<1>8. OneWriter'
  <2>1. ~I!Busy => \A b \in I!Actors : Waits(b)
    BY DEF I!Busy, Waits
  <2>2. \A b \in I!Actors : b # a => (Waits(b) <=> Waits(b)')
    BY <1>1 DEF Waits
  <2>3. Waits(a)' \/ ~I!Busy
    BY <1>1 DEF Waits
  <2> QED
    BY <2>1, <2>2, <2>3 DEF IndexInv, OneWriter
<1>9. \A b \in I!Actors : job'[b].at = "walked" => job[b] = job'[b] /\ job[b].at = "walked" /\ I!Busy
  BY <1>1, <1>2, <1>3 DEF I!Busy
<1>10. I!Owed => I!Owed'
  BY <1>1, <1>2 DEF I!Owed
<1>11. I!Current(docs) => I!Current(docs)'
  BY SameDocs DEF I!Current
<1> QED
  BY <1>4, <1>5, <1>7, <1>8, <1>9, <1>10, <1>11

LEMMA ActStep ==
  ASSUME IndexInv, I!ActOnBatch
  PROVE  IndexInv'
<1>1. /\ up /\ job["watcher"] = I!Idle /\ batch # {} /\ batch' = {}
      /\ UNCHANGED <<autoRebuild, pages, schema, edits, registry, types, docs, reader, generation, queue, request, graphCache, up>>
  BY DEF I!ActOnBatch, I!mode, I!disk, I!index, I!asking, I!life
<1>2. "watcher" \in I!Actors /\ Waits("watcher") /\ ~RebuildAhead
  BY <1>1 DEF I!Actors, I!Idle, Waits, RebuildAhead
<1>3. CASE \E e \in batch : e[1] = "schema"
  <2>1. missed' = (missed \/ \E e \in batch : e[1] = "page")
    BY <1>3 DEF I!ActOnBatch
  <2>2. missed' \in BOOLEAN /\ (missed => missed')
    BY <2>1 DEF IndexInv, IndexType
  <2>3. PageAhead => missed' \/ PageAhead'
    BY <1>1, <2>1 DEF PageAhead
  <2>4. CASE I!Changed = {}
    <3>1. UNCHANGED job
      BY <1>3, <2>4 DEF I!ActOnBatch
    <3>2. IndexType'
      BY <1>1, <2>2, <3>1 DEF IndexInv, IndexType, Job
    <3>3. VersionsGrow' /\ DownIsIdle'
      BY <1>1, <3>1 DEF IndexInv, VersionsGrow, DownIsIdle
    <3>4. KeysPast' /\ RequestCurrent' /\ ReaderFollows' /\ GraphFollows' /\ OneWriter'
      BY <1>1, <3>1, RestStays
    <3>5. \A ds : I!Current(ds)' = I!Current(ds)
      BY <1>1, SameDocs
    <3>6. I!Owed => I!Owed'
      BY <2>2, <3>1 DEF I!Owed
    <3>7. missed' => I!Owed'
      BY DEF I!Owed
    <3>8. EditsIndexed' /\ WalkIndexed'
      BY <1>1, <1>2, <2>2, <2>3, <3>1, <3>5, <3>6, <3>7 DEF IndexInv, EditsIndexed, WalkIndexed
    <3> QED
      BY <3>2, <3>3, <3>4, <3>8 DEF IndexInv
  <2>5. CASE I!Changed # {}
    <3>1. I!Take("watcher", I!Changed) /\ I!Changed \in SUBSET I!AllKinds /\ I!Changed \subseteq PageKinds
      BY <1>3, <2>5 DEF I!ActOnBatch, I!Changed, I!AllKinds
    <3>2. /\ IndexType' /\ VersionsGrow' /\ DownIsIdle' /\ ReaderFollows' /\ KeysPast'
          /\ RequestCurrent' /\ GraphFollows' /\ OneWriter'
          /\ (I!Owed => I!Owed') /\ (I!Current(docs) => I!Current(docs)')
          /\ \A b \in I!Actors : job'[b].at = "walked" => job[b] = job'[b] /\ job[b].at = "walked" /\ I!Busy
      BY <1>1, <1>2, <2>2, <3>1, TakeFrame
    <3>3. \A ds : I!Current(ds)' = I!Current(ds)
      BY <1>1, SameDocs
    <3>4. missed' => I!Owed'
      BY DEF I!Owed
    <3>5. EditsIndexed'
      BY <1>2, <2>3, <3>2, <3>4 DEF IndexInv, EditsIndexed
    <3>6. WalkIndexed'
      BY <2>2, <2>3, <3>2, <3>3 DEF IndexInv, WalkIndexed
    <3> QED
      BY <3>2, <3>5, <3>6 DEF IndexInv
  <2> QED
    BY <2>4, <2>5
<1>4. CASE ~ \E e \in batch : e[1] = "schema"
  <2>1. I!Take("watcher", I!AllKinds) /\ missed' = (missed \/ I!Busy)
    BY <1>4 DEF I!ActOnBatch
  <2>2. missed' \in BOOLEAN /\ (missed => missed')
    BY <2>1 DEF IndexInv, IndexType, I!Busy
  <2>3. ~I!Busy => job'["watcher"].at = "writing" /\ job'["watcher"].kinds = I!AllKinds
    BY <1>2, <2>1, TakeKeeps
  <2>4. /\ IndexType' /\ VersionsGrow' /\ DownIsIdle' /\ ReaderFollows' /\ KeysPast'
        /\ RequestCurrent' /\ GraphFollows' /\ OneWriter'
        /\ \A b \in I!Actors : job'[b].at = "walked" => job[b] = job'[b] /\ job[b].at = "walked" /\ I!Busy
    BY <1>1, <1>2, <2>1, <2>2, TakeFrame
  <2>5. EditsIndexed'
    BY <2>1, <2>3 DEF EditsIndexed, RebuildAhead, I!Owed
  <2>6. WalkIndexed'
    BY <2>1, <2>4 DEF WalkIndexed
  <2> QED
    BY <2>4, <2>5, <2>6 DEF IndexInv
<1> QED
  BY <1>3, <1>4

LEMMA TakeAgainStep ==
  ASSUME IndexInv, NEW a \in I!Actors, I!RetryFull(a) \/ (a = "api" /\ I!RebuildIndex)
  PROVE  IndexInv'
<1>1. /\ up /\ Waits(a) /\ I!Take(a, I!AllKinds)
      /\ UNCHANGED <<autoRebuild, pages, schema, edits, registry, types, docs, reader, generation, queue, batch, request, graphCache, up, missed>>
  BY DEF I!RetryFull, I!RebuildIndex, I!mode, I!disk, I!index, I!asking, I!life, I!watcher, I!Idle, Waits
<1>2. missed' \in BOOLEAN /\ (missed => missed')
  BY <1>1 DEF IndexInv, IndexType
<1>3. /\ IndexType' /\ VersionsGrow' /\ DownIsIdle' /\ ReaderFollows' /\ KeysPast'
      /\ RequestCurrent' /\ GraphFollows' /\ OneWriter'
      /\ (I!Owed => I!Owed') /\ (I!Current(docs) => I!Current(docs)')
      /\ \A b \in I!Actors : job'[b].at = "walked" => job[b] = job'[b] /\ job[b].at = "walked" /\ I!Busy
  BY <1>1, <1>2, TakeFrame
<1>4. RebuildAhead => RebuildAhead'
  <2>1. ASSUME RebuildAhead PROVE a # "watcher"
    BY <1>1, <2>1 DEF RebuildAhead, Waits
  <2>2. a # "watcher" => job'["watcher"] = job["watcher"]
    BY <1>1, TakeKeeps DEF I!Actors
  <2> QED
    BY <2>1, <2>2 DEF RebuildAhead
<1>5. PageAhead => PageAhead'
  BY <1>1 DEF PageAhead
<1>6. EditsIndexed'
  BY <1>3, <1>4, <1>5 DEF IndexInv, EditsIndexed
<1>7. WalkIndexed'
  <2>1. \A ds : I!Current(ds)' = I!Current(ds)
    BY <1>1, SameDocs
  <2> QED
    BY <1>2, <1>3, <1>5, <2>1 DEF IndexInv, WalkIndexed
<1> QED
  BY <1>3, <1>6, <1>7 DEF IndexInv

\* One actor goes on with its rebuild.
LEMMA GoesOn ==
  ASSUME IndexInv, NEW a \in I!Actors, ~Waits(a), NEW j, job' = [job EXCEPT ![a] = j],
         j.at \in {"idle", "walked", "committed", "reloaded", "bumped"},
         j.kinds \in SUBSET I!AllKinds, j.owed \in BOOLEAN, j.kinds = I!AllKinds \/ j.kinds \subseteq PageKinds
  PROVE  /\ job' = [b \in I!Actors |-> job'[b]] /\ \A b \in I!Actors : Job(b)'
         /\ job'[a] = j /\ \A b \in I!Actors : b # a => job'[b] = job[b] /\ job[b].at \in {"idle", "retry"}
         /\ OneWriter'
<1>1. IndexType /\ OneWriter
  BY DEF IndexInv
<1>2. /\ job' = [b \in I!Actors |-> job'[b]] /\ \A b \in I!Actors : Job(b)'
      /\ job'[a] = j /\ \A b \in I!Actors : b # a => job'[b] = job[b]
  BY <1>1, SetJob
<1>3. \A b \in I!Actors : b # a => Waits(b)
  BY <1>1 DEF OneWriter
<1>4. OneWriter'
  BY <1>2, <1>3 DEF OneWriter, Waits
<1> QED
  BY <1>2, <1>3, <1>4 DEF Waits

LEMMA WalkStep ==
  ASSUME IndexConstants, IndexInv, NEW a \in I!Actors, I!Walk(a)
  PROVE  IndexInv'
<1> DEFINE j == [at |-> "walked", kinds |-> job[a].kinds, docs |-> I!Partial(job[a].kinds, registry), owed |-> missed]
<1>1. /\ up /\ job[a].at = "writing" /\ job' = [job EXCEPT ![a] = j]
      /\ missed' = (missed /\ job[a].kinds # I!AllKinds)
      /\ UNCHANGED <<autoRebuild, pages, schema, edits, registry, types, docs, reader, generation, queue, batch, request, graphCache, up>>
  BY DEF I!Walk, I!mode, I!disk, I!index, I!asking, I!life, I!watcher
<1>2. /\ j.at = "walked" /\ j.kinds = job[a].kinds /\ j.owed = missed
      /\ j.docs = I!Partial(job[a].kinds, registry)
  OBVIOUS
<1> HIDE DEF j
<1>3. /\ job[a].kinds \in SUBSET I!AllKinds /\ (job[a].kinds = I!AllKinds \/ job[a].kinds \subseteq PageKinds)
      /\ missed \in BOOLEAN
  BY DEF IndexInv, IndexType, Job
<1>4. /\ job' = [b \in I!Actors |-> job'[b]] /\ \A b \in I!Actors : Job(b)'
      /\ job'[a] = j /\ \A b \in I!Actors : b # a => job'[b] = job[b] /\ job[b].at \in {"idle", "retry"}
      /\ OneWriter'
  BY <1>1, <1>2, <1>3, GoesOn DEF Waits
<1>5. IndexType'
  BY <1>1, <1>4 DEF IndexInv, IndexType
<1>6. VersionsGrow' /\ DownIsIdle' /\ KeysPast'
  BY <1>1 DEF IndexInv, VersionsGrow, DownIsIdle, KeysPast
<1>7. ReaderFollows' /\ RequestCurrent' /\ GraphFollows'
  <2>1. \A b \in I!Actors, s \in {"committed", "reloaded"} : job'[b].at = s <=> job[b].at = s
    BY <1>1, <1>2, <1>4
  <2>2. I!Reloading' = I!Reloading
    BY <2>1 DEF I!Reloading
  <2> QED
    BY <1>1, <2>1, <2>2 DEF IndexInv, ReaderFollows, RequestCurrent, GraphFollows
<1>8. \A ds : I!Current(ds)' = I!Current(ds)
  BY <1>1, SameDocs
<1>9. PageAhead' = PageAhead
  BY <1>1 DEF PageAhead
<1>10. I!Owed' \/ ~missed
  BY <1>2, <1>4 DEF I!Owed
<1>11. I!Owed => missed
  BY <1>1, <1>4 DEF I!Owed
<1>12. RebuildAhead => RebuildAhead' /\ job[a].kinds = I!AllKinds
  BY <1>1, <1>2, <1>4 DEF RebuildAhead, I!Actors
<1>13. EditsIndexed'
  BY <1>1, <1>8, <1>9, <1>10, <1>11, <1>12 DEF IndexInv, EditsIndexed
<1>14. missed' \/ I!Current(j.docs) \/ PageAhead
  <2>1. CASE job[a].kinds = I!AllKinds
    BY <1>2, <2>1, FullRebuild DEF IndexInv
  <2>2. CASE job[a].kinds # I!AllKinds
    <3>1. I!Current(docs) => I!Current(j.docs)
      BY <1>2, <1>3, <2>2, PartialRebuild DEF IndexInv
    <3> QED
      BY <1>1, <1>3, <1>11, <1>12, <2>2, <3>1 DEF IndexInv, EditsIndexed
  <2> QED
    BY <2>1, <2>2
<1>15. WalkIndexed'
  BY <1>4, <1>8, <1>9, <1>14 DEF WalkIndexed
<1> QED
  BY <1>4, <1>5, <1>6, <1>7, <1>13, <1>15 DEF IndexInv

LEMMA CommitStep ==
  ASSUME IndexInv, NEW a \in I!Actors, I!Commit(a)
  PROVE  IndexInv'
<1> DEFINE j == I!Past("committed")
<1>1. /\ up /\ job[a].at = "walked" /\ docs' = job[a].docs /\ job' = [job EXCEPT ![a] = j]
      /\ UNCHANGED <<autoRebuild, pages, schema, edits, registry, types, reader, generation, queue, batch, request, graphCache, up, missed>>
  BY DEF I!Commit, I!mode, I!disk, I!asking, I!life, I!watcher
<1>2. j.at = "committed" /\ j.kinds = {} /\ j.owed = FALSE
  BY DEF I!Past, I!Idle
<1> HIDE DEF j
<1>3. /\ job' = [b \in I!Actors |-> job'[b]] /\ \A b \in I!Actors : Job(b)'
      /\ job'[a] = j /\ \A b \in I!Actors : b # a => job'[b] = job[b] /\ job[b].at \in {"idle", "retry"}
      /\ OneWriter'
  BY <1>1, <1>2, GoesOn DEF Waits
<1>4. IndexType'
  BY <1>1, <1>3 DEF IndexInv, IndexType
<1>5. VersionsGrow' /\ DownIsIdle' /\ KeysPast'
  BY <1>1 DEF IndexInv, VersionsGrow, DownIsIdle, KeysPast
<1>6. ReaderFollows' /\ RequestCurrent' /\ GraphFollows'
  <2>1. ~I!Reloading
    BY <1>1, <1>3 DEF I!Reloading
  <2> QED
    BY <1>1, <1>2, <1>3, <2>1 DEF IndexInv, ReaderFollows, RequestCurrent, GraphFollows
<1>7. EditsIndexed'
  <2>1. missed \/ I!Current(job[a].docs) \/ PageAhead
    BY <1>1 DEF IndexInv, WalkIndexed
  <2>2. PageAhead' = PageAhead /\ \A ds : I!Current(ds)' = I!Current(ds)
    BY <1>1, SameDocs DEF PageAhead
  <2> QED
    BY <1>1, <2>1, <2>2 DEF EditsIndexed, I!Owed
<1>8. WalkIndexed'
  BY <1>2, <1>3 DEF WalkIndexed
<1> QED
  BY <1>3, <1>4, <1>5, <1>6, <1>7, <1>8 DEF IndexInv

\* The steps after a commit: who is past writing has nothing ahead.
LEMMA MoveOn ==
  ASSUME IndexInv, NEW a \in I!Actors, NEW s \in {"reloaded", "bumped", "idle"}, job[a].at \in {"committed", "reloaded", "bumped"},
         NEW j, j.at = s, j.kinds = job[a].kinds \/ j.kinds = {}, j.owed \in BOOLEAN, job' = [job EXCEPT ![a] = j],
         UNCHANGED <<pages, registry, docs, queue, batch, missed>>
  PROVE  /\ job' = [b \in I!Actors |-> job'[b]] /\ \A b \in I!Actors : Job(b)'
         /\ job'[a].at = s /\ OneWriter' /\ EditsIndexed' /\ WalkIndexed'
         /\ \A b \in I!Actors : b # a => job'[b] = job[b] /\ job[b].at \in {"idle", "retry"}
<1>1. job[a].kinds \in SUBSET I!AllKinds /\ (job[a].kinds = I!AllKinds \/ job[a].kinds \subseteq PageKinds)
  BY DEF IndexInv, IndexType, Job
<1>2. /\ job' = [b \in I!Actors |-> job'[b]] /\ \A b \in I!Actors : Job(b)'
      /\ job'[a] = j /\ \A b \in I!Actors : b # a => job'[b] = job[b] /\ job[b].at \in {"idle", "retry"}
      /\ OneWriter'
  BY <1>1, GoesOn DEF Waits
<1>3. \A b \in I!Actors : job'[b].at # "walked" /\ job[b].at \notin {"walked", "writing"}
  BY <1>2
<1>4. PageAhead' = PageAhead /\ \A ds : I!Current(ds)' = I!Current(ds)
  BY SameDocs DEF PageAhead
<1>5. I!Owed => missed
  BY <1>3 DEF I!Owed
<1>6. ~RebuildAhead
  BY <1>3 DEF RebuildAhead, I!Actors
<1>7. EditsIndexed'
  BY <1>4, <1>5, <1>6 DEF IndexInv, EditsIndexed, I!Owed
<1>8. WalkIndexed'
  BY <1>3 DEF WalkIndexed
<1> QED
  BY <1>2, <1>7, <1>8

LEMMA ReloadStep ==
  ASSUME IndexInv, NEW a \in I!Actors, I!Reload(a)
  PROVE  IndexInv'
<1>1. /\ up /\ job[a].at = "committed" /\ reader' = docs /\ job' = [job EXCEPT ![a] = I!Past("reloaded")]
      /\ UNCHANGED <<autoRebuild, pages, schema, edits, registry, types, docs, generation, queue, batch, request, graphCache, up, missed>>
  BY DEF I!Reload, I!mode, I!disk, I!asking, I!life, I!watcher
<1>2. I!Past("reloaded").at = "reloaded" /\ I!Past("reloaded").kinds = {} /\ I!Past("reloaded").owed = FALSE
  BY DEF I!Past, I!Idle
<1>3. /\ job' = [b \in I!Actors |-> job'[b]] /\ \A b \in I!Actors : Job(b)'
      /\ job'[a].at = "reloaded" /\ OneWriter' /\ EditsIndexed' /\ WalkIndexed'
  BY <1>1, <1>2, MoveOn
<1>4. IndexType'
  BY <1>1, <1>3 DEF IndexInv, IndexType
<1>5. VersionsGrow' /\ DownIsIdle' /\ KeysPast'
  BY <1>1 DEF IndexInv, VersionsGrow, DownIsIdle, KeysPast
<1>6. I!Reloading' /\ ReaderFollows'
  BY <1>1, <1>3 DEF I!Reloading, ReaderFollows
<1>7. RequestCurrent' /\ GraphFollows'
  BY <1>6 DEF RequestCurrent, GraphFollows
<1> QED
  BY <1>3, <1>4, <1>5, <1>6, <1>7 DEF IndexInv

LEMMA BumpStep ==
  ASSUME IndexInv, NEW a \in I!Actors, I!Bump(a)
  PROVE  IndexInv'
<1>1. /\ up /\ job[a].at = "reloaded" /\ generation' = generation + 1
      /\ job' = [job EXCEPT ![a] = I!Past("bumped")]
      /\ UNCHANGED <<autoRebuild, pages, schema, edits, registry, types, docs, reader, queue, batch, request, graphCache, up, missed>>
  BY DEF I!Bump, I!mode, I!disk, I!asking, I!life, I!watcher
<1>2. I!Past("bumped").at = "bumped" /\ I!Past("bumped").kinds = {} /\ I!Past("bumped").owed = FALSE
  BY DEF I!Past, I!Idle
<1>3. /\ job' = [b \in I!Actors |-> job'[b]] /\ \A b \in I!Actors : Job(b)'
      /\ job'[a].at = "bumped" /\ OneWriter' /\ EditsIndexed' /\ WalkIndexed'
      /\ \A b \in I!Actors : b # a => job'[b] = job[b] /\ job[b].at \in {"idle", "retry"}
  BY <1>1, <1>2, MoveOn
<1>4. IndexType'
  BY <1>1, <1>3 DEF IndexInv, IndexType
<1>5. VersionsGrow' /\ DownIsIdle'
  BY <1>1 DEF IndexInv, VersionsGrow, DownIsIdle
<1>6. KeysPast' /\ graphCache'.born # generation' /\ request'.born # generation'
  <2>1. request.key \in Nat /\ request.born \in Nat /\ generation \in Nat /\ graphCache.key \in Nat
    BY DEF IndexInv, IndexType
  <2> QED
    BY <1>1, <2>1 DEF IndexInv, KeysPast
<1>7. RequestCurrent' /\ GraphFollows'
  BY <1>6 DEF RequestCurrent, GraphFollows
<1>8. ReaderFollows'
  BY <1>1, <1>3 DEF IndexInv, ReaderFollows
<1> QED
  BY <1>3, <1>4, <1>5, <1>6, <1>7, <1>8 DEF IndexInv

LEMMA WriteStateStep ==
  ASSUME IndexInv, NEW a \in I!Actors, I!WriteState(a)
  PROVE  IndexInv'
<1>1. /\ up /\ job[a].at = "bumped" /\ types' = registry /\ job' = [job EXCEPT ![a] = I!Idle]
      /\ UNCHANGED <<autoRebuild, pages, schema, edits, registry, docs, reader, generation, queue, batch, request, graphCache, up, missed>>
  BY DEF I!WriteState, I!mode, I!disk, I!asking, I!life, I!watcher
<1>2. I!Idle.at = "idle" /\ I!Idle.kinds = {} /\ I!Idle.owed = FALSE
  BY DEF I!Idle
<1>3. /\ job' = [b \in I!Actors |-> job'[b]] /\ \A b \in I!Actors : Job(b)'
      /\ job'[a].at = "idle" /\ OneWriter' /\ EditsIndexed' /\ WalkIndexed'
      /\ \A b \in I!Actors : b # a => job'[b] = job[b] /\ job[b].at \in {"idle", "retry"}
  BY <1>1, <1>2, MoveOn
<1>4. IndexType'
  BY <1>1, <1>3 DEF IndexInv, IndexType
<1>5. VersionsGrow'
  BY <1>1 DEF IndexInv, IndexType, VersionsGrow, Versions
<1>6. DownIsIdle' /\ KeysPast'
  BY <1>1 DEF IndexInv, DownIsIdle, KeysPast
<1>7. ~I!Reloading /\ \A b \in I!Actors : job[b].at # "committed"
  BY <1>1, <1>3 DEF I!Reloading
<1>8. ReaderFollows' /\ RequestCurrent' /\ GraphFollows'
  BY <1>1, <1>7 DEF IndexInv, ReaderFollows, RequestCurrent, GraphFollows
<1> QED
  BY <1>3, <1>4, <1>5, <1>6, <1>8 DEF IndexInv

LEMMA RequestStep ==
  ASSUME IndexInv, I!Ask \/ I!Look \/ I!Store
  PROVE  IndexInv'
<1>1. up /\ UNCHANGED <<autoRebuild, pages, schema, edits, registry, types, docs, reader, generation, queue, batch, job, up, missed>>
  BY DEF I!Ask, I!Look, I!Store, I!mode, I!disk, I!index, I!watcher, I!life
<1>2. PICK s \in {"none", "asked", "building"}, n \in Nat, m \in Nat :
        request = [at |-> s, sees |-> request.sees, key |-> n, born |-> m]
  BY DEF IndexInv, IndexType
<1>3. /\ generation \in Nat /\ graphCache.key \in 0..generation /\ graphCache.born \in 0..generation
      /\ n \in 0..generation /\ m \in 0..generation
  BY <1>1, <1>2 DEF IndexInv, IndexType, KeysPast
<1>4. \/ request' = [at |-> "asked", sees |-> reader, key |-> 0, born |-> generation] /\ graphCache' = graphCache
      \/ request' = I!NoRequest /\ graphCache' = graphCache
      \/ /\ request # I!NoRequest /\ graphCache' = graphCache
         /\ request' = [at |-> "building", sees |-> request.sees, key |-> generation, born |-> m]
      \/ /\ request # I!NoRequest /\ request' = I!NoRequest
         /\ graphCache' = [key |-> n, docs |-> request.sees, born |-> m]
  <2>1. CASE I!Ask
    BY <2>1 DEF I!Ask
  <2>2. CASE I!Look
    <3>1. request.at = "asked" /\ graphCache' = graphCache
      BY <2>2 DEF I!Look
    <3>2. \/ request' = I!NoRequest
          \/ request' = [at |-> "building", sees |-> request.sees, key |-> generation, born |-> request.born]
      BY <2>2 DEF I!Look
    <3>3. request # I!NoRequest
      BY <3>1 DEF I!NoRequest
    <3> QED
      BY <1>2, <3>1, <3>2, <3>3
  <2>3. CASE I!Store
    BY <1>2, <2>3 DEF I!Store, I!NoRequest
  <2> QED
    BY <2>1, <2>2, <2>3
<1>5. /\ \E t \in {"none", "asked", "building"}, k, l \in 0..generation :
           request' = [at |-> t, sees |-> request'.sees, key |-> k, born |-> l]
      /\ graphCache'.key \in 0..generation /\ graphCache'.born \in 0..generation
  <2>1. 0 \in 0..generation /\ generation \in 0..generation
    BY <1>3
  <2> QED
    BY <1>3, <1>4, <2>1 DEF I!NoRequest
<1>6. IndexType' /\ KeysPast'
  BY <1>1, <1>5 DEF IndexInv, IndexType, Job, KeysPast
<1>7. VersionsGrow' /\ DownIsIdle' /\ ReaderFollows' /\ OneWriter'
  BY <1>1 DEF IndexInv, VersionsGrow, DownIsIdle, ReaderFollows, OneWriter, Waits
<1>8. EditsIndexed' /\ WalkIndexed'
  BY <1>1, SameDocs DEF IndexInv, EditsIndexed, WalkIndexed, PageAhead, RebuildAhead, I!Owed
<1>9. RequestCurrent' /\ GraphFollows'
  <2>1. I!Reloading' = I!Reloading
    BY <1>1 DEF I!Reloading
  <2>2. request # I!NoRequest /\ m = generation /\ ~I!Reloading => request.sees = reader
    BY <1>2 DEF IndexInv, RequestCurrent
  <2>3. graphCache.born = generation /\ ~I!Reloading => graphCache.docs = reader
    BY <1>1 DEF IndexInv, GraphFollows
  <2> QED
    BY <1>1, <1>4, <2>1, <2>2, <2>3 DEF RequestCurrent, GraphFollows
<1> QED
  BY <1>6, <1>7, <1>8, <1>9 DEF IndexInv

LEMMA CrashStep ==
  ASSUME IndexInv, I!Crash
  PROVE  IndexInv'
<1>1. /\ up /\ up' = FALSE /\ missed' = (I!Owed \/ queue # {} \/ batch # {} \/ job["watcher"] # I!Idle)
      /\ queue' = {} /\ batch' = {} /\ job' = [a \in I!Actors |-> I!Idle] /\ request' = I!NoRequest
      /\ UNCHANGED <<autoRebuild, pages, schema, edits, registry, types, docs, reader, generation, graphCache>>
  BY DEF I!Crash, I!mode, I!disk, I!index
<1>2. \A a \in I!Actors : job'[a] = I!Idle /\ job'[a].at = "idle" /\ job'[a].kinds = {} /\ job'[a].owed = FALSE
  BY <1>1 DEF I!Idle
<1>3. IndexType'
  <2>1. \A a \in I!Actors : Job(a)'
    BY <1>2 DEF Job
  <2>2. missed' \in BOOLEAN
    BY <1>1 DEF IndexInv, IndexType, I!Owed
  <2> QED
    BY <1>1, <2>1, <2>2 DEF IndexInv, IndexType, I!NoRequest
<1>4. VersionsGrow' /\ DownIsIdle' /\ ReaderFollows' /\ KeysPast' /\ RequestCurrent' /\ GraphFollows'
  BY <1>1, <1>2 DEF IndexInv, VersionsGrow, DownIsIdle, ReaderFollows, KeysPast, RequestCurrent, GraphFollows
<1>5. OneWriter' /\ WalkIndexed'
  BY <1>2 DEF OneWriter, Waits, WalkIndexed
<1>6. EditsIndexed'
  <2>1. CASE missed'
    BY <2>1 DEF EditsIndexed, I!Owed
  <2>2. CASE ~missed'
    <3>1. ~I!Owed /\ queue = {} /\ batch = {} /\ job["watcher"] = I!Idle
      BY <1>1, <2>2
    <3>2. ~PageAhead /\ ~RebuildAhead
      BY <3>1 DEF PageAhead, RebuildAhead, I!Idle
    <3>3. I!Current(docs)
      BY <3>1, <3>2 DEF IndexInv, EditsIndexed
    <3> QED
      BY <1>1, <3>3, SameDocs DEF EditsIndexed
  <2> QED
    BY <2>1, <2>2
<1> QED
  BY <1>3, <1>4, <1>5, <1>6 DEF IndexInv

\* A space that is mounted anew with the types of the disk.
LEMMA MountedAnew ==
  ASSUME IndexConstants, IndexInv, I!Current(docs), registry' = schema, UNCHANGED <<pages, schema>>
  PROVE  \A ds : \/ ds = I!Docs(schema)
                 \/ ds = I!Partial(I!Changed, schema)
                 \/ ds = docs /\ I!Changed = {}
                 => I!Current(ds)'
<1>1. I!Docs(registry)' = I!Docs(schema) /\ I!Docs(schema)' = I!Docs(schema)
  BY DEF I!Docs, I!Doc
<1>2. I!Changed \subseteq PageKinds /\ \A k \in PageKinds \ I!Changed : registry[k] = schema[k]
  BY DEF IndexInv, IndexType, VersionsGrow, Versions, I!Changed
<1>3. \A p \in DOMAIN pages : pages[p].kind \in I!AllKinds
  BY DEF IndexInv, IndexType
<1>4. \A p \in DOMAIN pages : I!TypeOf(pages[p].kind) \in PageKinds
  BY <1>3, KindOf
<1>5. \A p \in DOMAIN pages : I!TypeOf(pages[p].kind) \notin I!Changed => I!Doc(p, registry) = I!Doc(p, schema)
  BY <1>2, <1>4 DEF I!Doc
<1>6. \A p \in DOMAIN pages : I!Doc(p, registry).kind = pages[p].kind /\ I!Doc(p, schema).kind = pages[p].kind
  BY DEF I!Doc
<1>7. \A d : I!TypeOf(d.kind) \notin I!Changed => (d \in I!Docs(registry) <=> d \in I!Docs(schema))
  BY <1>5, <1>6 DEF I!Docs
<1>8. ASSUME NEW d \in I!Docs(schema) PROVE d \in I!Partial(I!Changed, schema)
  <2>1. CASE I!TypeOf(d.kind) \in I!Changed
    BY <2>1 DEF I!Partial
  <2>2. CASE I!TypeOf(d.kind) \notin I!Changed
    <3>1. d \in docs
      BY <1>7, <2>2 DEF I!Current
    <3>2. d.kind \notin I!Changed
      BY <1>2, <2>2, KindOf
    <3> QED
      BY <3>1, <3>2 DEF I!Partial
  <2> QED
    BY <2>1, <2>2
<1>9. ASSUME NEW d \in docs, d.kind \in PageKinds, d.kind \notin I!Changed PROVE d \in I!Docs(schema)
  BY <1>7, <1>9, KindOf DEF I!Current
<1>10. \A d \in I!Partial(I!Changed, schema) : d.kind \in PageKinds => d \in I!Docs(schema)
  BY <1>9 DEF I!Partial
<1>11. \A ds : I!Current(ds)' <=> /\ I!Docs(schema) \subseteq ds
                                 /\ \A d \in ds : d.kind \in PageKinds => d \in I!Docs(schema)
  BY <1>1 DEF I!Current
<1>12. I!Changed = {} => I!Docs(schema) \subseteq docs /\ \A d \in docs : d.kind \in PageKinds => d \in I!Docs(schema)
  BY <1>7, <1>9 DEF I!Current
<1> QED
  BY <1>8, <1>10, <1>11, <1>12

LEMMA MountStep ==
  ASSUME IndexConstants, IndexInv, NEW corrupt \in BOOLEAN, I!Mount(corrupt)
  PROVE  IndexInv'
<1> DEFINE stale == ~I!Unbuilt /\ I!Changed # {}
           full == I!Unbuilt \/ corrupt
<1>1. /\ ~up /\ up' = TRUE /\ registry' = schema
      /\ docs' = IF full THEN I!Docs(schema) ELSE IF autoRebuild THEN I!Partial(I!Changed, schema) ELSE docs
      /\ types' = IF full \/ autoRebuild THEN schema ELSE types
      /\ missed' = IF full THEN FALSE ELSE missed \/ (stale /\ ~autoRebuild)
      /\ reader' = docs' /\ generation' = 0 /\ graphCache' = [key |-> 0, docs |-> docs', born |-> 0]
      /\ UNCHANGED <<autoRebuild, pages, schema, edits, queue, batch, job, request>>
  BY DEF I!Mount, I!mode, I!disk, I!watcher
<1>2. queue = {} /\ batch = {} /\ request = I!NoRequest /\ \A a \in I!Actors : job[a] = I!Idle /\ job[a].at = "idle"
  BY <1>1 DEF IndexInv, DownIsIdle, I!Idle
<1>3. IndexType'
  <2>1. missed' \in BOOLEAN
    BY <1>1 DEF IndexInv, IndexType
  <2> QED
    BY <1>1, <2>1 DEF IndexInv, IndexType, Job
<1>4. VersionsGrow'
  BY <1>1 DEF IndexInv, IndexType, VersionsGrow, Versions
<1>5. DownIsIdle' /\ ReaderFollows' /\ KeysPast' /\ RequestCurrent' /\ GraphFollows'
  BY <1>1, <1>2 DEF DownIsIdle, ReaderFollows, KeysPast, RequestCurrent, GraphFollows, I!NoRequest
<1>6. OneWriter' /\ WalkIndexed'
  BY <1>1, <1>2 DEF IndexInv, OneWriter, Waits, WalkIndexed
<1>7. EditsIndexed'
  <2>1. CASE full
    <3>1. I!Docs(registry)' = I!Docs(schema)
      BY <1>1 DEF I!Docs, I!Doc
    <3> QED
      BY <1>1, <2>1, <3>1 DEF EditsIndexed, I!Current
  <2>2. CASE ~full /\ ~missed'
    <3>1. ~missed /\ (autoRebuild \/ I!Changed = {})
      BY <1>1, <2>2 DEF IndexInv, IndexType
    <3>2. ~I!Owed /\ ~PageAhead /\ ~RebuildAhead
      BY <1>2, <3>1 DEF I!Owed, PageAhead, RebuildAhead, I!Actors
    <3>3. I!Current(docs)
      BY <3>2 DEF IndexInv, EditsIndexed
    <3>4. docs' = I!Partial(I!Changed, schema) \/ (docs' = docs /\ I!Changed = {})
      BY <1>1, <2>2, <3>1
    <3>5. I!Current(docs)'
      BY <1>1, <3>3, <3>4, MountedAnew
    <3> QED
      BY <3>5 DEF EditsIndexed
  <2>3. CASE missed'
    BY <2>3 DEF EditsIndexed, I!Owed
  <2> QED
    BY <2>1, <2>2, <2>3
<1> QED
  BY <1>3, <1>4, <1>5, <1>6, <1>7 DEF IndexInv

LEMMA IndexStep == IndexConstants /\ IndexInv /\ [I!Next]_(I!vars) => IndexInv'
<1> SUFFICES ASSUME IndexConstants, IndexInv, [I!Next]_(I!vars) PROVE IndexInv'
  OBVIOUS
<1>1. CASE \E p \in PageIds : I!EditPage(p)
  BY <1>1, EditPageStep
<1>2. CASE \E k \in PageKinds : I!EditSchema(k)
  BY <1>2, EditSchemaStep
<1>3. CASE \E e \in queue : I!Collect(e)
  BY <1>3, CollectStep
<1>4. CASE I!ActOnBatch
  BY <1>4, ActStep
<1>5. CASE I!RebuildIndex
  BY <1>5, TakeAgainStep, "api" \in I!Actors DEF I!Actors
<1>6. CASE I!Ask \/ I!Look \/ I!Store
  BY <1>6, RequestStep
<1>7. CASE I!Crash
  BY <1>7, CrashStep
<1>8. CASE \E a \in I!Actors : I!RetryFull(a) \/ I!Walk(a) \/ I!Commit(a) \/ I!Reload(a) \/ I!Bump(a) \/ I!WriteState(a)
  BY <1>8, TakeAgainStep, WalkStep, CommitStep, ReloadStep, BumpStep, WriteStateStep
<1>9. CASE \E corrupt \in BOOLEAN : I!Mount(corrupt)
  BY <1>9, MountStep
<1>10. CASE UNCHANGED I!vars
  <2>1. UNCHANGED <<autoRebuild, pages, schema, edits, registry, types, docs, reader, generation, queue, batch, job, request, graphCache, up, missed>>
    BY <1>10 DEF I!vars
  <2>2. IndexType' /\ VersionsGrow' /\ DownIsIdle'
    BY <2>1 DEF IndexInv, IndexType, Job, VersionsGrow, DownIsIdle
  <2>3. ReaderFollows' /\ KeysPast' /\ RequestCurrent' /\ GraphFollows' /\ OneWriter'
    BY <2>1, RestStays
  <2>4. EditsIndexed' /\ WalkIndexed'
    BY <2>1, SameDocs DEF IndexInv, EditsIndexed, WalkIndexed, PageAhead, RebuildAhead, I!Owed
  <2> QED
    BY <2>2, <2>3, <2>4 DEF IndexInv
<1> QED
  BY <1>1, <1>2, <1>3, <1>4, <1>5, <1>6, <1>7, <1>8, <1>9, <1>10 DEF I!Next

-----------------------------------------------------------------------------
(* The curator of the memories.                                             *)

CONSTANTS BrainSessions, MemoryFiles, UpdateTurns, MaxBrainTurns, MaxStarts

VARIABLES count, projection, adding, channel, queued, running, done, dropped, runs, disk, mine,
  log, turns, starts

B == INSTANCE SuperBrain WITH Sessions <- BrainSessions, Files <- MemoryFiles,
  Interval <- UpdateTurns, MaxTurns <- MaxBrainTurns

BrainConstants == IsFiniteSet(BrainSessions) /\ "nobody" \notin BrainSessions

Spoken == [role : {"user", "assistant", "tool"}, calls : Seq({1, 2}), id : 0..2]
Told == Seq(Spoken)
Queued == [of : BrainSessions, messages : Told]

\* A tool result follows, in its turn, the message that has its call.
FollowsCalls(q) ==
  \A i \in DOMAIN q : q[i].role = "tool" =>
    \E j \in 1 .. i - 1 : /\ q[j].role = "assistant" /\ B!Contains(q[j].calls, q[i].id)
                          /\ \A k \in j + 1 .. i : q[k].role = "tool"

\* Types; a job that is being sent holds its session's projection.
BrainType ==
  /\ projection \in [BrainSessions -> Told] /\ \A s \in BrainSessions : FollowsCalls(projection[s])
  /\ adding \in [BrainSessions -> Queued \cup {B!Nobody}]
  /\ \A s \in BrainSessions : adding[s] # B!Nobody => adding[s] = [of |-> s, messages |-> projection[s]]
  /\ channel \in Seq(Queued)
  /\ running \in Queued \cup {B!Nobody} /\ done \in [BrainSessions -> Told]
  /\ mine \in SUBSET MemoryFiles /\ disk \in [MemoryFiles -> {"none", "mine", "template"}]

\* A job is a part of its session's projection, and of every later job of it.
JobsBehind ==
  /\ \A i \in DOMAIN channel : B!IsPrefix(channel[i].messages, projection[channel[i].of])
  /\ running # B!Nobody => B!IsPrefix(running.messages, projection[running.of])
  /\ \A s \in BrainSessions : B!IsPrefix(done[s], projection[s])
JobsInOrder ==
  /\ \A i \in DOMAIN channel : channel[i].of = running.of => B!IsPrefix(running.messages, channel[i].messages)
  /\ \A i \in DOMAIN channel : B!IsPrefix(done[channel[i].of], channel[i].messages)
  /\ running # B!Nobody => B!IsPrefix(done[running.of], running.messages)

\* Of every session that lost no job, with nothing being queued, the newest job is whole: the
\* last one in the queue, else the one that runs, else the one that ran.
NewestOf(s, i) == channel[i].of = s /\ \A k \in DOMAIN channel : k > i => channel[k].of # s
NewestIsWhole ==
  \A s \in BrainSessions \ dropped : adding[s] = B!Nobody =>
    /\ \A i \in DOMAIN channel : NewestOf(s, i) => channel[i].messages = projection[s]
    /\ ~B!InChannel(s) =>
         IF running.of = s THEN running.messages = projection[s] ELSE done[s] = projection[s]

BrainInv == BrainType /\ JobsBehind /\ JobsInOrder /\ NewestIsWhole /\ B!QueueCounted /\ B!MemoriesStay

LEMMA NobodyElse ==
  ASSUME BrainConstants
  PROVE  /\ \A j \in Queued : j # B!Nobody /\ j.of \in BrainSessions /\ j.messages \in Told
         /\ B!Nobody.of \notin BrainSessions /\ B!Nobody.messages = <<>>
  BY DEF BrainConstants, Queued, B!Nobody

LEMMA BrainSafe == BrainConstants /\ BrainInv => B!BrainKeepsRules
<1> SUFFICES ASSUME BrainConstants, BrainInv PROVE B!BrainKeepsRules
  OBVIOUS
<1>1. B!QueueCounted /\ B!MemoriesStay
  BY DEF BrainInv
<1>2. B!ResultsFollowCalls
  BY DEF BrainInv, BrainType, B!ResultsFollowCalls, FollowsCalls
<1>3. B!NewestWins
  BY DEF BrainInv, JobsInOrder, NewestIsWhole, B!NewestWins, B!OnItsWay
<1> QED
  BY <1>1, <1>2, <1>3 DEF B!BrainKeepsRules

-----------------------------------------------------------------------------

LEMMA JoinFacts ==
  ASSUME NEW p \in Told, NEW q \in Told
  PROVE  /\ p \o q \in Told /\ Len(p \o q) = Len(p) + Len(q) /\ Len(p) \in Nat /\ Len(q) \in Nat
         /\ DOMAIN (p \o q) = 1..(Len(p) + Len(q)) /\ DOMAIN p = 1..Len(p) /\ DOMAIN q = 1..Len(q)
         /\ \A i \in 1..(Len(p) + Len(q)) : (p \o q)[i] = IF i <= Len(p) THEN p[i] ELSE q[i - Len(p)]
  BY ConcatProperties, LenProperties DEF Told

LEMMA PrefixFacts ==
  /\ \A q \in Told : B!IsPrefix(q, q) /\ B!IsPrefix(<<>>, q)
  /\ \A p, q, r \in Told : B!IsPrefix(p, q) /\ B!IsPrefix(q, r) => B!IsPrefix(p, r)
  /\ \A p, q \in Told : B!IsPrefix(p, p \o q)
<1>1. \A p, q \in Told : B!IsPrefix(p, q) <=> Len(p) <= Len(q) /\ \A i \in 1..Len(p) : p[i] = q[i]
  <2> SUFFICES ASSUME NEW p \in Told, NEW q \in Told, Len(p) <= Len(q)
               PROVE  SubSeq(p, 1, Len(p)) = SubSeq(q, 1, Len(p)) <=> \A i \in 1..Len(p) : p[i] = q[i]
    BY DEF B!IsPrefix, Told
  <2>1. Len(p) \in Nat /\ Len(q) \in Nat
    BY DEF Told
  <2>2. SubSeq(p, 1, Len(p)) = [i \in 1..Len(p) |-> p[i]]
    BY <2>1 DEF Told
  <2>3. SubSeq(q, 1, Len(p)) = [i \in 1..Len(p) |-> q[i]]
    BY <2>1 DEF Told
  <2> QED
    BY <2>2, <2>3
<1>2. <<>> \in Told /\ Len(<<>>) = 0
  BY DEF Told
<1>3. \A p \in Told : Len(p) \in Nat
  BY DEF Told
<1>5. \A q \in Told : B!IsPrefix(q, q) /\ B!IsPrefix(<<>>, q)
  BY <1>1, <1>2, <1>3
<1>6. \A p, q, r \in Told : B!IsPrefix(p, q) /\ B!IsPrefix(q, r) => B!IsPrefix(p, r)
  <2> SUFFICES ASSUME NEW p \in Told, NEW q \in Told, NEW r \in Told, B!IsPrefix(p, q), B!IsPrefix(q, r)
               PROVE  B!IsPrefix(p, r)
    OBVIOUS
  <2>1. Len(p) <= Len(q) /\ Len(q) <= Len(r) /\ Len(p) \in Nat /\ Len(q) \in Nat /\ Len(r) \in Nat
    BY <1>1, <1>3
  <2>2. \A i \in 1..Len(p) : i \in 1..Len(q) /\ p[i] = q[i] /\ q[i] = r[i]
    BY <1>1, <2>1
  <2> QED
    BY <1>1, <2>1, <2>2
<1>7. \A p, q \in Told : B!IsPrefix(p, p \o q)
  <2> TAKE p \in Told, q \in Told
  <2> DEFINE m == p \o q
  <2>1. m \in Told /\ Len(p) <= Len(m) /\ \A i \in 1..Len(p) : m[i] = p[i]
    BY JoinFacts
  <2> QED
    BY <1>1, <2>1
<1> QED
  BY <1>5, <1>6, <1>7

\* The results of a turn follow their calls, and a projection of turns keeps it so.
LEMMA OrderFacts ==
  ASSUME NEW ids \in SUBSET {1, 2}
  PROVE  B!InOrder(ids) \in Seq({1, 2}) /\ Len(B!InOrder(ids)) \in 0..2 /\ B!Range(B!InOrder(ids)) = ids
<1>1. /\ B!Range(<<>>) = {} /\ B!Range(<<1>>) = {1} /\ B!Range(<<2>>) = {2} /\ B!Range(<<1, 2>>) = {1, 2}
  BY DEF B!Range
<1>2. ids = {} \/ ids = {1} \/ ids = {2} \/ ids = {1, 2}
  OBVIOUS
<1>3. \E q \in B!Orders : B!Range(q) = ids
  BY <1>1, <1>2 DEF B!Orders
<1>4. B!InOrder(ids) \in B!Orders /\ B!Range(B!InOrder(ids)) = ids
  BY <1>3 DEF B!InOrder
<1>5. \A q \in B!Orders : q \in Seq({1, 2}) /\ Len(q) \in 0..2
  <2>1. /\ <<>> \in Seq({1, 2}) /\ <<1>> \in Seq({1, 2}) /\ <<2>> \in Seq({1, 2}) /\ <<1, 2>> \in Seq({1, 2})
        /\ Len(<<>>) = 0 /\ Len(<<1>>) = 1 /\ Len(<<2>>) = 1 /\ Len(<<1, 2>>) = 2
    OBVIOUS
  <2> SUFFICES ASSUME NEW q \in B!Orders PROVE q \in Seq({1, 2}) /\ Len(q) \in 0..2
    OBVIOUS
  <2>2. q = <<>> \/ q = <<1>> \/ q = <<2>> \/ q = <<1, 2>>
    BY DEF B!Orders
  <2>3. q \in Seq({1, 2}) /\ (Len(q) = 0 \/ Len(q) = 1 \/ Len(q) = 2)
    BY <2>1, <2>2
  <2> QED
    BY <2>3
<1> QED
  BY <1>4, <1>5

LEMMA PairFacts ==
  ASSUME NEW a, NEW b
  PROVE  <<a>> \o <<>> \o <<b>> = <<a, b>>
<1>1. <<a>> \o <<>> = <<a>>
  OBVIOUS
<1>2. <<a>> \o <<b>> = <<a, b>>
  <2> DEFINE m == <<a>> \o <<b>>
  <2>1. /\ <<a>> \in Seq({a, b}) /\ <<b>> \in Seq({a, b}) /\ <<a, b>> \in Seq({a, b})
        /\ Len(<<a>>) = 1 /\ Len(<<b>>) = 1 /\ Len(<<a, b>>) = 2
    OBVIOUS
  <2>2. m \in Seq({a, b}) /\ Len(m) = 2 /\ m[1] = a /\ m[2] = b
    BY <2>1, ConcatProperties
  <2> HIDE DEF m
  <2>3. m = <<a, b>>
    BY <2>1, <2>2
  <2> QED
    BY <2>3 DEF m
<1> QED
  BY <1>1, <1>2

LEMMA OneTurn ==
  ASSUME NEW t \in B!Turns
  PROVE  B!ProjectMessages(t) \in Told /\ FollowsCalls(B!ProjectMessages(t))
<1> DEFINE Calls == {<<>>} \cup [1..1 -> B!Tools] \cup [1..2 -> B!Tools]
<1>1. PICK order \in Calls : t = B!Turn(order)
  BY DEF B!Turns
<1> DEFINE wanted == IF Len(t) > 2 THEN t[2].calls ELSE <<>>
<1>2. wanted \in Calls /\ DOMAIN wanted \in SUBSET {1, 2}
  <2>1. CASE order = <<>>
    <3>1. t = <<B!User>> \o <<>> \o <<B!Assistant(<<>>)>>
      BY <1>1, <2>1 DEF B!Turn
    <3>2. t = <<B!User, B!Assistant(<<>>)>>
      BY <3>1, PairFacts
    <3> QED
      BY <3>2
  <2>2. CASE order # <<>>
    <3> DEFINE n == Len(order)
               results == [i \in 1..n |-> B!Result(i)]
    <3>1. n \in {1, 2} /\ DOMAIN order = 1..n
      BY <1>1, <2>2
    <3>2. results \in Seq({B!Result(1), B!Result(2)}) /\ Len(results) = n
      BY <3>1
    <3>3. t = <<B!User>> \o (<<B!Assistant(order)>> \o results) \o <<B!Assistant(<<>>)>>
      BY <1>1, <2>2, <3>1 DEF B!Turn
    <3> HIDE DEF n, results
    <3>4. t[2] = B!Assistant(order) /\ Len(t) > 2
      BY <3>1, <3>2, <3>3
    <3>5. wanted = order
      BY <3>4 DEF B!Assistant
    <3>6. \A i \in 1..n : i \in {1, 2}
      BY <3>1
    <3> QED
      BY <1>1, <3>1, <3>5, <3>6
  <2> QED
    BY <2>1, <2>2
<1> DEFINE kept == B!Kept(wanted)
           known == B!Results(wanted)
<1> HIDE DEF wanted
<1>3. /\ kept \in Seq({1, 2}) /\ Len(kept) \in 0..2
      /\ B!Range(kept) = {i \in DOMAIN wanted : wanted[i] \notin B!Skipped}
  BY <1>2, OrderFacts DEF B!Kept
<1>4. /\ known \in Seq({1, 2}) /\ Len(known) \in 0..2
      /\ B!Range(known) = {i \in DOMAIN wanted : wanted[i] \in B!Knowledge}
  BY <1>2, OrderFacts DEF B!Results
<1>5. \A i \in 1..Len(known) : known[i] \in {1, 2} /\ B!Contains(kept, known[i])
  <2>1. B!Range(known) \subseteq B!Range(kept)
    BY <1>3, <1>4 DEF B!Knowledge, B!Skipped
  <2> QED
    BY <1>3, <1>4, <2>1 DEF B!Range, B!Contains
<1> DEFINE results == [i \in DOMAIN known |-> B!Result(known[i])]
           first == IF kept = <<>> THEN <<>> ELSE <<B!Assistant(kept)>>
<1>6. B!ProjectMessages(t) = <<B!User>> \o first \o results \o <<B!Assistant(<<>>)>>
  BY DEF B!ProjectMessages, wanted
<1> HIDE DEF kept, known
<1>7. B!User \in Spoken /\ B!Assistant(<<>>) \in Spoken /\ B!Assistant(kept) \in Spoken
      /\ \A n \in {1, 2} : B!Result(n) \in Spoken
  BY <1>3 DEF Spoken, B!User, B!Assistant, B!Result
<1>8. results \in Told /\ Len(results) = Len(known) /\ first \in Told
  <2>1. DOMAIN known = 1..Len(known) /\ Len(known) \in Nat
    BY <1>4
  <2>2. \A i \in 1..Len(known) : B!Result(known[i]) \in Spoken
    BY <1>5, <1>7
  <2>3. results \in Told /\ Len(results) = Len(known)
    BY <2>1, <2>2 DEF Told
  <2>4. <<B!Assistant(kept)>> \in Told /\ <<>> \in Told
    BY <1>7 DEF Told
  <2> QED
    BY <2>3, <2>4
<1>9. CASE kept = <<>>
  <2>1. Len(known) = 0
    BY <1>4, <1>5, <1>9 DEF B!Contains
  <2>2. results = <<>> /\ first = <<>>
    BY <1>8, <1>9, <2>1, EmptySeq DEF Told
  <2>3. B!ProjectMessages(t) = <<B!User, B!Assistant(<<>>)>>
    <3>1. B!ProjectMessages(t) = <<B!User>> \o <<>> \o <<B!Assistant(<<>>)>>
      <4>1. <<B!User>> \o <<>> \o <<>> = <<B!User>> \o <<>>
        OBVIOUS
      <4> QED
        BY <1>6, <2>2, <4>1
    <3> QED
      BY <3>1, PairFacts
  <2> QED
    BY <1>7, <2>3 DEF Told, FollowsCalls, B!User, B!Assistant
<1>10. CASE kept # <<>>
  <2> DEFINE m == B!ProjectMessages(t)
  <2>1. m = <<B!User>> \o <<B!Assistant(kept)>> \o results \o <<B!Assistant(<<>>)>>
    BY <1>6, <1>10
  <2> HIDE DEF m, results
  <2>2. /\ m \in Told /\ Len(m) = Len(known) + 3 /\ m[1] = B!User /\ m[2] = B!Assistant(kept)
        /\ m[Len(known) + 3] = B!Assistant(<<>>)
        /\ \A i \in 1..Len(known) : m[i + 2] = results[i]
    BY <1>4, <1>7, <1>8, <2>1 DEF Told
  <2>3. \A i \in 1..Len(known) : results[i] = B!Result(known[i])
    BY <1>4 DEF results
  <2>4. ASSUME NEW i \in DOMAIN m, m[i].role = "tool"
        PROVE  \E j \in 1 .. i - 1 : /\ m[j].role = "assistant" /\ B!Contains(m[j].calls, m[i].id)
                                     /\ \A k \in j + 1 .. i : m[k].role = "tool"
    <3>1. DOMAIN m = 1..(Len(known) + 3) /\ Len(known) \in Nat
      BY <1>4, <2>2 DEF Told
    <3>2. i # 1 /\ i # 2 /\ i # Len(known) + 3
      BY <2>2, <2>4 DEF B!User, B!Assistant
    <3>3. i - 2 \in 1..Len(known) /\ 2 \in 1..i - 1
      BY <3>1, <3>2
    <3>4. m[i] = B!Result(known[i - 2]) /\ \A k \in 3..i : m[k] = B!Result(known[k - 2])
      BY <2>2, <2>3, <3>1, <3>3
    <3>5. m[2].role = "assistant" /\ B!Contains(m[2].calls, m[i].id)
      BY <1>5, <2>2, <3>3, <3>4 DEF B!Assistant, B!Result
    <3>6. \A k \in 3..i : m[k].role = "tool"
      <4>1. \A n : B!Result(n).role = "tool"
        BY DEF B!Result
      <4> QED
        BY <3>4, <4>1
    <3> QED
      BY <3>3, <3>5, <3>6
  <2> QED
    BY <2>2, <2>4 DEF FollowsCalls, m
<1> QED
  BY <1>9, <1>10

LEMMA MoreFollow ==
  ASSUME NEW p \in Told, NEW q \in Told, FollowsCalls(p), FollowsCalls(q)
  PROVE  FollowsCalls(p \o q)
<1> DEFINE m == p \o q
<1>1. /\ Len(p) \in Nat /\ Len(q) \in Nat /\ DOMAIN m = 1..(Len(p) + Len(q))
      /\ DOMAIN p = 1..Len(p) /\ DOMAIN q = 1..Len(q)
      /\ \A i \in DOMAIN m : m[i] = IF i <= Len(p) THEN p[i] ELSE q[i - Len(p)]
  BY JoinFacts
<1> HIDE DEF m
<1> SUFFICES ASSUME NEW i \in DOMAIN m, m[i].role = "tool"
             PROVE  \E j \in 1 .. i - 1 : /\ m[j].role = "assistant" /\ B!Contains(m[j].calls, m[i].id)
                                          /\ \A k \in j + 1 .. i : m[k].role = "tool"
  BY DEF FollowsCalls, m
<1>2. CASE i <= Len(p)
  <2>1. i \in DOMAIN p /\ p[i].role = "tool"
    BY <1>1, <1>2
  <2>2. PICK j \in 1 .. i - 1 : /\ p[j].role = "assistant" /\ B!Contains(p[j].calls, p[i].id)
                                /\ \A k \in j + 1 .. i : p[k].role = "tool"
    BY <2>1 DEF FollowsCalls
  <2>3. m[j] = p[j] /\ m[i] = p[i] /\ \A k \in j + 1 .. i : m[k] = p[k]
    BY <1>1, <2>1, <2>2
  <2> QED
    BY <2>2, <2>3
<1>3. CASE i > Len(p)
  <2> DEFINE h == i - Len(p)
  <2>1. h \in DOMAIN q /\ m[i] = q[h] /\ i = Len(p) + h /\ h \in Nat
    BY <1>1, <1>3
  <2>0. q[h].role = "tool"
    BY <2>1
  <2>2. PICK j \in 1 .. h - 1 : /\ q[j].role = "assistant" /\ B!Contains(q[j].calls, q[h].id)
                                /\ \A k \in j + 1 .. h : q[k].role = "tool"
    BY <2>0, <2>1 DEF FollowsCalls
  <2> HIDE DEF h
  <2> DEFINE g == Len(p) + j
  <2>3. /\ g \in 1 .. i - 1 /\ g \in DOMAIN m /\ g > Len(p) /\ g - Len(p) = j
        /\ \A k \in g + 1 .. i : k \in DOMAIN m /\ k > Len(p) /\ k - Len(p) \in j + 1 .. h
    BY <1>1, <1>3, <2>1, <2>2
  <2> HIDE DEF g
  <2>4. m[g] = q[j] /\ m[i] = q[h] /\ \A k \in g + 1 .. i : m[k] = q[k - Len(p)]
    <3>1. m[g] = q[g - Len(p)]
      BY <1>1, <2>3
    <3>2. ASSUME NEW k \in g + 1 .. i PROVE m[k] = q[k - Len(p)]
      <4>1. k \in DOMAIN m /\ ~ (k <= Len(p))
        BY <1>1, <2>3
      <4> QED
        BY <1>1, <4>1
    <3> QED
      BY <2>1, <2>3, <3>1, <3>2
  <2>5. \A k \in g + 1 .. i : m[k].role = "tool"
    BY <2>2, <2>3, <2>4
  <2> QED
    BY <2>2, <2>3, <2>4, <2>5
<1> QED
  BY <1>1, <1>2, <1>3

LEMMA MergeKeeps ==
  ASSUME NEW h \in Told, FollowsCalls(h), NEW t \in B!Turns
  PROVE  LET m == B!Merge(h, B!ProjectMessages(t)) IN
         m \in Told /\ FollowsCalls(m) /\ B!IsPrefix(h, m)
<1> DEFINE q == B!ProjectMessages(t)
<1>1. q \in Told /\ FollowsCalls(q)
  BY OneTurn
<1> HIDE DEF q
<1>2. h \o q \in Told /\ FollowsCalls(h \o q) /\ B!IsPrefix(h, h \o q) /\ B!IsPrefix(h, h)
  BY <1>1, MoreFollow, PrefixFacts DEF Told
<1>3. B!Merge(h, q) = h \/ B!Merge(h, q) = h \o q
  BY DEF B!Merge
<1> QED
  BY <1>2, <1>3 DEF q

-----------------------------------------------------------------------------

\* The sessions whose job is counted but still to be sent.
Sending == {s \in BrainSessions : adding[s] # B!Nobody}

LEMMA SendingFacts ==
  ASSUME BrainConstants
  PROVE  /\ IsFiniteSet(Sending) /\ Cardinality(Sending) \in Nat /\ Cardinality({}) = 0
         /\ B!QueueCounted <=> queued = Len(channel) + Cardinality(Sending)
<1>1. \A U : B!Cardinality(U) = Cardinality(U)
  BY DEF B!Cardinality, Cardinality
<1> QED
  BY <1>1, FS_Subset, FS_CardinalityType, FS_EmptySet DEF Sending, BrainConstants, B!QueueCounted

LEMMA SameCount ==
  ASSUME BrainInv, UNCHANGED <<queued, channel, adding>>
  PROVE  B!QueueCounted'
  BY DEF BrainInv, B!QueueCounted

LEMMA ChannelFacts ==
  ASSUME BrainInv
  PROVE  /\ channel \in Seq(Queued) /\ DOMAIN channel = 1..Len(channel) /\ Len(channel) \in Nat
         /\ \A i \in DOMAIN channel : channel[i] \in Queued
         /\ channel # <<>> => Len(channel) \in DOMAIN channel
<1>1. channel \in Seq(Queued)
  BY DEF BrainInv, BrainType
<1> QED
  BY <1>1, LenProperties, ElementOfSeq, EmptySeq

LEMMA BrainInit == BrainConstants /\ B!Init => BrainInv
<1> SUFFICES ASSUME BrainConstants, B!Init PROVE BrainInv
  OBVIOUS
<1>1. /\ projection = [s \in BrainSessions |-> <<>>] /\ adding = [s \in BrainSessions |-> B!Nobody]
      /\ channel = <<>> /\ queued = 0 /\ running = B!Nobody /\ done = [s \in BrainSessions |-> <<>>]
      /\ disk = [f \in MemoryFiles |-> "none"] /\ mine = {}
  BY DEF B!Init
<1>2. <<>> \in Told /\ FollowsCalls(<<>>) /\ channel \in Seq(Queued) /\ DOMAIN channel = {} /\ Len(channel) = 0
  BY <1>1 DEF Told, FollowsCalls
<1>3. BrainType
  BY <1>1, <1>2 DEF BrainType
<1>4. JobsBehind /\ JobsInOrder /\ NewestIsWhole /\ B!MemoriesStay
  <2>1. \A s \in BrainSessions : projection[s] = <<>> /\ done[s] = <<>>
    BY <1>1
  <2>2. B!Nobody.of \notin BrainSessions /\ B!IsPrefix(<<>>, <<>>)
    BY <1>2, NobodyElse, PrefixFacts
  <2> QED
    BY <1>1, <1>2, <2>1, <2>2 DEF JobsBehind, JobsInOrder, NewestIsWhole, B!MemoriesStay
<1>5. Sending = {}
  BY <1>1 DEF Sending
<1> QED
  BY <1>1, <1>2, <1>3, <1>4, <1>5, SendingFacts DEF BrainInv

LEMMA StartStep ==
  ASSUME BrainConstants, BrainInv, B!Start
  PROVE  BrainInv'
<1>1. /\ disk' = [f \in MemoryFiles |-> B!MaybeCopy(disk[f])] /\ adding' = [s \in BrainSessions |-> B!Nobody]
      /\ channel' = <<>> /\ queued' = 0 /\ running' = B!Nobody
      /\ dropped' = dropped \cup {s \in BrainSessions : B!OnItsWay(s)} /\ UNCHANGED <<projection, done, mine>>
  BY DEF B!Start
<1>2. channel' \in Seq(Queued) /\ DOMAIN channel' = {} /\ Len(channel') = 0
  BY <1>1
<1>3. \A f \in MemoryFiles : disk'[f] = IF disk[f] = "mine" THEN "mine" ELSE "template"
  BY <1>1 DEF B!MaybeCopy
<1>4. BrainType' /\ B!MemoriesStay'
  BY <1>1, <1>2, <1>3 DEF BrainInv, BrainType, B!MemoriesStay
<1>5. JobsBehind' /\ JobsInOrder'
  BY <1>1, <1>2 DEF BrainInv, JobsBehind, JobsInOrder
\* What was on its way is lost; the others are consolidated.
<1>8. NewestIsWhole'
  <2>1. \A s \in BrainSessions \ dropped' : s \in BrainSessions \ dropped /\ ~B!OnItsWay(s)
    BY <1>1
  <2>2. \A s \in BrainSessions \ dropped' : done[s] = projection[s]
    BY <2>1 DEF BrainInv, NewestIsWhole, B!OnItsWay
  <2>3. B!Nobody.of \notin BrainSessions
    BY NobodyElse
  <2> QED
    BY <1>1, <1>2, <2>2, <2>3 DEF NewestIsWhole
<1>6. queued' = 0 /\ Sending' = {}
  BY <1>1 DEF Sending
<1>7. B!QueueCounted'
  <2>1. \A U : B!Cardinality(U) = Cardinality(U)
    BY DEF B!Cardinality, Cardinality
  <2>2. Cardinality(Sending') = 0
    BY <1>6, FS_EmptySet
  <2> QED
    BY <1>2, <1>6, <2>1, <2>2 DEF B!QueueCounted, Sending
<1> QED
  BY <1>4, <1>5, <1>7, <1>8 DEF BrainInv

LEMMA EnqueueStep ==
  ASSUME BrainConstants, BrainInv, NEW s \in BrainSessions, NEW t \in B!Turns, B!Enqueue(s, t)
  PROVE  BrainInv'
<1> DEFINE merged == B!Merge(projection[s], B!ProjectMessages(t))
           newest == [of |-> s, messages |-> merged]
<1>1. /\ adding[s] = B!Nobody /\ projection' = [projection EXCEPT ![s] = merged] /\ queued' = queued + 1
      /\ adding' = [adding EXCEPT ![s] = newest]
      /\ dropped' = dropped \ {s} /\ UNCHANGED <<channel, running, done, disk, mine>>
  BY DEF B!Enqueue
<1>2. merged \in Told /\ FollowsCalls(merged) /\ B!IsPrefix(projection[s], merged)
  BY MergeKeeps DEF BrainInv, BrainType
<1> HIDE DEF merged
<1>3. newest \in Queued /\ newest # B!Nobody /\ newest.of = s /\ newest.messages = merged
  BY <1>2 DEF Queued, B!Nobody, BrainConstants
<1> HIDE DEF newest
<1>4. /\ projection' \in [BrainSessions -> Told] /\ projection'[s] = merged
      /\ \A r \in BrainSessions : r # s => projection'[r] = projection[r]
      /\ adding' \in [BrainSessions -> Queued \cup {B!Nobody}] /\ adding'[s] = newest
      /\ \A r \in BrainSessions : r # s => adding'[r] = adding[r]
  BY <1>1, <1>2, <1>3 DEF BrainInv, BrainType
<1>5. newest = [of |-> s, messages |-> merged]
  BY DEF newest
<1>6. BrainType'
  BY <1>1, <1>2, <1>4, <1>5 DEF BrainInv, BrainType
<1>7. \A q \in Told, r \in BrainSessions : B!IsPrefix(q, projection[r]) => B!IsPrefix(q, projection'[r])
  BY <1>2, <1>4, PrefixFacts DEF BrainInv, BrainType
<1>8. JobsBehind'
  <2>1. \A i \in DOMAIN channel : channel[i].of \in BrainSessions /\ channel[i].messages \in Told
    BY ChannelFacts, NobodyElse
  <2>2. /\ running # B!Nobody => running.of \in BrainSessions /\ running.messages \in Told
        /\ \A r \in BrainSessions : done[r] \in Told
    BY NobodyElse DEF BrainInv, BrainType
  <2> QED
    BY <1>1, <1>7, <2>1, <2>2 DEF BrainInv, JobsBehind
<1>9. JobsInOrder'
  BY <1>1 DEF BrainInv, JobsInOrder
<1>10. NewestIsWhole'
  <2>1. \A r \in BrainSessions : adding'[r] = B!Nobody => r # s /\ adding[r] = B!Nobody /\ projection'[r] = projection[r]
    BY <1>3, <1>4
  <2>2. \A r \in BrainSessions \ dropped' : r # s => r \in BrainSessions \ dropped
    BY <1>1
  <2> QED
    BY <1>1, <2>1, <2>2 DEF BrainInv, NewestIsWhole, NewestOf, B!InChannel
<1>11. B!QueueCounted'
  <2>1. Sending' = Sending \cup {s} /\ s \notin Sending
    BY <1>1, <1>3, <1>4 DEF Sending
  <2>2. Cardinality(Sending') = Cardinality(Sending) + 1
    BY <2>1, SendingFacts, FS_AddElement
  <2>3. queued = Len(channel) + Cardinality(Sending)
    BY SendingFacts DEF BrainInv
  <2>4. queued' = Len(channel') + Cardinality(Sending')
    BY <1>1, <2>2, <2>3, SendingFacts, ChannelFacts
  <2>5. \A U : B!Cardinality(U) = Cardinality(U)
    BY DEF B!Cardinality, Cardinality
  <2> QED
    BY <2>4, <2>5 DEF B!QueueCounted, Sending
<1>12. B!MemoriesStay'
  BY <1>1 DEF BrainInv, B!MemoriesStay
<1> QED
  BY <1>6, <1>8, <1>9, <1>10, <1>11, <1>12 DEF BrainInv

LEMMA SendStep ==
  ASSUME BrainConstants, BrainInv, NEW s \in BrainSessions, B!Send(s)
  PROVE  BrainInv'
<1> DEFINE newest == [of |-> s, messages |-> projection[s]]
<1>1. /\ adding[s] # B!Nobody /\ channel' = Append(channel, adding[s])
      /\ adding' = [adding EXCEPT ![s] = B!Nobody]
      /\ UNCHANGED <<projection, queued, running, done, dropped, disk, mine>>
  BY DEF B!Send
<1>2. adding[s] = newest
  BY <1>1 DEF BrainInv, BrainType
<1>3. newest \in Queued /\ newest.of = s /\ newest.messages = projection[s]
  BY DEF BrainInv, BrainType, Queued
<1> HIDE DEF newest
<1>4. /\ channel' \in Seq(Queued) /\ Len(channel') = Len(channel) + 1 /\ DOMAIN channel' = 1..Len(channel) + 1
      /\ channel'[Len(channel) + 1] = newest
      /\ \A i \in DOMAIN channel : i \in DOMAIN channel' /\ channel'[i] = channel[i]
      /\ \A i \in DOMAIN channel' : i \in DOMAIN channel \/ i = Len(channel) + 1
      /\ channel' # <<>>
  BY <1>1, <1>2, <1>3, ChannelFacts, AppendProperties, LenProperties
<1>5. /\ adding' \in [BrainSessions -> Queued \cup {B!Nobody}] /\ adding'[s] = B!Nobody
      /\ \A r \in BrainSessions : r # s => adding'[r] = adding[r]
  BY <1>1 DEF BrainInv, BrainType
<1>6. BrainType'
  BY <1>1, <1>4, <1>5 DEF BrainInv, BrainType
<1>7. B!IsPrefix(projection[s], projection[s])
  BY PrefixFacts DEF BrainInv, BrainType
<1>8. JobsBehind'
  BY <1>1, <1>3, <1>4, <1>7 DEF BrainInv, JobsBehind
<1>9. JobsInOrder'
  <2>1. s = running.of => running # B!Nobody
    BY NobodyElse
  <2>2. /\ s = running.of => B!IsPrefix(running.messages, newest.messages)
        /\ B!IsPrefix(done[s], newest.messages)
    BY <1>3, <2>1 DEF BrainInv, JobsBehind
  <2> QED
    BY <1>1, <1>3, <1>4, <2>2 DEF BrainInv, JobsInOrder
<1>10. NewestIsWhole'
  <2> SUFFICES ASSUME NEW r \in BrainSessions \ dropped, adding'[r] = B!Nobody
               PROVE  /\ \A i \in DOMAIN channel' : NewestOf(r, i)' => channel'[i].messages = projection[r]
                      /\ ~B!InChannel(r)' =>
                           IF running.of = r THEN running.messages = projection[r] ELSE done[r] = projection[r]
    BY <1>1 DEF NewestIsWhole
  <2>1. DOMAIN channel = 1..Len(channel) /\ Len(channel) \in Nat
    BY ChannelFacts
  <2>2. CASE r = s
    <3>1. B!InChannel(s)' /\ \A i \in DOMAIN channel' : NewestOf(s, i)' => i = Len(channel) + 1
      BY <1>3, <1>4, <2>1 DEF B!InChannel, NewestOf
    <3> QED
      BY <1>3, <1>4, <2>2, <3>1
  <2>3. CASE r # s
    <3>1. adding[r] = B!Nobody /\ (~B!InChannel(r)' => ~B!InChannel(r))
      BY <1>4, <1>5, <2>3 DEF B!InChannel
    <3>2. ASSUME NEW i \in DOMAIN channel', NewestOf(r, i)'
          PROVE  i \in DOMAIN channel /\ NewestOf(r, i) /\ channel'[i] = channel[i]
      <4>1. i \in DOMAIN channel /\ channel'[i] = channel[i]
        BY <1>3, <1>4, <2>3, <3>2 DEF NewestOf
      <4> QED
        BY <1>4, <3>2, <4>1 DEF NewestOf
    <3> QED
      BY <3>1, <3>2 DEF BrainInv, NewestIsWhole
  <2> QED
    BY <2>2, <2>3
<1>11. B!QueueCounted'
  <2>1. Sending' = Sending \ {s} /\ s \in Sending
    BY <1>1, <1>5 DEF Sending
  <2>2. Cardinality(Sending') = Cardinality(Sending) - 1
    BY <2>1, SendingFacts, FS_RemoveElement
  <2>3. queued = Len(channel) + Cardinality(Sending)
    BY SendingFacts DEF BrainInv
  <2>4. queued' = Len(channel') + Cardinality(Sending')
    BY <1>1, <1>4, <2>2, <2>3, SendingFacts, ChannelFacts
  <2>5. \A U : B!Cardinality(U) = Cardinality(U)
    BY DEF B!Cardinality, Cardinality
  <2> QED
    BY <2>4, <2>5 DEF B!QueueCounted, Sending
<1>12. B!MemoriesStay'
  BY <1>1 DEF BrainInv, B!MemoriesStay
<1> QED
  BY <1>6, <1>8, <1>9, <1>10, <1>11, <1>12 DEF BrainInv

LEMMA TakeStep ==
  ASSUME BrainConstants, BrainInv, B!Take
  PROVE  BrainInv'
<1> DEFINE last == channel[Len(channel)]
<1>1. /\ running = B!Nobody /\ channel # <<>> /\ running' = last /\ queued' = queued - Len(channel)
      /\ channel' = <<>> /\ UNCHANGED <<projection, adding, done, disk, mine>>
      /\ dropped' = dropped \cup {s \in BrainSessions : B!InChannel(s) /\ s # last.of /\ adding[s] = B!Nobody}
  BY DEF B!Take, B!Coalesce
<1>2. Len(channel) \in DOMAIN channel /\ last \in Queued /\ last # B!Nobody
  BY <1>1, ChannelFacts, NobodyElse
<1>3. /\ B!IsPrefix(last.messages, projection[last.of])
      /\ B!IsPrefix(done[last.of], last.messages) /\ B!InChannel(last.of)
  BY <1>1, <1>2 DEF BrainInv, JobsBehind, JobsInOrder, B!InChannel
<1>8. last.of \notin dropped /\ adding[last.of] = B!Nobody => last.messages = projection[last.of]
  <2>1. NewestOf(last.of, Len(channel))
    BY ChannelFacts DEF NewestOf
  <2> QED
    BY <1>2, <2>1 DEF BrainInv, NewestIsWhole, Queued
<1> HIDE DEF last
<1>4. channel' \in Seq(Queued) /\ DOMAIN channel' = {} /\ Len(channel') = 0
  BY <1>1
<1>5. BrainType' /\ B!MemoriesStay'
  BY <1>1, <1>2, <1>4 DEF BrainInv, BrainType, B!MemoriesStay
<1>6. JobsBehind' /\ JobsInOrder'
  BY <1>1, <1>2, <1>3, <1>4 DEF BrainInv, JobsBehind, JobsInOrder
\* The session of the job that is taken has its newest; another one has lost its jobs or had none.
<1>9. NewestIsWhole'
  <2> SUFFICES ASSUME NEW s \in BrainSessions \ dropped', adding[s] = B!Nobody
               PROVE  IF last.of = s THEN last.messages = projection[s] ELSE done[s] = projection[s]
    BY <1>1, <1>4 DEF NewestIsWhole
  <2>1. s \notin dropped /\ (s # last.of => ~B!InChannel(s)) /\ s # B!Nobody.of
    BY <1>1, NobodyElse
  <2> QED
    BY <1>1, <1>8, <2>1 DEF BrainInv, NewestIsWhole
<1>7. B!QueueCounted'
  <2>1. Sending' = Sending
    BY <1>1 DEF Sending
  <2>2. queued = Len(channel) + Cardinality(Sending)
    BY SendingFacts DEF BrainInv
  <2>3. queued' = Len(channel') + Cardinality(Sending')
    BY <1>1, <1>4, <2>1, <2>2, SendingFacts, ChannelFacts
  <2>4. \A U : B!Cardinality(U) = Cardinality(U)
    BY DEF B!Cardinality, Cardinality
  <2> QED
    BY <2>3, <2>4 DEF B!QueueCounted, Sending
<1> QED
  BY <1>5, <1>6, <1>7, <1>9 DEF BrainInv

LEMMA CuratorStep ==
  ASSUME BrainConstants, BrainInv,
         (\E f \in MemoryFiles : B!Writes(f)) \/ (\E logged \in BOOLEAN : B!Finish(logged))
  PROVE  BrainInv'
<1>1. UNCHANGED <<projection, adding, channel, queued, dropped>>
  BY DEF B!Writes, B!Finish
<1>2. B!QueueCounted'
  BY <1>1, SameCount
<1>3. CASE \E f \in MemoryFiles : B!Writes(f)
  <2>1. PICK f \in MemoryFiles : B!Writes(f)
    BY <1>3
  <2>2. /\ disk' = [disk EXCEPT ![f] = "mine"] /\ mine' = mine \cup {f} /\ UNCHANGED <<running, done>>
    BY <2>1 DEF B!Writes
  <2>3. BrainType' /\ B!MemoriesStay'
    BY <1>1, <2>2 DEF BrainInv, BrainType, B!MemoriesStay
  <2>4. JobsBehind' /\ JobsInOrder' /\ NewestIsWhole'
    BY <1>1, <2>2 DEF BrainInv, JobsBehind, JobsInOrder, NewestIsWhole, NewestOf, B!InChannel
  <2> QED
    BY <1>2, <2>3, <2>4 DEF BrainInv
<1>4. CASE \E logged \in BOOLEAN : B!Finish(logged)
  <2>1. /\ running # B!Nobody /\ running' = B!Nobody /\ UNCHANGED <<disk, mine>>
        /\ done' = [done EXCEPT ![running.of] = running.messages]
    BY <1>4 DEF B!Finish
  <2>2. /\ running.of \in BrainSessions /\ running.messages \in Told /\ B!Nobody.of \notin BrainSessions
        /\ \A i \in DOMAIN channel : channel[i].of \in BrainSessions
    BY <2>1, ChannelFacts, NobodyElse DEF BrainInv, BrainType
  <2>3. /\ done' \in [BrainSessions -> Told] /\ done'[running.of] = running.messages
        /\ \A s \in BrainSessions : s # running.of => done'[s] = done[s]
    BY <2>1, <2>2 DEF BrainInv, BrainType
  <2>4. BrainType' /\ B!MemoriesStay'
    BY <1>1, <2>1, <2>3 DEF BrainInv, BrainType, B!MemoriesStay
  <2>5. JobsBehind' /\ JobsInOrder'
    BY <1>1, <2>1, <2>2, <2>3 DEF BrainInv, JobsBehind, JobsInOrder
  <2>6. NewestIsWhole'
    BY <1>1, <2>1, <2>2, <2>3 DEF BrainInv, NewestIsWhole, NewestOf, B!InChannel
  <2> QED
    BY <1>2, <2>4, <2>5, <2>6 DEF BrainInv
<1> QED
  BY <1>3, <1>4

LEMMA BrainStep == BrainConstants /\ BrainInv /\ [B!Next]_(B!vars) => BrainInv'
<1> SUFFICES ASSUME BrainConstants, BrainInv, [B!Next]_(B!vars) PROVE BrainInv'
  OBVIOUS
<1>1. CASE B!Start
  BY <1>1, StartStep
<1>2. CASE \E s \in BrainSessions : \E t \in B!Turns : B!Enqueue(s, t)
  BY <1>2, EnqueueStep
<1>3. CASE \E s \in BrainSessions : B!Send(s)
  BY <1>3, SendStep
<1>4. CASE B!Take
  BY <1>4, TakeStep
<1>5. CASE (\E f \in MemoryFiles : B!Writes(f)) \/ (\E logged \in BOOLEAN : B!Finish(logged))
  BY <1>5, CuratorStep
<1>6. CASE (\E s \in BrainSessions : B!TurnCounted(s)) \/ UNCHANGED B!vars
  <2>1. UNCHANGED <<projection, adding, channel, queued, running, done, dropped, disk, mine>>
    BY <1>6 DEF B!TurnCounted, B!vars
  <2>2. B!QueueCounted'
    BY <2>1, SameCount
  <2>3. BrainType' /\ B!MemoriesStay'
    BY <2>1 DEF BrainInv, BrainType, B!MemoriesStay
  <2>4. JobsBehind' /\ JobsInOrder' /\ NewestIsWhole'
    BY <2>1 DEF BrainInv, JobsBehind, JobsInOrder, NewestIsWhole, NewestOf, B!InChannel
  <2> QED
    BY <2>2, <2>3, <2>4 DEF BrainInv
<1> QED
  BY <1>1, <1>2, <1>3, <1>4, <1>5, <1>6 DEF B!Next

-----------------------------------------------------------------------------
(* The search of the web.                                                   *)

CONSTANTS Instances, Searchers, Interval, Jitter, Ttl, ProbeTime, MaxResults, AnswerPages,
  WebTime, MaxSwitches, MaxSearches

VARIABLES probing, env, shared, clock, within, switches, lastAt, passed, own, probes, search, answer

X == INSTANCE WebSearch WITH Pages <- AnswerPages, MaxTime <- WebTime, now <- clock,
  up <- within, last <- lastAt, cache <- probes, task <- search

\* A probe is good for longer than two probes take, as the code's 30 and 3 seconds.
SearchConstants ==
  /\ Interval \in Nat /\ Jitter \in Nat /\ Ttl \in Nat /\ ProbeTime \in Nat /\ 2 * ProbeTime < Ttl

Urls == Instances \cup {"none", "s1", "unset"}
Search == [at : {"idle", "asleep", "through", "probing", "trying"}, begun : Nat, read : Int, url : Urls,
           ask : SUBSET X!Kinds, known : SUBSET X!Kinds]

SearchType ==
  /\ probing \in BOOLEAN /\ env \in {"none", "s1"} /\ shared \in Urls
  /\ clock \in Nat /\ lastAt \in -1..clock
  /\ passed \in [n : Int, at : Int, read : Int, before : Int]
  /\ own \in [Searchers -> -1..lastAt]
  /\ probes \in [X!Kinds -> [reach : BOOLEAN, at : -1..clock, url : Urls]]
  /\ search \in [Searchers -> Search]

\* Who sleeps has read a time, no earlier than it was let through itself.
Sleepers ==
  \A s \in Searchers : search[s].at = "asleep" =>
    /\ search[s].read \in 0..search[s].begun /\ search[s].begun <= clock
    /\ own[s] <= search[s].read /\ search[s].read <= lastAt

\* What a search will believe besides what it asks was fresh when it began to ask.
Needs(s, k) == k = "searxng" => search[s].url # "none"
Probers ==
  \A s \in Searchers : search[s].at = "probing" =>
    /\ probing /\ search[s].begun <= clock /\ clock <= search[s].begun + 2 * ProbeTime
    /\ \A k \in X!Kinds \ search[s].ask :
         Needs(s, k) => probes[k].at # X!Never /\ search[s].begun - probes[k].at < Ttl

\* Where one instance is configured, every search uses it and every probe asked it.
OneInstance ==
  shared \in {"unset", "none", env} =>
    /\ \A s \in Searchers : search[s].at # "idle" => search[s].url = env
    /\ probes["searxng"].reach => probes["searxng"].url = env
    /\ \A s \in Searchers : search[s].at = "trying" /\ probing /\ "searxng" \in search[s].known =>
         probes["searxng"].url = env

SearchInv ==
  SearchType /\ Sleepers /\ Probers /\ OneInstance /\ X!Spaced /\ X!FreshlyProbed

LEMMA SearchSafe == SearchInv => X!SearchesKept
<1> SUFFICES ASSUME SearchInv PROVE X!ProbedWhatIsUsed
  BY DEF SearchInv, X!SearchesKept
<1> QED
  BY DEF SearchInv, OneInstance, X!ProbedWhatIsUsed

LEMMA SearchInit == X!Init => SearchInv
<1> SUFFICES ASSUME X!Init PROVE SearchInv
  OBVIOUS
<1>1. /\ probing \in BOOLEAN /\ env \in {"none", "s1"} /\ shared = "unset"
      /\ clock = 0 /\ lastAt = -1 /\ passed = [n |-> 0, at |-> -1, read |-> -1, before |-> -1]
      /\ own = [s \in Searchers |-> -1]
      /\ probes = [k \in X!Kinds |-> [reach |-> FALSE, at |-> -1, url |-> "none"]]
      /\ search = [s \in Searchers |-> X!Idle]
  BY DEF X!Init, X!Never, X!NoProbe
<1>2. X!Idle \in Search /\ X!Idle.at = "idle"
  BY DEF X!Idle, Search, X!Never, Urls
<1>3. SearchType
  BY <1>1, <1>2 DEF SearchType, Urls
<1>4. \A s \in Searchers : search[s].at = "idle"
  BY <1>1, <1>2
<1>5. Sleepers /\ Probers /\ X!FreshlyProbed
  BY <1>4 DEF Sleepers, Probers, X!FreshlyProbed
<1>6. OneInstance /\ X!Spaced
  BY <1>1, <1>4 DEF OneInstance, X!Spaced, X!Never, X!Kinds
<1> QED
  BY <1>3, <1>5, <1>6 DEF SearchInv

\* A search changes, the others stay.
LEMMA SetSearch ==
  ASSUME SearchInv, NEW s \in Searchers, NEW t \in Search, X!Set(s, t)
  PROVE  search' \in [Searchers -> Search] /\ search'[s] = t /\ \A r \in Searchers : r # s => search'[r] = search[r]
  BY DEF SearchInv, SearchType, X!Set

LEMMA SearchOf ==
  ASSUME SearchInv, NEW s \in Searchers
  PROVE  /\ search[s] \in Search /\ search[s].begun \in Nat /\ search[s].read \in Int /\ search[s].url \in Urls
         /\ search[s].ask \in SUBSET X!Kinds /\ search[s].known \in SUBSET X!Kinds
  BY DEF SearchInv, SearchType, Search

LEMMA EnrichStep ==
  ASSUME SearchInv, NEW url \in Instances, X!Enrich(url)
  PROVE  SearchInv'
<1>1. shared = "unset" /\ shared' = url /\ UNCHANGED <<probing, env, clock, lastAt, passed, own, probes, search>>
  BY DEF X!Enrich
<1>2. SearchType'
  BY <1>1 DEF SearchInv, SearchType, Urls
<1>3. Sleepers' /\ Probers' /\ X!Spaced' /\ X!FreshlyProbed'
  BY <1>1 DEF SearchInv, Sleepers, Probers, Needs, X!Spaced, X!FreshlyProbed
<1>4. OneInstance'
  BY <1>1 DEF SearchInv, OneInstance
<1> QED
  BY <1>2, <1>3, <1>4 DEF SearchInv

\* A search that neither probes nor believes anything disturbs no belief.
LEMMA NoBelief ==
  ASSUME SearchInv, NEW s \in Searchers, NEW t \in Search, X!Set(s, t), t.at \in {"idle", "asleep", "through"},
         shared \in {"unset", "none", env} /\ t.at # "idle" => t.url = env,
         UNCHANGED <<probing, env, shared, clock, probes>>
  PROVE  Probers' /\ X!FreshlyProbed' /\ OneInstance'
<1>1. search'[s] = t /\ \A r \in Searchers : r # s => search'[r] = search[r]
  BY SetSearch
<1>2. Probers'
  BY <1>1 DEF SearchInv, Probers, Needs
<1>3. X!FreshlyProbed'
  BY <1>1 DEF SearchInv, X!FreshlyProbed
<1>4. OneInstance'
  BY <1>1 DEF SearchInv, OneInstance
<1> QED
  BY <1>2, <1>3, <1>4

LEMMA ConfigFacts ==
  ASSUME SearchInv
  PROVE  X!Config \in Urls /\ (shared \in {"unset", "none", env} => X!Config = env)
  BY DEF SearchInv, SearchType, X!Config, Urls

\* A search is let through or sleeps: its distance to the request it has read is kept.
LEMMA BeginStep ==
  ASSUME SearchConstants, SearchInv, NEW s \in Searchers, X!Begin(s)
  PROVE  SearchInv'
<1> DEFINE new == [X!Idle EXCEPT !.url = X!Config]
           asleep == [new EXCEPT !.at = "asleep", !.begun = clock, !.read = lastAt]
           through == [new EXCEPT !.at = "through"]
<1>1. /\ search[s].at = "idle"
      /\ UNCHANGED <<probing, env, shared, clock, probes>>
  BY DEF X!Begin
<1>3. /\ clock \in Nat /\ lastAt \in -1..clock /\ X!Config \in Urls
      /\ shared \in {"unset", "none", env} => X!Config = env
      /\ own \in [Searchers -> -1..lastAt]
  BY ConfigFacts DEF SearchInv, SearchType
<1>4. /\ asleep \in Search /\ asleep.at = "asleep" /\ asleep.begun = clock /\ asleep.read = lastAt
      /\ through \in Search /\ through.at = "through" /\ asleep.url = X!Config /\ through.url = X!Config
  <2>1. new \in Search /\ new.url = X!Config
    BY <1>3 DEF Search, X!Idle, X!Never
  <2> HIDE DEF new
  <2>2. clock \in Nat /\ lastAt \in Int
    BY <1>3
  <2> QED
    BY <2>1, <2>2 DEF Search
<1> HIDE DEF asleep, through
<1>5. CASE lastAt # X!Never /\ clock - lastAt < Interval
  <2>1. X!Set(s, asleep) /\ UNCHANGED <<lastAt, passed, own>>
    BY <1>5 DEF X!Begin, asleep
  <2>2. search' \in [Searchers -> Search] /\ search'[s] = asleep /\ \A r \in Searchers : r # s => search'[r] = search[r]
    BY <1>4, <2>1, SetSearch
  <2>3. SearchType'
    BY <1>1, <2>1, <2>2 DEF SearchInv, SearchType
  <2>4. Sleepers'
    BY <1>1, <1>3, <1>4, <1>5, <2>1, <2>2 DEF SearchInv, Sleepers, X!Never
  <2>6. Probers' /\ X!FreshlyProbed' /\ OneInstance'
    BY <1>1, <1>3, <1>4, <2>1, NoBelief
  <2>7. X!Spaced'
    BY <1>1, <2>1 DEF SearchInv, X!Spaced
  <2> QED
    BY <2>3, <2>4, <2>6, <2>7 DEF SearchInv
<1>6. CASE ~(lastAt # X!Never /\ clock - lastAt < Interval)
  <2>1. X!Set(s, through) /\ lastAt' = clock /\ X!Pass(s, lastAt)
    BY <1>6 DEF X!Begin, through
  <2>2. search' \in [Searchers -> Search] /\ search'[s] = through /\ \A r \in Searchers : r # s => search'[r] = search[r]
    BY <1>4, <2>1, SetSearch
  <2>3. /\ passed' = [n |-> passed.n + 1, at |-> clock, read |-> lastAt, before |-> own[s]]
        /\ own' = [own EXCEPT ![s] = clock]
    BY <2>1 DEF X!Pass
  <2>4. SearchType'
    BY <1>1, <1>3, <2>1, <2>2, <2>3 DEF SearchInv, SearchType
  <2>5. Sleepers'
    BY <1>1, <1>3, <1>4, <2>1, <2>2, <2>3 DEF SearchInv, Sleepers
  <2>7. Probers' /\ X!FreshlyProbed' /\ OneInstance'
    BY <1>1, <1>3, <1>4, <2>1, NoBelief
  <2>8. X!Spaced'
    BY <1>1, <1>3, <1>6, <2>3 DEF X!Spaced, X!Never, SearchConstants
  <2> QED
    BY <2>4, <2>5, <2>7, <2>8 DEF SearchInv
<1> QED
  BY <1>5, <1>6

LEMMA WakeStep ==
  ASSUME SearchConstants, SearchInv, NEW s \in Searchers, X!Wake(s)
  PROVE  SearchInv'
<1> DEFINE t == [search[s] EXCEPT !.at = "through", !.begun = 0, !.read = X!Never]
<1>1. /\ search[s].at = "asleep" /\ clock >= X!Shortest(s) /\ lastAt' = clock /\ X!Pass(s, search[s].read)
      /\ X!Set(s, t) /\ UNCHANGED <<probing, env, shared, clock, probes>>
  BY DEF X!Wake
<1>2. t \in Search /\ t.at = "through" /\ t.url = search[s].url
  <2>1. X!Never \in Int
    BY DEF X!Never
  <2>2. search[s] \in Search
    BY SearchOf
  <2> QED
    BY <2>1, <2>2 DEF Search
<1> HIDE DEF t
<1>3. /\ search' \in [Searchers -> Search] /\ search'[s].at = "through"
      /\ \A r \in Searchers : r # s => search'[r] = search[r]
  BY <1>1, <1>2, SetSearch
<1>4. /\ search[s].begun \in Nat /\ search[s].read \in 0..search[s].begun /\ search[s].begun <= clock
      /\ own[s] <= search[s].read /\ clock \in Nat /\ lastAt \in -1..clock /\ own \in [Searchers -> -1..lastAt]
  BY <1>1, SearchOf DEF SearchInv, SearchType, Sleepers
<1>5. clock - search[s].read >= Interval - Jitter
  BY <1>1, <1>4 DEF X!Shortest, X!Left, SearchConstants
<1>6. /\ passed' = [n |-> passed.n + 1, at |-> clock, read |-> search[s].read, before |-> own[s]]
      /\ own' = [own EXCEPT ![s] = clock]
  BY <1>1 DEF X!Pass
<1>7. SearchType'
  BY <1>1, <1>3, <1>4, <1>6 DEF SearchInv, SearchType
<1>8. \A r \in Searchers : r # s => own'[r] = own[r]
  BY <1>4, <1>6
<1>9. Sleepers'
  BY <1>1, <1>3, <1>4, <1>8 DEF SearchInv, Sleepers
<1>10. Probers' /\ X!FreshlyProbed' /\ OneInstance'
  <2>1. shared \in {"unset", "none", env} => t.url = env
    BY <1>1, <1>2 DEF SearchInv, OneInstance
  <2> QED
    BY <1>1, <1>2, <2>1, NoBelief
<1>11. X!Spaced'
  <2>1. own[s] \in Int /\ clock - own[s] >= Interval - Jitter
    BY <1>4, <1>5 DEF SearchConstants
  <2>2. passed'.at = clock /\ passed'.read = search[s].read /\ passed'.before = own[s]
    BY <1>6
  <2> QED
    BY <1>5, <2>1, <2>2 DEF X!Spaced
<1> QED
  BY <1>7, <1>9, <1>10, <1>11 DEF SearchInv

LEMMA TryStep ==
  ASSUME SearchInv, NEW s \in Searchers, NEW answering, X!Try(s, answering)
  PROVE  SearchInv'
<1>1. /\ X!Set(s, X!Idle) /\ UNCHANGED <<probing, env, shared, clock, lastAt, passed, own, probes>>
  BY DEF X!Try
<1>2. X!Idle \in Search /\ X!Idle.at = "idle"
  BY DEF X!Idle, Search, X!Never, Urls
<1>3. /\ search' \in [Searchers -> Search] /\ search'[s].at = "idle"
      /\ \A r \in Searchers : r # s => search'[r] = search[r]
  BY <1>1, <1>2, SetSearch
<1>4. SearchType'
  BY <1>1, <1>3 DEF SearchInv, SearchType
<1>5. Sleepers' /\ X!Spaced'
  BY <1>1, <1>3 DEF SearchInv, Sleepers, X!Spaced
<1>6. Probers' /\ X!FreshlyProbed' /\ OneInstance'
  BY <1>1, <1>2, NoBelief
<1> QED
  BY <1>4, <1>5, <1>6 DEF SearchInv

-----------------------------------------------------------------------------

LEMMA ChooseStep ==
  ASSUME SearchConstants, SearchInv, NEW s \in Searchers, X!Choose(s)
  PROVE  SearchInv'
<1>1. /\ search[s].at = "through" /\ UNCHANGED <<probing, env, shared, clock, lastAt, passed, own, probes>>
  BY DEF X!Choose
<1>2. /\ search[s] \in Search /\ clock \in Nat /\ X!Asked(s) \in SUBSET X!Kinds
      /\ X!Believed(probes) \in SUBSET X!Kinds
  BY SearchOf DEF SearchInv, SearchType, X!Asked, X!Believed
<1>3. PICK t \in Search :
        /\ X!Set(s, t) /\ t.at \in {"trying", "probing"} /\ t.url = search[s].url
        /\ t.at = "trying" /\ probing => t.known = X!Believed(probes) /\ X!Asked(s) = {}
        /\ t.at = "probing" => probing /\ t.begun = clock /\ t.ask = X!Asked(s)
  <2>1. CASE ~probing
    <3> DEFINE t == [search[s] EXCEPT !.at = "trying",
                            !.known = IF search[s].url = "none" THEN X!Kinds \ {"searxng"} ELSE X!Kinds]
    <3>1. X!Set(s, t)
      BY <1>1, <2>1 DEF X!Choose
    <3>2. t \in Search /\ t.at = "trying" /\ t.url = search[s].url
      BY <1>2 DEF Search
    <3> QED
      BY <2>1, <3>1, <3>2
  <2>2. CASE probing /\ X!Asked(s) = {}
    <3> DEFINE t == [search[s] EXCEPT !.at = "trying", !.known = X!Believed(probes)]
    <3>1. X!Set(s, t)
      BY <1>1, <2>2 DEF X!Choose
    <3>2. t \in Search /\ t.at = "trying" /\ t.url = search[s].url /\ t.known = X!Believed(probes)
      BY <1>2 DEF Search
    <3> QED
      BY <2>2, <3>1, <3>2
  <2>3. CASE probing /\ X!Asked(s) # {}
    <3> DEFINE t == [search[s] EXCEPT !.at = "probing", !.begun = clock, !.ask = X!Asked(s)]
    <3>1. X!Set(s, t)
      BY <1>1, <2>3 DEF X!Choose
    <3>2. t \in Search /\ t.at = "probing" /\ t.url = search[s].url /\ t.begun = clock /\ t.ask = X!Asked(s)
      BY <1>2 DEF Search
    <3> QED
      BY <2>3, <3>1, <3>2
  <2>4. probing \in BOOLEAN
    BY DEF SearchInv, SearchType
  <2> QED
    BY <2>1, <2>2, <2>3, <2>4
<1>4. /\ search' \in [Searchers -> Search] /\ search'[s] = t
      /\ \A r \in Searchers : r # s => search'[r] = search[r]
  BY <1>3, SetSearch
<1>5. SearchType'
  BY <1>1, <1>4 DEF SearchInv, SearchType
<1>6. Sleepers' /\ X!Spaced'
  BY <1>1, <1>3, <1>4 DEF SearchInv, Sleepers, X!Spaced
<1>8. \A k \in X!Kinds \ X!Asked(s) : Needs(s, k) => probes[k].at # X!Never /\ clock - probes[k].at < Ttl
  <2>1. \A k \in X!Kinds : probes[k].at \in -1..clock
    BY DEF SearchInv, SearchType
  <2> QED
    BY <1>2, <2>1 DEF X!Asked, X!Stale, Needs, SearchConstants, X!Never
<1>9. Probers'
  <2>1. ASSUME t.at = "probing" PROVE \A k \in X!Kinds \ t.ask : Needs(s, k)' => probes[k].at # X!Never /\ t.begun - probes[k].at < Ttl
    BY <1>3, <1>4, <1>8, <2>1 DEF Needs
  <2>2. t.at = "probing" => probing /\ t.begun <= clock /\ clock <= t.begun + 2 * ProbeTime
    BY <1>2, <1>3 DEF SearchConstants
  <2>3. \A r \in Searchers : r # s => \A k : Needs(r, k)' <=> Needs(r, k)
    BY <1>4 DEF Needs
  <2> QED
    BY <1>1, <1>4, <2>1, <2>2, <2>3 DEF SearchInv, Probers
<1>10. X!FreshlyProbed'
  <2>1. ASSUME NEW k \in X!Kinds, t.at = "trying", probing, k = "searxng" => t.url # "none"
        PROVE  probes[k].at # X!Never /\ clock - probes[k].at < Ttl + 2 * ProbeTime
    <3>1. probes[k].at # X!Never /\ clock - probes[k].at < Ttl /\ probes[k].at \in -1..clock
      BY <1>3, <1>8, <2>1 DEF Needs, SearchInv, SearchType
    <3> QED
      BY <1>2, <3>1 DEF SearchConstants
  <2> QED
    BY <1>1, <1>4, <2>1 DEF SearchInv, X!FreshlyProbed
<1>11. OneInstance'
  <2>1. ASSUME shared \in {"unset", "none", env}
        PROVE  t.url = env /\ (t.at = "trying" /\ probing /\ "searxng" \in t.known => probes["searxng"].url = env)
    BY <1>1, <1>3, <2>1 DEF SearchInv, OneInstance, X!Believed
  <2> QED
    BY <1>1, <1>4, <2>1 DEF SearchInv, OneInstance
<1> QED
  BY <1>5, <1>6, <1>9, <1>10, <1>11 DEF SearchInv

LEMMA ProbedStep ==
  ASSUME SearchConstants, SearchInv, NEW s \in Searchers, X!Probed(s)
  PROVE  SearchInv'
<1> DEFINE t == search[s]
           new == [k \in X!Kinds |-> IF k \notin t.ask THEN probes[k]
                                     ELSE [reach |-> k \in within, at |-> t.begun, url |-> t.url]]
           next == [t EXCEPT !.at = "trying", !.known = X!Believed(new), !.ask = {}, !.begun = 0]
<1>1. /\ t.at = "probing" /\ probes' = new /\ X!Set(s, next)
      /\ UNCHANGED <<probing, env, shared, clock, lastAt, passed, own>>
  BY DEF X!Probed
<1>2. /\ t \in Search /\ t.begun \in Nat /\ t.url \in Urls /\ clock \in Nat /\ t.begun <= clock
      /\ clock <= t.begun + 2 * ProbeTime /\ probing
      /\ \A k \in X!Kinds \ t.ask : Needs(s, k) => probes[k].at # X!Never /\ t.begun - probes[k].at < Ttl
      /\ \A k \in X!Kinds : probes[k].at \in -1..clock
  BY <1>1, SearchOf DEF SearchInv, SearchType, Probers
<1>3. /\ new \in [X!Kinds -> [reach : BOOLEAN, at : -1..clock, url : Urls]]
      /\ \A k \in X!Kinds \ t.ask : new[k] = probes[k]
      /\ \A k \in X!Kinds : k \in t.ask => new[k].at = t.begun /\ new[k].url = t.url
  <2>1. \A k \in X!Kinds : [reach |-> k \in within, at |-> t.begun, url |-> t.url] \in [reach : BOOLEAN, at : -1..clock, url : Urls]
    BY <1>2
  <2>2. \A k \in X!Kinds : probes[k] \in [reach : BOOLEAN, at : -1..clock, url : Urls]
    BY DEF SearchInv, SearchType
  <2> QED
    BY <2>1, <2>2
<1>4. X!Believed(new) \in SUBSET X!Kinds /\ \A k \in X!Believed(new) : new[k].reach
  BY DEF X!Believed
<1> HIDE DEF new
<1>5. next \in Search /\ next.at = "trying" /\ next.url = t.url /\ next.known = X!Believed(new)
  BY <1>2, <1>4 DEF Search
<1> HIDE DEF next
<1>6. /\ search' \in [Searchers -> Search] /\ search'[s] = next
      /\ \A r \in Searchers : r # s => search'[r] = search[r]
  BY <1>1, <1>5, SetSearch
<1>7. SearchType'
  BY <1>1, <1>3, <1>6 DEF SearchInv, SearchType
<1>8. Sleepers' /\ X!Spaced'
  BY <1>1, <1>5, <1>6 DEF SearchInv, Sleepers, X!Spaced
\* What the cache had is replaced by what is at most two probes old.
<1>10. \A k \in X!Kinds : \/ new[k].at = probes[k].at
                          \/ new[k].at # X!Never /\ clock - new[k].at <= 2 * ProbeTime /\ new[k].at \in Nat
  BY <1>2, <1>3 DEF X!Never, SearchConstants
<1>11. Probers'
  <2> SUFFICES ASSUME NEW r \in Searchers, search'[r].at = "probing"
               PROVE  /\ probing /\ search[r].begun <= clock /\ clock <= search[r].begun + 2 * ProbeTime
                      /\ \A k \in X!Kinds \ search[r].ask :
                           Needs(r, k) => new[k].at # X!Never /\ search[r].begun - new[k].at < Ttl
    BY <1>1, <1>5, <1>6 DEF Probers, Needs
  <2>1. search'[r] = search[r]
    BY <1>5, <1>6
  <2>2. /\ search[r].begun \in Nat /\ search[r].begun <= clock /\ clock <= search[r].begun + 2 * ProbeTime
        /\ \A k \in X!Kinds \ search[r].ask :
             Needs(r, k) => probes[k].at # X!Never /\ search[r].begun - probes[k].at < Ttl
    BY <2>1, SearchOf DEF SearchInv, Probers
  <2>3. ASSUME NEW k \in X!Kinds \ search[r].ask, Needs(r, k)
        PROVE  new[k].at # X!Never /\ search[r].begun - new[k].at < Ttl
    <3>1. CASE new[k].at = probes[k].at
      BY <2>2, <2>3, <3>1
    <3>2. CASE new[k].at # X!Never /\ clock - new[k].at <= 2 * ProbeTime /\ new[k].at \in Nat
      BY <1>2, <2>2, <3>2 DEF SearchConstants
    <3> QED
      BY <1>10, <3>1, <3>2
  <2> QED
    BY <1>2, <2>2, <2>3
<1>12. X!FreshlyProbed'
  <2> SUFFICES ASSUME NEW r \in Searchers, NEW k \in X!Kinds, search'[r].at = "trying",
                      k = "searxng" => search'[r].url # "none"
               PROVE  new[k].at # X!Never /\ clock - new[k].at < Ttl + 2 * ProbeTime
    BY <1>1 DEF X!FreshlyProbed
  <2>1. CASE new[k].at # X!Never /\ clock - new[k].at <= 2 * ProbeTime /\ new[k].at \in Nat
    BY <1>2, <2>1 DEF SearchConstants
  <2>2. CASE new[k].at = probes[k].at /\ r # s
    BY <1>2, <1>6, <2>2 DEF SearchInv, X!FreshlyProbed
  <2>3. CASE new[k].at = probes[k].at /\ r = s /\ k \notin t.ask
    <3>1. Needs(s, k)
      BY <1>5, <1>6, <2>3 DEF Needs
    <3>2. probes[k].at # X!Never /\ t.begun - probes[k].at < Ttl /\ probes[k].at \in -1..clock
      BY <1>2, <2>3, <3>1
    <3> QED
      BY <1>2, <2>3, <3>2 DEF SearchConstants
  <2>4. CASE r = s /\ k \in t.ask
    BY <1>2, <1>3, <2>4 DEF SearchConstants, X!Never
  <2> QED
    BY <1>10, <2>1, <2>2, <2>3, <2>4
<1>13. OneInstance'
  <2> SUFFICES ASSUME shared \in {"unset", "none", env}
               PROVE  /\ \A r \in Searchers : search'[r].at # "idle" => search'[r].url = env
                      /\ new["searxng"].reach => new["searxng"].url = env
                      /\ \A r \in Searchers : search'[r].at = "trying" /\ "searxng" \in search'[r].known =>
                           new["searxng"].url = env
    BY <1>1 DEF OneInstance
  <2>1. t.url = env /\ "searxng" \in X!Kinds
    BY <1>1 DEF SearchInv, OneInstance, X!Kinds
  <2>2. new["searxng"].url = env \/ new["searxng"] = probes["searxng"]
    BY <1>3, <2>1
  <2>3. new["searxng"].reach => new["searxng"].url = env
    BY <2>2 DEF SearchInv, OneInstance
  <2>4. \A r \in Searchers : search'[r].at # "idle" => search'[r].url = env
    BY <1>5, <1>6, <2>1 DEF SearchInv, OneInstance
  <2>5. \A r \in Searchers : search'[r].at = "trying" /\ "searxng" \in search'[r].known => new["searxng"].url = env
    BY <1>2, <1>4, <1>5, <1>6, <2>2, <2>3 DEF SearchInv, OneInstance
  <2> QED
    BY <2>3, <2>4, <2>5
<1> QED
  BY <1>7, <1>8, <1>11, <1>12, <1>13 DEF SearchInv

LEMMA TickStep ==
  ASSUME SearchConstants, SearchInv, X!Tick
  PROVE  SearchInv'
<1>1. /\ clock' = clock + 1
      /\ \A s \in Searchers : search[s].at # "trying" /\ (search[s].at = "probing" => clock < search[s].begun + 2 * ProbeTime)
      /\ UNCHANGED <<probing, env, shared, lastAt, passed, own, probes, search>>
  BY DEF X!Tick
<1>2. clock \in Nat
  BY DEF SearchInv, SearchType
<1>3. SearchType'
  <2>1. \A k \in X!Kinds : probes[k] \in [reach : BOOLEAN, at : -1..clock, url : Urls]
    BY DEF SearchInv, SearchType
  <2>2. \A k \in X!Kinds : probes[k] \in [reach : BOOLEAN, at : -1..clock + 1, url : Urls]
    BY <1>2, <2>1
  <2>3. probes \in [X!Kinds -> [reach : BOOLEAN, at : -1..clock + 1, url : Urls]]
    BY <2>2 DEF SearchInv, SearchType
  <2> QED
    BY <1>1, <1>2, <2>3 DEF SearchInv, SearchType
<1>4. Sleepers' /\ X!Spaced' /\ OneInstance'
  <2>1. \A s \in Searchers : search[s].begun \in Nat
    BY SearchOf
  <2> QED
    BY <1>1, <1>2, <2>1 DEF SearchInv, Sleepers, X!Spaced, OneInstance
<1>5. Probers'
  <2>1. \A s \in Searchers : search[s].begun \in Nat
    BY SearchOf
  <2> QED
    BY <1>1, <1>2, <2>1 DEF SearchInv, Probers, Needs, SearchConstants
<1>6. X!FreshlyProbed'
  BY <1>1 DEF X!FreshlyProbed
<1> QED
  BY <1>3, <1>4, <1>5, <1>6 DEF SearchInv

LEMMA SearchStep == SearchConstants /\ SearchInv /\ [X!Next]_(X!vars) => SearchInv'
<1> SUFFICES ASSUME SearchConstants, SearchInv, [X!Next]_(X!vars) PROVE SearchInv'
  OBVIOUS
<1>1. CASE \E url \in Instances : X!Enrich(url)
  BY <1>1, EnrichStep
<1>2. CASE \E s \in Searchers : X!Begin(s)
  BY <1>2, BeginStep
<1>3. CASE \E s \in Searchers : X!Wake(s) \/ X!Choose(s) \/ X!Probed(s)
  BY <1>3, WakeStep, ChooseStep, ProbedStep
<1>4. CASE \E s \in Searchers : \E answering \in SUBSET X!ToSet(X!Chain) : X!Try(s, answering)
  BY <1>4, TryStep
<1>5. CASE X!Tick
  BY <1>5, TickStep
<1>6. CASE (\E k \in X!Kinds \ {"bing"} : X!Switch(k)) \/ UNCHANGED X!vars
  <2>1. UNCHANGED <<probing, env, shared, clock, lastAt, passed, own, probes, search>>
    BY <1>6 DEF X!Switch, X!vars
  <2>2. SearchType' /\ Sleepers'
    BY <2>1 DEF SearchInv, SearchType, Sleepers
  <2>3. Probers' /\ OneInstance' /\ X!Spaced' /\ X!FreshlyProbed'
    BY <2>1 DEF SearchInv, Probers, Needs, OneInstance, X!Spaced, X!FreshlyProbed
  <2> QED
    BY <2>2, <2>3 DEF SearchInv
<1> QED
  BY <1>1, <1>2, <1>3, <1>4, <1>5, <1>6 DEF X!Next

===============================================================================
