------------------------- MODULE CheckpointStoreProofs -------------------------
(***************************************************************************)
(* Invariants of CheckpointStore for every set of keys and values, every   *)
(* interval of full snapshots and every number of checkpoints and crashes. *)
(* When cleanup does not overlap a save, handlers do not clear variables,  *)
(* the session has had one run and cleanup keeps two checkpoints or more,  *)
(* the files and the index of one session behave like one register.        *)
(***************************************************************************)
EXTENDS CheckpointStore, FiniteSetTheorems, SequenceTheorems, TLAPS

-----------------------------------------------------------------------------
(* Induction over numbers, from the library's theorem on sets.              *)

LEMMA SmallestOf ==
  ASSUME NEW S \in SUBSET Nat, S # {}
  PROVE  \E x \in S : \A y \in S : x <= y
<1> DEFINE R == {ss \in Nat \X Nat : ss[1] < ss[2]}
<1>1. IsWellFoundedOn(R, Nat)
  BY NatLessThanWellFounded DEF OpToRel
<1>2. PICK x \in S : \A y \in S : <<y, x>> \notin R
  <2> HIDE DEF R
  <2> QED
    BY <1>1, WFMin
<1>3. \A y \in S : ~(y < x)
  BY <1>2
<1> QED
  BY <1>2, <1>3

-----------------------------------------------------------------------------
(* Positions in an order: what sorting and retaining do with an index.      *)

Before(S, R, i) == {j \in S : <<j, i>> \in R}
Position(S, R, i) == Cardinality(Before(S, R, i))

LEMMA Ranked ==
  ASSUME NEW S, IsFiniteSet(S), NEW R,
         \A i \in S : <<i, i>> \notin R,
         \A i, j, k \in S : <<i, j>> \in R /\ <<j, k>> \in R => <<i, k>> \in R,
         \A i, j \in S : i = j \/ <<i, j>> \in R \/ <<j, i>> \in R
  PROVE  /\ \A i \in S : Position(S, R, i) \in 0 .. Cardinality(S) - 1
         /\ \A i, j \in S : <<i, j>> \in R => Position(S, R, i) < Position(S, R, j)
         /\ \A n \in 0 .. Cardinality(S) - 1 : \E i \in S : Position(S, R, i) = n
<1> DEFINE B(i) == Before(S, R, i)
           n == Cardinality(S)
           f == [i \in S |-> Position(S, R, i)]
<1>1. n \in Nat /\ \A i \in S : B(i) \subseteq S /\ IsFiniteSet(B(i)) /\ Cardinality(B(i)) \in Nat
  BY FS_Subset, FS_CardinalityType DEF Before
<1>2. ASSUME NEW i \in S, NEW T, T \subseteq S, IsFiniteSet(T), B(i) \subseteq T, i \in T
      PROVE  Cardinality(B(i)) + 1 <= Cardinality(T)
  <2>1. i \notin B(i)
    BY DEF Before
  <2>2. IsFiniteSet(B(i) \cup {i}) /\ Cardinality(B(i) \cup {i}) = Cardinality(B(i)) + 1
    BY <1>1, <2>1, FS_AddElement
  <2>3. B(i) \cup {i} \subseteq T
    BY <1>2
  <2> HIDE DEF B
  <2> QED
    BY <1>2, <2>2, <2>3, FS_Subset
<1>3. \A i \in S : Position(S, R, i) \in 0 .. n - 1
  <2> SUFFICES ASSUME NEW i \in S PROVE Cardinality(B(i)) \in 0 .. n - 1
    BY DEF Position
  <2>1. Cardinality(B(i)) + 1 <= n
    BY <1>1, <1>2
  <2> HIDE DEF B, n
  <2> QED
    BY <1>1, <2>1
<1>4. \A i, j \in S : <<i, j>> \in R => Position(S, R, i) < Position(S, R, j)
  <2> SUFFICES ASSUME NEW i \in S, NEW j \in S, <<i, j>> \in R
               PROVE  Cardinality(B(i)) < Cardinality(B(j))
    BY DEF Position
  <2>1. B(i) \subseteq B(j) /\ i \in B(j)
    BY DEF Before
  <2>2. Cardinality(B(i)) + 1 <= Cardinality(B(j))
    BY <1>1, <1>2, <2>1
  <2> HIDE DEF B
  <2> QED
    BY <1>1, <2>2
<1>5. f \in Injection(S, 0 .. n - 1)
  <2>1. f \in [S -> 0 .. n - 1]
    BY <1>3
  <2>2. \A i, j \in S : f[i] = f[j] => i = j
    <3> SUFFICES ASSUME NEW i \in S, NEW j \in S, f[i] = f[j], i # j PROVE FALSE
      OBVIOUS
    <3>1. Position(S, R, i) = Position(S, R, j)
      OBVIOUS
    <3>2. Position(S, R, i) \in Nat /\ Position(S, R, j) \in Nat
      BY <1>3
    <3>3. <<i, j>> \in R \/ <<j, i>> \in R
      OBVIOUS
    <3> QED
      BY <1>4, <3>1, <3>2, <3>3
  <2> QED
    BY <2>1, <2>2 DEF Injection, IsInjective
<1>6. f \in Surjection(S, 0 .. n - 1)
  <2>1. IsFiniteSet(0 .. n - 1) /\ Cardinality(0 .. n - 1) = n
    <3>1. 0 \in Int /\ n - 1 \in Int
      BY <1>1
    <3> HIDE DEF n
    <3> QED
      BY <1>1, <3>1, FS_Interval
  <2> QED
    BY <1>5, <2>1, FS_Injection
<1>7. \A m \in 0 .. n - 1 : \E i \in S : Position(S, R, i) = m
  BY <1>6 DEF Surjection
<1> QED
  BY <1>3, <1>4, <1>7

\* The elements of a finite set of numbers, taken by how many are below each,
\* come in their order, and each comes once.
Ordered(S) == [k \in 1..Cardinality(S) |-> CHOOSE i \in S : Cardinality({j \in S : j < i}) = k - 1]

LEMMA ElementsInOrder ==
  ASSUME NEW S \in SUBSET Nat, IsFiniteSet(S)
  PROVE  /\ Ordered(S) \in [1..Cardinality(S) -> S]
         /\ \A k, l \in 1..Cardinality(S) : k < l => Ordered(S)[k] < Ordered(S)[l]
         /\ \A i \in S : \E k \in 1..Cardinality(S) : Ordered(S)[k] = i
<1> DEFINE m == Cardinality(S)
           R == {ss \in S \X S : ss[1] < ss[2]}
           f == [k \in 1..m |-> CHOOSE i \in S : Cardinality({j \in S : j < i}) = k - 1]
<1>1. m \in Nat /\ \A i \in S : i \in Nat
  BY FS_CardinalityType
<1>2. \A i, j \in S : <<j, i>> \in R <=> j < i
  OBVIOUS
<1>3. /\ \A i, j \in S : i < j => Position(S, R, i) < Position(S, R, j)
      /\ \A p \in 0 .. m - 1 : \E i \in S : Position(S, R, i) = p
      /\ \A i \in S : Position(S, R, i) \in 0 .. m - 1
  <2>1. \A i \in S : <<i, i>> \notin R
    BY <1>1, <1>2
  <2>2. \A i, j, k \in S : <<i, j>> \in R /\ <<j, k>> \in R => <<i, k>> \in R
    <3> TAKE i, j, k \in S
    <3>1. i < j /\ j < k => i < k
      BY <1>1
    <3> HIDE DEF R
    <3> QED
      BY <1>2, <3>1
  <2>3. \A i, j \in S : i = j \/ <<i, j>> \in R \/ <<j, i>> \in R
    <3> TAKE i, j \in S
    <3>1. i = j \/ i < j \/ j < i
      BY <1>1
    <3> QED
      BY <1>2, <3>1
  <2> HIDE DEF R
  <2>4. /\ \A i \in S : Position(S, R, i) \in 0 .. m - 1
        /\ \A i, j \in S : <<i, j>> \in R => Position(S, R, i) < Position(S, R, j)
        /\ \A p \in 0 .. m - 1 : \E i \in S : Position(S, R, i) = p
    BY <2>1, <2>2, <2>3, Ranked
  <2> QED
    BY <1>2, <2>4
<1>4. \A i \in S : Cardinality({j \in S : j < i}) = Position(S, R, i)
  <2> TAKE i \in S
  <2>1. {j \in S : j < i} = Before(S, R, i)
    BY <1>2 DEF Before
  <2> QED
    BY <2>1 DEF Position
<1> HIDE DEF R
<1>5. \A k \in 1..m : f[k] \in S /\ Position(S, R, f[k]) = k - 1
  <2> TAKE k \in 1..m
  <2>1. k - 1 \in 0 .. m - 1
    BY <1>1
  <2>2. \E i \in S : Cardinality({j \in S : j < i}) = k - 1
    BY <1>3, <1>4, <2>1
  <2>3. f[k] \in S /\ Cardinality({j \in S : j < f[k]}) = k - 1
    BY <2>2
  <2> QED
    BY <1>4, <2>3
<1>6. f \in [1..m -> S]
  BY <1>5
<1> HIDE DEF f, m
<1>7. \A k, l \in 1..m : k < l => f[k] < f[l]
  <2> SUFFICES ASSUME NEW k \in 1..m, NEW l \in 1..m, k < l, ~(f[k] < f[l]) PROVE FALSE
    OBVIOUS
  <2>1. f[k] \in S /\ f[l] \in S /\ f[k] \in Nat /\ f[l] \in Nat
    BY <1>1, <1>5
  <2>2. f[l] < f[k] \/ f[l] = f[k]
    BY <2>1
  <2>3. Position(S, R, f[k]) = k - 1 /\ Position(S, R, f[l]) = l - 1
    BY <1>5
  <2> QED
    BY <1>1, <1>3, <2>1, <2>2, <2>3
<1>8. \A i \in S : \E k \in 1..m : f[k] = i
  <2> TAKE i \in S
  <2> DEFINE k == Position(S, R, i) + 1
  <2>1. k \in 1..m /\ k - 1 = Position(S, R, i)
    BY <1>1, <1>3
  <2> HIDE DEF k
  <2>2. f[k] \in S /\ Position(S, R, f[k]) = Position(S, R, i)
    BY <1>5, <2>1
  <2>3. i \in Nat /\ f[k] \in Nat
    BY <1>1, <2>2
  <2>4. Position(S, R, i) \in Nat
    BY <1>1, <1>3
  <2>5. /\ i < f[k] => Position(S, R, i) < Position(S, R, f[k])
        /\ f[k] < i => Position(S, R, f[k]) < Position(S, R, i)
    BY <1>3, <2>2
  <2>6. ~(i < f[k]) /\ ~(f[k] < i)
    BY <2>2, <2>4, <2>5
  <2> QED
    BY <2>1, <2>3, <2>6
<1> QED
  BY <1>6, <1>7, <1>8 DEF f, m, Ordered

-----------------------------------------------------------------------------
(* The index.                                                               *)

LEMMA IndexFacts ==
  ASSUME NEW idx \in Seq(Info)
  PROVE  /\ Len(idx) \in Nat /\ DOMAIN idx = 1..Len(idx) /\ IsFiniteSet(1..Len(idx))
         /\ Cardinality(1..Len(idx)) = Len(idx)
         /\ \A i \in 1..Len(idx) : idx[i] \in Info /\ idx[i].id \in Id /\ idx[i].step \in Int
                                   /\ idx[i].step \in Step
<1>1. Len(idx) \in Nat /\ DOMAIN idx = 1..Len(idx)
  BY LenProperties
<1>2. IsFiniteSet(1..Len(idx)) /\ Cardinality(1..Len(idx)) = Len(idx)
  BY <1>1, FS_Interval, SMTT(30)
<1>3. \A i \in 1..Len(idx) : idx[i] \in Info
  BY <1>1, ElementOfSeq
<1> QED
  BY <1>1, <1>2, <1>3, StoreAssumption DEF Info, Step, Id

\* The latest entry is the last of those with the highest step.
LEMMA LatestFacts ==
  ASSUME NEW idx \in Seq(Info), idx # <<>>
  PROVE  /\ LatestEntry(idx) \in 1..Len(idx)
         /\ \A j \in 1..Len(idx) :
              \/ idx[j].step < idx[LatestEntry(idx)].step
              \/ idx[j].step = idx[LatestEntry(idx)].step /\ j <= LatestEntry(idx)
         /\ LatestId(idx) = idx[LatestEntry(idx)].id /\ LatestId(idx) \in Id
<1> DEFINE n == Len(idx)
<1>1. /\ n \in Nat /\ \A i \in 1..n : idx[i].id \in Id /\ idx[i].step \in Step /\ idx[i].step \in Int
      /\ MaxStep \in Nat
  BY IndexFacts, StoreAssumption
<1>2. 1 \in 1..n
  BY <1>1, EmptySeq
<1> DEFINE Short == {MaxStep - idx[j].step : j \in 1..n}
<1>3. PICK s \in Short : \A t \in Short : s <= t
  <2>1. Short \in SUBSET Nat
    BY <1>1 DEF Step
  <2>2. Short # {}
    BY <1>2
  <2> HIDE DEF Short
  <2> QED
    BY <2>1, <2>2, SmallestOf
<1>4. PICK i \in 1..n : \A j \in 1..n : idx[j].step <= idx[i].step
  <2>1. PICK i \in 1..n : s = MaxStep - idx[i].step
    OBVIOUS
  <2>2. \A j \in 1..n : MaxStep - idx[i].step <= MaxStep - idx[j].step
    BY <1>3, <2>1
  <2>3. \A j \in 1..n : idx[j].step <= idx[i].step
    <3> TAKE j \in 1..n
    <3>1. idx[j].step \in Int /\ idx[i].step \in Int /\ MaxStep \in Int
      BY <1>1
    <3>2. MaxStep - idx[i].step <= MaxStep - idx[j].step
      BY <2>2
    <3> QED
      BY <3>1, <3>2
  <2> QED
    BY <2>3
<1> DEFINE Top == {j \in 1..n : idx[j].step = idx[i].step}
           Left == {n - j : j \in Top}
<1>5. PICK m \in Left : \A t \in Left : m <= t
  <2>1. Left \in SUBSET Nat
    BY <1>1
  <2>2. Left # {}
    BY <1>4
  <2> HIDE DEF Left
  <2> QED
    BY <2>1, <2>2, SmallestOf
<1>6. PICK k \in Top : \A j \in Top : j <= k
  <2>1. PICK k \in Top : m = n - k
    OBVIOUS
  <2>2. \A j \in Top : n - k <= n - j
    BY <1>5, <2>1
  <2>3. Top \subseteq 1..n
    OBVIOUS
  <2> HIDE DEF Left, Top, Short
  <2>4. ASSUME NEW j \in Top PROVE j <= k
    <3>1. n \in Int /\ j \in Int /\ k \in Int
      BY <1>1, <2>3
    <3>2. n - k <= n - j
      BY <2>2
    <3> HIDE DEF n
    <3> QED
      BY <3>1, <3>2
  <2> QED
    BY <2>4
<1>7. k \in 1..n /\ \A j \in 1..n : idx[j].step < idx[k].step \/ (idx[j].step = idx[k].step /\ j <= k)
  BY <1>1, <1>4, <1>6
<1>8. /\ LatestEntry(idx) \in 1..n
      /\ \A j \in 1..n : \/ idx[j].step < idx[LatestEntry(idx)].step
                         \/ idx[j].step = idx[LatestEntry(idx)].step /\ j <= LatestEntry(idx)
  BY <1>7 DEF LatestEntry
<1> QED
  BY <1>1, <1>8 DEF LatestId

LEMMA LatestIdType ==
  ASSUME NEW idx \in Seq(Info)
  PROVE  LatestId(idx) \in Id \cup {NoId}
  BY LatestFacts DEF LatestId

\* What a cleanup deletes are entries that are ranked behind those it keeps.
LEMMA ExpiredFacts ==
  ASSUME NEW idx \in Seq(Info), Len(idx) > MaxCheckpoints
  PROVE  /\ Expired(idx) \in Seq(Id)
         /\ \A r \in DOMAIN Expired(idx) :
              \E i \in 1..Len(idx) : Expired(idx)[r] = idx[i].id /\ Rank(idx, i) >= MaxCheckpoints
<1> DEFINE n == Len(idx)
           S == 1..n
           R == {ss \in S \X S : \/ idx[ss[1]].step > idx[ss[2]].step
                                 \/ idx[ss[1]].step = idx[ss[2]].step /\ ss[1] < ss[2]}
<1>1. /\ n \in Nat /\ IsFiniteSet(S) /\ Cardinality(S) = n
      /\ \A i \in S : idx[i].id \in Id /\ idx[i].step \in Int
      /\ MaxCheckpoints \in Nat \ {0}
  BY IndexFacts, StoreAssumption
<1>2. \A i, j \in S : <<j, i>> \in R <=> \/ idx[j].step > idx[i].step
                                         \/ idx[j].step = idx[i].step /\ j < i
  OBVIOUS
<1>3. \A i \in S : Rank(idx, i) = Position(S, R, i)
  <2> TAKE i \in S
  <2>1. {j \in 1..n : \/ idx[j].step > idx[i].step
                      \/ idx[j].step = idx[i].step /\ j < i} = Before(S, R, i)
    BY <1>2 DEF Before
  <2> HIDE DEF R, S
  <2> QED
    BY <2>1 DEF Rank, Position
<1>4. \A m \in 0 .. n - 1 : \E i \in S : Position(S, R, i) = m
  <2>1. \A i \in S : <<i, i>> \notin R
    BY <1>1, <1>2
  <2>2. \A i, j, k \in S : <<i, j>> \in R /\ <<j, k>> \in R => <<i, k>> \in R
    BY <1>1, <1>2
  <2>3. \A i, j \in S : i = j \/ <<i, j>> \in R \/ <<j, i>> \in R
    <3> TAKE i, j \in S
    <3>1. i \in Nat /\ j \in Nat /\ idx[i].step \in Int /\ idx[j].step \in Int
      BY <1>1
    <3>2. \/ i = j \/ idx[i].step > idx[j].step \/ idx[j].step > idx[i].step
          \/ idx[i].step = idx[j].step /\ (i < j \/ j < i)
      BY <3>1
    <3> QED
      BY <1>2, <3>2
  <2> HIDE DEF R, S
  <2> QED
    BY <1>1, <2>1, <2>2, <2>3, Ranked
<1> HIDE DEF R
<1> DEFINE pick(r) == CHOOSE i \in 1..n : Rank(idx, i) = MaxCheckpoints + r - 1
<1>5. \A r \in 1..(n - MaxCheckpoints) :
        pick(r) \in 1..n /\ Rank(idx, pick(r)) = MaxCheckpoints + r - 1
  <2> TAKE r \in 1..(n - MaxCheckpoints)
  <2>1. MaxCheckpoints + r - 1 \in 0 .. n - 1
    BY <1>1
  <2>2. \E i \in 1..n : Rank(idx, i) = MaxCheckpoints + r - 1
    BY <1>3, <1>4, <2>1
  <2> QED
    BY <2>2
<1>6. Expired(idx) = [r \in 1..(n - MaxCheckpoints) |-> idx[pick(r)].id]
  BY DEF Expired
<1> HIDE DEF pick
<1>7. Expired(idx) \in Seq(Id)
  <2>1. n - MaxCheckpoints \in Nat /\ \A r \in 1..(n - MaxCheckpoints) : idx[pick(r)].id \in Id
    BY <1>1, <1>5
  <2> HIDE DEF n
  <2> QED
    BY <1>6, <2>1, IsASeq
<1>8. \A r \in DOMAIN Expired(idx) :
        \E i \in 1..n : Expired(idx)[r] = idx[i].id /\ Rank(idx, i) >= MaxCheckpoints
  <2> TAKE r \in DOMAIN Expired(idx)
  <2>1. r \in 1..(n - MaxCheckpoints) /\ Expired(idx)[r] = idx[pick(r)].id
    BY <1>6
  <2>2. pick(r) \in 1..n /\ Rank(idx, pick(r)) >= MaxCheckpoints
    BY <1>1, <1>5, <2>1
  <2> QED
    BY <2>1, <2>2
<1> QED
  BY <1>7, <1>8

\* Retaining keeps all entries with another id, in their order.
Selects(f, idx, id, kept) ==
  /\ f \in [1..Len(kept) -> 1..Len(idx)]
  /\ \A k, l \in 1..Len(kept) : k < l => f[k] < f[l]
  /\ \A k \in 1..Len(kept) : kept[k] = idx[f[k]] /\ idx[f[k]].id # id
  /\ \A i \in 1..Len(idx) : idx[i].id # id => \E k \in 1..Len(kept) : f[k] = i

LEMMA RetainedFacts ==
  ASSUME NEW idx \in Seq(Info), NEW id
  PROVE  /\ Retained(idx, id) \in Seq(Info)
         /\ \E f : Selects(f, idx, id, Retained(idx, id))
<1> DEFINE n == Len(idx)
           S == {i \in 1..n : idx[i].id # id}
           m == Cardinality(S)
           f == Ordered(S)
<1>1. n \in Nat /\ IsFiniteSet(1..n) /\ \A i \in 1..n : idx[i] \in Info
  BY IndexFacts
<1>2. S \in SUBSET Nat /\ IsFiniteSet(S) /\ m \in Nat
  BY <1>1, FS_Subset, FS_CardinalityType
<1>3. Retained(idx, id) = [k \in 1..m |-> idx[f[k]]]
  BY DEF Retained, Ordered
<1>4. \A i \in S : i \in 1..n /\ idx[i].id # id
  OBVIOUS
<1>5. \A i \in 1..n : idx[i].id # id => i \in S
  OBVIOUS
<1> HIDE DEF S
<1>6. /\ f \in [1..m -> S]
      /\ \A k, l \in 1..m : k < l => f[k] < f[l]
      /\ \A i \in S : \E k \in 1..m : f[k] = i
  BY <1>2, ElementsInOrder
<1> HIDE DEF f, m
<1>7. Retained(idx, id) \in Seq(Info) /\ Len(Retained(idx, id)) = m
  <2>1. \A k \in 1..m : idx[f[k]] \in Info
    BY <1>1, <1>4, <1>6
  <2>2. Retained(idx, id) \in Seq(Info)
    BY <1>2, <1>3, <2>1, IsASeq
  <2> QED
    BY <1>2, <1>3, <2>2, LenProperties
<1>8. f \in [1..m -> 1..n] /\ \A k \in 1..m : Retained(idx, id)[k] = idx[f[k]] /\ idx[f[k]].id # id
  BY <1>3, <1>4, <1>6
<1>9. \A i \in 1..n : idx[i].id # id => \E k \in 1..m : f[k] = i
  BY <1>5, <1>6
<1> HIDE DEF n
<1>10. ASSUME NEW kept, kept = Retained(idx, id) PROVE Selects(f, idx, id, kept)
  <2>1. Len(kept) = m /\ Len(idx) = n
    BY <1>7, <1>10 DEF n
  <2>2. f \in [1..m -> 1..n] /\ \A k \in 1..m : kept[k] = idx[f[k]] /\ idx[f[k]].id # id
    BY <1>8, <1>10
  <2> QED
    BY <1>6, <1>9, <2>1, <2>2 DEF Selects
<1> QED
  BY <1>7, <1>10

-----------------------------------------------------------------------------
(* Types, with where each actor can be.                                     *)

Saving == pc["engine"] \in {"load", "open", "fill", "rename"}
Removing == pc["janitor"] \in {"load", "open", "fill", "rename"}

Shape ==
  /\ pc["engine"] # "remove" /\ pc["janitor"] \notin {"list", "file"}
  /\ pc["engine"] # "idle" => alive /\ step < MaxStep
  /\ left # "none" => pc["engine"] # "idle"
  /\ Saving => draftId \in Id
  /\ Removing => todo # <<>>

TypeInv == TypeOK /\ Shape

LEMMA TypeInit == Init => TypeInv
<1> SUFFICES ASSUME Init PROVE TypeInv
  OBVIOUS
<1>1. NoEntries \in State /\ -1 \in Step /\ NoDraft \in Checkpoint /\ MaxId \in Nat
  BY StoreAssumption DEF NoEntries, State, Step, NoDraft, Checkpoint
<1>2. NoState \in [step : Step \cup {-2}, state : State]
  BY <1>1 DEF NoState
<1>3. TypeOK
  <2>1. <<>> \in Seq(Info) /\ <<>> \in Seq(Id)
    OBVIOUS
  <2>2. /\ files \in [Id -> Checkpoint \cup {Missing}]
        /\ index \in Seq(Info) \cup {Torn} /\ tmp \in Seq(Info) \cup {Torn, NoFile}
    BY <2>1 DEF Init
  <2>3. /\ pc \in [Actor -> {"idle", "list", "file", "remove", "load", "open", "fill", "rename"}]
        /\ copy \in [Actor -> Seq(Info)]
        /\ out \in [Actor -> {"none", "tmp", "index", "gone"}]
    BY <2>1 DEF Init
  <2> QED
    <3>1. alive \in BOOLEAN /\ halted \in BOOLEAN
      BY DEF Init
    <3>2. draft \in Checkpoint /\ draftId \in Id \cup {NoId} /\ todo \in Seq(Id)
      BY <1>1, <2>1 DEF Init
    <3>3. newest \in [step : Step \cup {-2}, state : State] /\ state \in State /\ step \in Step
      BY <1>1, <1>2 DEF Init
    <3> QED
      BY <1>1, <2>2, <2>3, <3>1, <3>2, <3>3 DEF Init, TypeOK
<1>4. Shape
  BY DEF Init, Shape, Actor, Saving, Removing
<1> QED
  BY <1>3, <1>4 DEF TypeInv

LEMMA TypeStep == TypeInv /\ [Next]_vars => TypeInv'
<1> SUFFICES ASSUME TypeInv, [Next]_vars PROVE TypeInv'
  OBVIOUS
<1>1. /\ NoEntries \in State /\ -1 \in Step /\ NoDraft \in Checkpoint /\ MaxId \in Nat
      /\ MaxStep \in Nat /\ NoId \in Id \cup {NoId} /\ -1 < MaxStep
  BY StoreAssumption DEF NoEntries, State, Step, NoDraft, Checkpoint
<1>2. CASE StartRun
  <2>1. TypeOK'
    <3>1. /\ files' \in [Id -> Checkpoint \cup {Missing}]
          /\ index' \in Seq(Info) \cup {Torn} /\ tmp' \in Seq(Info) \cup {Torn, NoFile}
          /\ counter' \in Nat
      BY <1>2 DEF StartRun, TypeInv, TypeOK, diskVars
    <3>2. /\ pc' \in [Actor -> {"idle", "list", "file", "remove", "load", "open", "fill", "rename"}]
          /\ copy' \in [Actor -> Seq(Info)]
          /\ out' \in [Actor -> {"none", "tmp", "index", "gone"}]
      BY <1>2 DEF StartRun, TypeInv, TypeOK, Actor
    <3>3. draft' \in Checkpoint /\ draftId' \in Id \cup {NoId} /\ todo' \in Seq(Id)
      BY <1>1, <1>2 DEF StartRun, TypeInv, TypeOK
    <3>4. alive' \in BOOLEAN /\ halted' \in BOOLEAN
      BY <1>2 DEF StartRun, TypeInv, TypeOK
    <3>5. state' \in State /\ step' \in Step /\ started' \in Nat /\ crashes' \in Nat
      BY <1>1, <1>2 DEF StartRun, TypeInv, TypeOK
    <3> QED
      BY <1>2, <3>1, <3>2, <3>3, <3>4, <3>5 DEF StartRun, TypeInv, TypeOK
  <2>2. Shape'
    BY <1>1, <1>2 DEF StartRun, TypeInv, TypeOK, Shape, Saving, Removing, Actor, diskVars
  <2> QED
    BY <2>1, <2>2 DEF TypeInv
<1>3. CASE Work
  <2>1. state' \in State
    BY <1>3 DEF Work, TypeInv, TypeOK, State
  <2> QED
    BY <1>1, <1>3, <2>1 DEF Work, TypeInv, TypeOK, Shape, Saving, Removing, Actor, diskVars, opVars
<1>4. ASSUME NEW kind \in {"halt", "step"}, BeginCommit(kind) PROVE TypeInv'
  <2>1. draft' \in Checkpoint
    <3>1. IsFull \in BOOLEAN
      BY DEF IsFull
    <3> QED
      BY <1>1, <1>4, <3>1 DEF BeginCommit, TypeInv, TypeOK, Checkpoint
  <2> QED
    BY <1>1, <1>4, <2>1 DEF BeginCommit, TypeInv, TypeOK, Shape, Saving, Removing, Actor, diskVars
<1>5. CASE FindParent
  <2>1. LatestId(index) \in Id \cup {NoId}
    BY <1>5, LatestIdType DEF FindParent, TypeInv, TypeOK
  <2>2. draft' \in Checkpoint
    BY <1>5, <2>1 DEF FindParent, TypeInv, TypeOK, Checkpoint
  <2> QED
    BY <1>1, <1>5, <2>2 DEF FindParent, TypeInv, TypeOK, Shape, Saving, Removing, Actor, diskVars,
                            runVars
<1>6. CASE WriteFile
  <2>1. issued + 1 \in Id /\ issued + 1 \in 0..MaxId
    BY <1>1, <1>6 DEF WriteFile, TypeInv, TypeOK, Id
  <2> QED
    BY <1>1, <1>6, <2>1 DEF WriteFile, TypeInv, TypeOK, Shape, Saving, Removing, Actor, Id
<1>7. CASE RenameEngine
  <2>1. step' \in Step
    BY <1>1, <1>7 DEF RenameEngine, StepOver, TypeInv, TypeOK, Shape, Step
  <2>2. newest' \in [step : Step \cup {-2}, state : State]
    BY <1>7 DEF RenameEngine, TypeInv, TypeOK, Checkpoint
  <2>3. /\ index' \in Seq(Info) \cup {Torn} /\ tmp' = NoFile /\ counter' \in Nat
        /\ acked' \subseteq Id
    BY <1>1, <1>7 DEF RenameEngine, TypeInv, TypeOK, Shape, Saving
  <2>4. out' \in [Actor -> {"none", "tmp", "index", "gone"}]
    BY <1>7 DEF RenameEngine, TypeInv, TypeOK, Moved
  <2> QED
    BY <1>1, <1>7, <2>1, <2>2, <2>3, <2>4
       DEF RenameEngine, StepOver, TypeInv, TypeOK, Shape, Saving, Removing, Actor
<1>8. CASE EndRun
  BY <1>1, <1>8 DEF EndRun, TypeInv, TypeOK, Shape, Saving, Removing, Actor, diskVars, opVars
<1>9. CASE BeginCleanup
  <2>1. Expired(index) \in Seq(Id)
    BY <1>9, ExpiredFacts DEF BeginCleanup, TypeInv, TypeOK
  <2> QED
    BY <1>1, <1>9, <2>1 DEF BeginCleanup, TypeInv, TypeOK, Shape, Saving, Removing, Actor, diskVars,
                            runVars
<1>10. CASE SkipMissing
  <2>1. todo' \in Seq(Id)
    BY <1>10, HeadTailProperties DEF SkipMissing, TypeInv, TypeOK
  <2> QED
    BY <1>1, <1>10, <2>1 DEF SkipMissing, TypeInv, TypeOK, Shape, Saving, Removing, Actor, diskVars,
                             runVars
<1>11. CASE RemoveFile
  BY <1>1, <1>11 DEF RemoveFile, TypeInv, TypeOK, Shape, Saving, Removing, Actor, runVars
<1>12. CASE RenameJanitor
  <2>1. todo' \in Seq(Id)
    BY <1>12, HeadTailProperties DEF RenameJanitor, TypeInv, TypeOK, Shape, Removing
  <2>2. out' \in [Actor -> {"none", "tmp", "index", "gone"}]
    BY <1>12 DEF RenameJanitor, TypeInv, TypeOK, Moved
  <2> QED
    BY <1>1, <1>12, <2>1, <2>2 DEF RenameJanitor, TypeInv, TypeOK, Shape, Saving, Removing, Actor,
                                   runVars
<1>13. CASE CleanupDone
  BY <1>1, <1>13 DEF CleanupDone, TypeInv, TypeOK, Shape, Saving, Removing, Actor, diskVars, runVars
<1>14. ASSUME NEW a \in Actor, LoadIndex(a) PROVE TypeInv'
  <2>1. index \in Seq(Info)
    BY <1>14 DEF LoadIndex, TypeInv, TypeOK
  <2>2. CASE a = "engine"
    <3>1. [id |-> draftId, step |-> draft.step] \in Info
      BY <1>14, <2>2 DEF LoadIndex, TypeInv, TypeOK, Shape, Saving, Checkpoint, Info
    <3>2. Append(index, [id |-> draftId, step |-> draft.step]) \in Seq(Info)
      BY <2>1, <3>1, AppendProperties
    <3> QED
      BY <1>1, <1>14, <2>2, <3>2 DEF LoadIndex, TypeInv, TypeOK, Shape, Saving, Removing, Actor,
                                     diskVars, runVars
  <2>3. CASE a = "janitor"
    <3>1. Retained(index, Head(todo)) \in Seq(Info)
      BY <2>1, RetainedFacts
    <3> QED
      BY <1>1, <1>14, <2>3, <3>1 DEF LoadIndex, TypeInv, TypeOK, Shape, Saving, Removing, Actor,
                                     diskVars, runVars
  <2> QED
    BY <2>2, <2>3 DEF Actor
<1>15. ASSUME NEW a \in Actor, OpenTmp(a) PROVE TypeInv'
  BY <1>1, <1>15 DEF OpenTmp, TypeInv, TypeOK, Shape, Saving, Removing, Actor, runVars
<1>16. ASSUME NEW a \in Actor, FillTmp(a) PROVE TypeInv'
  <2>1. tmp' \in Seq(Info) \cup {Torn, NoFile} /\ index' \in Seq(Info) \cup {Torn}
    BY <1>16 DEF FillTmp, TypeInv, TypeOK, Written
  <2> QED
    BY <1>1, <1>16, <2>1 DEF FillTmp, TypeInv, TypeOK, Shape, Saving, Removing, Actor, runVars
<1>17. CASE CommitFails
  <2>1. step' \in Step
    BY <1>1, <1>17 DEF CommitFails, Fails, StepOver, TypeInv, TypeOK, Shape, Step
  <2> QED
    BY <1>1, <1>17, <2>1 DEF CommitFails, StepOver, TypeInv, TypeOK, Shape, Saving, Removing, Actor,
                             diskVars
<1>18. CASE CleanupFails
  BY <1>1, <1>18 DEF CleanupFails, TypeInv, TypeOK, Shape, Saving, Removing, Actor, diskVars, runVars
<1>19. CASE LeftFades
  <2>1. TypeOK'
    <3>1. /\ files' \in [Id -> Checkpoint \cup {Missing}]
          /\ index' \in Seq(Info) \cup {Torn} /\ tmp' \in Seq(Info) \cup {Torn, NoFile}
          /\ counter' \in Nat
      BY <1>19 DEF LeftFades, TypeInv, TypeOK, diskVars
    <3>2. /\ pc' \in [Actor -> {"idle", "list", "file", "remove", "load", "open", "fill", "rename"}]
          /\ copy' \in [Actor -> Seq(Info)]
          /\ out' \in [Actor -> {"none", "tmp", "index", "gone"}]
      BY <1>19 DEF LeftFades, TypeInv, TypeOK, Actor
    <3>3. draft' \in Checkpoint /\ draftId' \in Id \cup {NoId} /\ todo' \in Seq(Id)
      BY <1>1, <1>19 DEF LeftFades, TypeInv, TypeOK
    <3>4. alive' \in BOOLEAN /\ halted' \in BOOLEAN
      BY <1>19 DEF LeftFades, TypeInv, TypeOK
    <3>5. state' \in State /\ step' \in Step /\ started' \in Nat /\ crashes' \in Nat
      BY <1>1, <1>19 DEF LeftFades, TypeInv, TypeOK
    <3> QED
      BY <1>19, <3>1, <3>2, <3>3, <3>4, <3>5 DEF LeftFades, TypeInv, TypeOK
  <2>2. Shape'
    BY <1>1, <1>19 DEF LeftFades, TypeInv, TypeOK, Shape, Saving, Removing, Actor, diskVars
  <2> QED
    BY <2>1, <2>2 DEF TypeInv
<1>20. CASE Crash
  <2>1. TypeOK'
    <3>1. /\ files' \in [Id -> Checkpoint \cup {Missing}]
          /\ index' \in Seq(Info) \cup {Torn} /\ tmp' \in Seq(Info) \cup {Torn, NoFile}
          /\ counter' \in Nat
      BY <1>20 DEF Crash, TypeInv, TypeOK, diskVars
    <3>2. /\ pc' \in [Actor -> {"idle", "list", "file", "remove", "load", "open", "fill", "rename"}]
          /\ copy' \in [Actor -> Seq(Info)]
          /\ out' \in [Actor -> {"none", "tmp", "index", "gone"}]
      BY <1>20 DEF Crash, TypeInv, TypeOK, Actor
    <3>3. draft' \in Checkpoint /\ draftId' \in Id \cup {NoId} /\ todo' \in Seq(Id)
      BY <1>1, <1>20 DEF Crash, TypeInv, TypeOK
    <3>4. alive' \in BOOLEAN /\ halted' \in BOOLEAN
      BY <1>20 DEF Crash, TypeInv, TypeOK
    <3>5. state' \in State /\ step' \in Step /\ started' \in Nat /\ crashes' \in Nat
      BY <1>1, <1>20 DEF Crash, TypeInv, TypeOK
    <3> QED
      BY <1>20, <3>1, <3>2, <3>3, <3>4, <3>5 DEF Crash, TypeInv, TypeOK
  <2>2. Shape'
    BY <1>1, <1>20 DEF Crash, TypeInv, TypeOK, Shape, Saving, Removing, Actor, diskVars
  <2> QED
    BY <2>1, <2>2 DEF TypeInv
<1>21. CASE UNCHANGED vars
  BY <1>21 DEF vars, diskVars, opVars, runVars, TypeInv, TypeOK, Shape, Saving, Removing
<1>23. CASE TimeoutRun
  <2>1. [step |-> draft.step, state |-> draft.state] \in [step : Step, state : State]
    BY DEF TypeInv, TypeOK, Checkpoint
  <2>2. unacked' \subseteq [step : Step, state : State]
    BY <1>23, <2>1 DEF TimeoutRun, TypeInv, TypeOK
  <2>3. left' \in {"list", "file", "load", "open", "fill", "rename"} /\ left' = pc["engine"]
    BY <1>23 DEF TimeoutRun, TypeInv, TypeOK, Shape, Actor
  <2> QED
    BY <1>1, <1>23, <2>2, <2>3 DEF TimeoutRun, TypeInv, TypeOK, Shape, Saving, Removing, diskVars, opVars
<1>22. CASE LeftLands
  <2>1. /\ index' \in Seq(Info) \cup {Torn} /\ tmp' = NoFile
        /\ out' \in [Actor -> {"none", "tmp", "index", "gone"}]
    BY <1>22 DEF LeftLands, TypeInv, TypeOK, Moved
  <2> QED
    BY <1>1, <1>22, <2>1 DEF LeftLands, TypeInv, TypeOK, Shape, Saving, Removing, Actor
<1> QED
  BY <1>2, <1>3, <1>4, <1>5, <1>6, <1>7, <1>8, <1>9, <1>10, <1>11, <1>12, <1>13, <1>14, <1>15, <1>16,
     <1>17, <1>18, <1>19, <1>20, <1>21, <1>22, <1>23 DEF Next, EngineStep, JanitorStep

\* Files, indexes and the places of both actors stay what they are declared as,
\* however a cleanup and a save overlap.
THEOREM TypeCorrect == Spec => []TypeOK
<1>1. TypeInv => TypeOK
  BY DEF TypeInv
<1> QED
  BY <1>1, TypeInit, TypeStep, PTL DEF Spec

-----------------------------------------------------------------------------
(* Without an overlap of cleanup and save, an index is replaced as a whole.  *)

NewIndex(a) ==
  IF a = "engine" THEN Append(index, [id |-> draftId, step |-> draft.step])
  ELSE Retained(index, Head(todo))

WriteInv ==
  /\ pc["engine"] = "idle" \/ pc["janitor"] = "idle"
  /\ index # Torn
  /\ pc["janitor"] = "idle" => todo = <<>>
  /\ \A a \in Actor :
       /\ out[a] = IF pc[a] = "fill" THEN "tmp" ELSE "none"
       /\ pc[a] = "fill" => tmp = <<>>
       /\ pc[a] \in {"open", "fill"} => copy[a] = NewIndex(a)
       /\ pc[a] = "rename" => tmp = NewIndex(a)

LEMMA WriteInit == Init => WriteInv
  BY SentinelAssumption, EmptySeq DEF Init, WriteInv, Actor

LEMMA TornIsNoSequence == Torn \notin Seq(Info) /\ NoFile \notin Seq(Info) /\ Torn # NoFile
  BY SentinelAssumption

LEMMA NewIndexType ==
  ASSUME TypeInv, index # Torn, NEW a \in Actor, pc[a] \in {"load", "open", "fill", "rename"}
  PROVE  NewIndex(a) \in Seq(Info)
<1>1. index \in Seq(Info)
  BY DEF TypeInv, TypeOK
<1>2. CASE a = "engine"
  <2>1. [id |-> draftId, step |-> draft.step] \in Info
    BY <1>2 DEF TypeInv, TypeOK, Shape, Saving, Checkpoint, Info
  <2> QED
    BY <1>1, <1>2, <2>1, AppendProperties DEF NewIndex
<1>3. CASE a = "janitor"
  BY <1>1, <1>3, RetainedFacts DEF NewIndex
<1> QED
  BY <1>2, <1>3 DEF Actor

LEMMA WriteStep == TypeInv /\ WriteInv /\ ~Concurrent /\ [Next]_vars => WriteInv'
<1> SUFFICES ASSUME TypeInv, WriteInv, ~Concurrent, [Next]_vars PROVE WriteInv'
  OBVIOUS
<1>1. /\ Torn \notin Seq(Info) /\ <<>> \in Seq(Info)
      /\ pc \in [Actor -> {"idle", "list", "file", "remove", "load", "open", "fill", "rename"}]
      /\ out \in [Actor -> {"none", "tmp", "index", "gone"}] /\ copy \in [Actor -> Seq(Info)]
      /\ pc["engine"] # "remove" /\ pc["janitor"] \notin {"list", "file"}
      /\ ~alive => pc["engine"] = "idle"
  BY TornIsNoSequence DEF TypeInv, TypeOK, Shape
<1>2. CASE StartRun
  BY <1>1, <1>2 DEF StartRun, WriteInv, NewIndex, Actor, diskVars
<1>3. CASE Work \/ EndRun
  BY <1>1, <1>3 DEF Work, EndRun, WriteInv, NewIndex, Actor, diskVars, opVars
<1>4. ASSUME NEW kind \in {"halt", "step"}, BeginCommit(kind) PROVE WriteInv'
  BY <1>1, <1>4 DEF BeginCommit, WriteInv, NewIndex, Actor, diskVars
<1>5. CASE FindParent
  BY <1>1, <1>5 DEF FindParent, WriteInv, NewIndex, Actor, diskVars, runVars
<1>6. CASE WriteFile
  BY <1>1, <1>6 DEF WriteFile, WriteInv, NewIndex, Actor
<1>7. CASE RenameEngine
  <2>1. NewIndex("engine") # Torn /\ tmp = NewIndex("engine")
    BY <1>1, <1>7, NewIndexType DEF RenameEngine, WriteInv, Actor
  <2>2. out' = [a \in Actor |-> "none"]
    BY <1>1, <1>7 DEF RenameEngine, WriteInv, Moved, Actor
  <2> QED
    BY <1>1, <1>7, <2>1, <2>2 DEF RenameEngine, WriteInv, Actor
<1>8. CASE BeginCleanup
  BY <1>1, <1>8 DEF BeginCleanup, WriteInv, NewIndex, Actor, diskVars, runVars
<1>9. CASE SkipMissing \/ CleanupDone
  BY <1>1, <1>9 DEF SkipMissing, CleanupDone, WriteInv, NewIndex, Actor, diskVars, runVars
<1>10. CASE RemoveFile
  BY <1>1, <1>10 DEF RemoveFile, WriteInv, NewIndex, Actor, runVars
<1>11. CASE RenameJanitor
  <2>1. NewIndex("janitor") # Torn /\ tmp = NewIndex("janitor")
    BY <1>1, <1>11, NewIndexType DEF RenameJanitor, WriteInv, Actor
  <2>2. out' = [a \in Actor |-> "none"]
    BY <1>1, <1>11 DEF RenameJanitor, WriteInv, Moved, Actor
  <2> QED
    BY <1>1, <1>11, <2>1, <2>2 DEF RenameJanitor, WriteInv, Actor
<1>12. ASSUME NEW a \in Actor, LoadIndex(a) PROVE WriteInv'
  <2>1. copy'[a] = NewIndex(a)
    BY <1>1, <1>12 DEF LoadIndex, NewIndex
  <2> QED
    BY <1>1, <1>12, <2>1 DEF LoadIndex, WriteInv, NewIndex, Actor, diskVars, runVars
<1>13. ASSUME NEW a \in Actor, OpenTmp(a) PROVE WriteInv'
  BY <1>1, <1>13 DEF OpenTmp, WriteInv, NewIndex, Actor, runVars
<1>14. ASSUME NEW a \in Actor, FillTmp(a) PROVE WriteInv'
  <2>1. out[a] = "tmp" /\ tmp = <<>> /\ copy[a] = NewIndex(a)
    BY <1>14 DEF FillTmp, WriteInv
  <2>2. tmp' = NewIndex(a) /\ index' = index
    BY <1>14, <2>1 DEF FillTmp, Written
  <2>3. NewIndex(a)' = NewIndex(a)
    BY <1>14, <2>2 DEF FillTmp, NewIndex
  <2>4. out' = [out EXCEPT ![a] = "none"] /\ pc' = [pc EXCEPT ![a] = "rename"] /\ pc[a] = "fill"
    BY <1>14 DEF FillTmp
  <2>5. \A b \in Actor \ {a} : pc[b] = "idle"
    BY <1>1, <2>4 DEF WriteInv, Actor
  <2> QED
    BY <1>1, <1>14, <2>2, <2>3, <2>4, <2>5 DEF FillTmp, WriteInv, Actor, runVars
<1>15. CASE CommitFails
  BY <1>1, <1>15 DEF CommitFails, WriteInv, NewIndex, Actor, diskVars
<1>16. CASE CleanupFails
  BY <1>1, <1>16 DEF CleanupFails, WriteInv, NewIndex, Actor, diskVars, runVars
<1>17. CASE LeftFades
  BY <1>1, <1>17 DEF LeftFades, WriteInv, NewIndex, Actor, diskVars
<1>21. CASE TimeoutRun
  BY <1>21 DEF TimeoutRun, WriteInv, NewIndex, diskVars, opVars
<1>18. CASE Crash
  BY <1>1, <1>18 DEF Crash, WriteInv, NewIndex, Actor, diskVars
<1>19. CASE UNCHANGED vars
  BY <1>19 DEF vars, diskVars, opVars, runVars, WriteInv, NewIndex
<1>20. CASE LeftLands
  <2>1. NewIndex("engine") # Torn /\ tmp = NewIndex("engine")
    BY <1>1, <1>20, NewIndexType DEF LeftLands, WriteInv, Actor
  <2>2. out' = [a \in Actor |-> "none"]
    BY <1>1, <1>20 DEF LeftLands, WriteInv, Moved, Actor
  <2> QED
    BY <1>1, <1>20, <2>1, <2>2 DEF LeftLands, WriteInv, Actor
<1> QED
  BY <1>2, <1>3, <1>4, <1>5, <1>6, <1>7, <1>8, <1>9, <1>10, <1>11, <1>12, <1>13, <1>14, <1>15, <1>16,
     <1>17, <1>18, <1>19, <1>20, <1>21 DEF Next, EngineStep, JanitorStep

-----------------------------------------------------------------------------
(* What is listed.                                                          *)

IdsOf(idx) == {idx[i].id : i \in 1..Len(idx)}

LEMMA AppendedFacts ==
  ASSUME NEW idx \in Seq(Info), NEW e
  PROVE  /\ Len(Append(idx, e)) = Len(idx) + 1
         /\ \A i \in 1..Len(idx) : Append(idx, e)[i] = idx[i]
         /\ Append(idx, e)[Len(idx) + 1] = e
         /\ IdsOf(Append(idx, e)) = IdsOf(idx) \cup {e.id}
<1>1. /\ Len(idx) \in Nat /\ Len(Append(idx, e)) = Len(idx) + 1
      /\ \A i \in 1..Len(idx) : Append(idx, e)[i] = idx[i]
      /\ Append(idx, e)[Len(idx) + 1] = e
  OBVIOUS
<1>2. IdsOf(Append(idx, e)) \subseteq IdsOf(idx) \cup {e.id}
  <2> SUFFICES ASSUME NEW i \in 1..(Len(idx) + 1)
               PROVE  Append(idx, e)[i].id \in IdsOf(idx) \cup {e.id}
    BY <1>1 DEF IdsOf
  <2>1. i \in 1..Len(idx) \/ i = Len(idx) + 1
    BY <1>1
  <2> QED
    BY <1>1, <2>1 DEF IdsOf
<1>3. IdsOf(idx) \cup {e.id} \subseteq IdsOf(Append(idx, e))
  <2>1. \A i \in 1..Len(idx) : i \in 1..(Len(idx) + 1)
    BY <1>1
  <2>2. Len(idx) + 1 \in 1..(Len(idx) + 1)
    BY <1>1
  <2>3. \A x \in IdsOf(idx) : x \in IdsOf(Append(idx, e))
    BY <1>1, <2>1 DEF IdsOf
  <2>4. e.id \in IdsOf(Append(idx, e))
    BY <1>1, <2>2 DEF IdsOf
  <2> QED
    BY <2>3, <2>4
<1> QED
  BY <1>1, <1>2, <1>3

LEMMA RetainedIds ==
  ASSUME NEW idx \in Seq(Info), NEW id
  PROVE  IdsOf(Retained(idx, id)) = IdsOf(idx) \ {id}
<1> DEFINE kept == Retained(idx, id)
<1>1. PICK f : Selects(f, idx, id, kept)
  BY RetainedFacts
<1> HIDE DEF kept
<1>2. IdsOf(kept) \subseteq IdsOf(idx) \ {id}
  BY <1>1 DEF Selects, IdsOf
<1>3. ASSUME NEW x \in IdsOf(idx) \ {id} PROVE x \in IdsOf(kept)
  <2>1. PICK i \in 1..Len(idx) : idx[i].id = x
    BY <1>3 DEF IdsOf
  <2>2. PICK k \in 1..Len(kept) : f[k] = i
    BY <1>1, <1>3, <2>1 DEF Selects
  <2>3. kept[k].id = x
    BY <1>1, <2>1, <2>2 DEF Selects
  <2> QED
    BY <2>2, <2>3 DEF IdsOf
<1> QED
  BY <1>2, <1>3 DEF kept

AckInv == acked \subseteq IdsOf(index) /\ \A r \in DOMAIN todo : todo[r] \notin acked

LEMMA AckInit == Init => AckInv
  BY DEF Init, AckInv

LEMMA AckStep == TypeInv /\ WriteInv /\ AckInv /\ ~Concurrent /\ [Next]_vars => AckInv'
<1> SUFFICES ASSUME TypeInv, WriteInv, AckInv, ~Concurrent, [Next]_vars PROVE AckInv'
  OBVIOUS
<1>1. index \in Seq(Info) /\ todo \in Seq(Id)
  BY DEF TypeInv, TypeOK, WriteInv
<1>2. CASE UNCHANGED <<index, todo, acked>>
  BY <1>2 DEF AckInv, IdsOf
<1>3. CASE todo' = <<>> /\ UNCHANGED <<index, acked>>
  BY <1>3 DEF AckInv, IdsOf
<1>4. ASSUME todo # <<>>, todo' = Tail(todo) PROVE \A r \in DOMAIN todo' : \E q \in DOMAIN todo : todo'[r] = todo[q]
  BY <1>1, <1>4
<1>5. CASE SkipMissing
  BY <1>4, <1>5 DEF SkipMissing, AckInv, IdsOf, diskVars
<1>6. CASE BeginCleanup
  <2>1. /\ todo' = Expired(index) /\ index' = index
        /\ acked' = acked \ {Expired(index)[r] : r \in DOMAIN Expired(index)}
    BY <1>6 DEF BeginCleanup, diskVars
  <2>2. acked' \subseteq IdsOf(index)
    BY <2>1 DEF AckInv
  <2> QED
    BY <2>1, <2>2 DEF AckInv, IdsOf
<1>7. CASE RenameJanitor
  <2>1. index' = Retained(index, Head(todo)) /\ acked' = acked /\ todo # <<>> /\ todo' = Tail(todo)
    BY <1>7 DEF RenameJanitor, WriteInv, NewIndex, Actor, TypeInv, Shape, Removing
  <2>2. IdsOf(index)' = IdsOf(index) \ {Head(todo)}
    <3>1. IdsOf(Retained(index, Head(todo))) = IdsOf(index) \ {Head(todo)}
      BY <1>1, RetainedIds
    <3> QED
      BY <2>1, <3>1 DEF IdsOf
  <2>3. Head(todo) \notin acked
    <3>1. 1 \in DOMAIN todo /\ Head(todo) = todo[1]
      BY <1>1, <2>1
    <3> QED
      BY <3>1 DEF AckInv
  <2>4. acked' \subseteq IdsOf(index)'
    BY <2>1, <2>2, <2>3 DEF AckInv
  <2> QED
    BY <1>4, <2>1, <2>4 DEF AckInv
<1>8. CASE RenameEngine
  <2>1. /\ index' = Append(index, [id |-> draftId, step |-> draft.step])
        /\ acked' = acked \cup {draftId} /\ todo' = todo
    BY <1>8 DEF RenameEngine, WriteInv, NewIndex, Actor
  <2>2. todo = <<>>
    BY <1>8 DEF RenameEngine, WriteInv
  <2>3. IdsOf(index)' = IdsOf(index) \cup {draftId}
    <3>1. IdsOf(Append(index, [id |-> draftId, step |-> draft.step])) = IdsOf(index) \cup {draftId}
      BY <1>1, AppendedFacts
    <3> QED
      BY <2>1, <3>1 DEF IdsOf
  <2>4. acked' \subseteq IdsOf(index)'
    BY <2>1, <2>3 DEF AckInv
  <2> QED
    BY <2>1, <2>2, <2>4 DEF AckInv
<1>9. CASE StartRun \/ Work \/ EndRun \/ FindParent \/ WriteFile \/ RemoveFile \/ CleanupDone
  BY <1>2, <1>9 DEF StartRun, Work, EndRun, FindParent, WriteFile, RemoveFile, CleanupDone, diskVars,
                    opVars
<1>10. ASSUME NEW kind \in {"halt", "step"}, BeginCommit(kind) PROVE AckInv'
  BY <1>2, <1>10 DEF BeginCommit, diskVars
<1>11. ASSUME NEW a \in Actor, LoadIndex(a) \/ OpenTmp(a) PROVE AckInv'
  BY <1>2, <1>11 DEF LoadIndex, OpenTmp, diskVars
<1>12. ASSUME NEW a \in Actor, FillTmp(a) PROVE AckInv'
  <2>1. out[a] = "tmp"
    BY <1>12 DEF FillTmp, WriteInv
  <2> QED
    BY <1>2, <1>12, <2>1 DEF FillTmp
<1>13. CASE CommitFails \/ TimeoutRun \/ LeftFades
  BY <1>2, <1>13 DEF CommitFails, TimeoutRun, LeftFades, diskVars, opVars
<1>14. CASE CleanupFails \/ Crash
  BY <1>3, <1>14 DEF CleanupFails, Crash, diskVars
<1>15. CASE UNCHANGED vars
  BY <1>2, <1>15 DEF vars, diskVars, opVars
<1>16. CASE LeftLands
  <2>1. /\ index' = Append(index, [id |-> draftId, step |-> draft.step])
        /\ acked' = acked /\ todo' = todo /\ todo = <<>>
    BY <1>16 DEF LeftLands, WriteInv, NewIndex, Actor
  <2>2. IdsOf(Append(index, [id |-> draftId, step |-> draft.step])) = IdsOf(index) \cup {draftId}
    BY <1>1, AppendedFacts
  <2> QED
    BY <2>1, <2>2 DEF AckInv, IdsOf
<1> QED
  BY <1>5, <1>6, <1>7, <1>8, <1>9, <1>10, <1>11, <1>12, <1>13, <1>14, <1>15, <1>16
     DEF Next, EngineStep, JanitorStep

\* When no cleanup overlaps a save, a checkpoint whose save returned Ok stays
\* listed until a cleanup picks it, through crashes and failed operations.
THEOREM AcknowledgedStay == ~Concurrent => (Spec => []AckedAreListed)
<1> SUFFICES ASSUME ~Concurrent PROVE Spec => []AckedAreListed
  OBVIOUS
<1>1. TypeInv /\ WriteInv /\ AckInv => AckedAreListed
  <2> SUFFICES ASSUME WriteInv, AckInv PROVE AckedAreListed
    OBVIOUS
  <2>1. index # Torn
    BY DEF WriteInv
  <2>2. ASSUME NEW id \in acked PROVE \E i \in 1..Len(index) : index[i].id = id
    BY <2>2 DEF AckInv, IdsOf
  <2> QED
    BY <2>1, <2>2 DEF AckedAreListed
<1>2. Init => WriteInv /\ AckInv
  BY WriteInit, AckInit
<1>3. TypeInv /\ WriteInv /\ AckInv /\ [Next]_vars => (WriteInv /\ AckInv)'
  BY WriteStep, AckStep
<1> QED
  BY <1>1, <1>2, <1>3, TypeInit, TypeStep, PTL DEF Spec

-----------------------------------------------------------------------------
(* An index in the order of the saves.                                      *)

\* Ids grow, step numbers do not shrink, and at most two neighbours share one:
\* the checkpoint of a halt and that of the step that resumes it.
InOrder(idx) ==
  /\ \A i, j \in 1..Len(idx) : i < j => idx[i].id < idx[j].id /\ idx[i].step <= idx[j].step
  /\ \A i, j, k \in 1..Len(idx) : i < j /\ j < k => idx[i].step < idx[k].step

LEMMA LatestIsLast ==
  ASSUME NEW idx \in Seq(Info), idx # <<>>, InOrder(idx)
  PROVE  Len(idx) \in 1..Len(idx) /\ LatestId(idx) = idx[Len(idx)].id
<1> DEFINE n == Len(idx)
           l == LatestEntry(idx)
<1>1. /\ n \in Nat /\ n # 0
      /\ \A i \in 1..n : idx[i].step \in Int
  BY IndexFacts, EmptySeq
<1>2. /\ l \in 1..n
      /\ \A j \in 1..n : idx[j].step < idx[l].step \/ (idx[j].step = idx[l].step /\ j <= l)
      /\ LatestId(idx) = idx[l].id
  BY LatestFacts
<1>3. n \in 1..n
  BY <1>1
<1> HIDE DEF n, l
<1>4. ~(l < n)
  <2> SUFFICES ASSUME l < n PROVE FALSE
    OBVIOUS
  <2>1. idx[l].step <= idx[n].step
    BY <1>2, <1>3 DEF InOrder, n
  <2>2. idx[n].step < idx[l].step \/ n <= l
    BY <1>2, <1>3
  <2> QED
    BY <1>1, <1>2, <1>3, <2>1, <2>2
<1>5. l = n
  BY <1>1, <1>2, <1>4
<1> QED
  BY <1>2, <1>3, <1>5 DEF n

LEMMA AppendedInOrder ==
  ASSUME NEW idx \in Seq(Info), InOrder(idx), NEW e \in Info,
         \A i \in 1..Len(idx) : idx[i].id < e.id /\ idx[i].step <= e.step,
         \A i, j \in 1..Len(idx) : i < j => idx[i].step < e.step
  PROVE  InOrder(Append(idx, e)) /\ LatestId(Append(idx, e)) = e.id
<1> DEFINE n == Len(idx)
           new == Append(idx, e)
<1>1. /\ n \in Nat /\ Len(new) = n + 1 /\ new[n + 1] = e /\ new \in Seq(Info)
      /\ \A i \in 1..n : new[i] = idx[i]
  BY AppendedFacts, IndexFacts, AppendProperties
<1>2. \A i \in 1..(n + 1) : i \in 1..n \/ i = n + 1
  BY <1>1
<1> HIDE DEF new
<1>3. \A i, j \in 1..(n + 1) : i < j => new[i].id < new[j].id /\ new[i].step <= new[j].step
  <2> SUFFICES ASSUME NEW i \in 1..(n + 1), NEW j \in 1..(n + 1), i < j
               PROVE  new[i].id < new[j].id /\ new[i].step <= new[j].step
    OBVIOUS
  <2>1. i \in 1..n
    BY <1>1
  <2>2. CASE j \in 1..n
    BY <1>1, <2>1, <2>2 DEF InOrder
  <2>3. CASE j = n + 1
    BY <1>1, <2>1, <2>3
  <2> QED
    BY <1>2, <2>2, <2>3
<1>4. \A i, j, k \in 1..(n + 1) : i < j /\ j < k => new[i].step < new[k].step
  <2> SUFFICES ASSUME NEW i \in 1..(n + 1), NEW j \in 1..(n + 1), NEW k \in 1..(n + 1),
                      i < j, j < k
               PROVE  new[i].step < new[k].step
    OBVIOUS
  <2>1. i \in 1..n /\ j \in 1..n
    BY <1>1
  <2>2. CASE k \in 1..n
    BY <1>1, <2>1, <2>2 DEF InOrder
  <2>3. CASE k = n + 1
    BY <1>1, <2>1, <2>3
  <2> QED
    BY <1>2, <2>2, <2>3
<1>5. InOrder(new)
  BY <1>1, <1>3, <1>4 DEF InOrder
<1>6. new # <<>>
  BY <1>1, EmptySeq
<1>7. LatestId(new) = new[n + 1].id
  BY <1>1, <1>5, <1>6, LatestIsLast
<1> QED
  BY <1>1, <1>5, <1>7 DEF new

LEMMA RetainedInOrder ==
  ASSUME NEW idx \in Seq(Info), InOrder(idx), NEW id
  PROVE  /\ InOrder(Retained(idx, id))
         /\ \A k \in 1..Len(Retained(idx, id)) :
              \E i \in 1..Len(idx) : Retained(idx, id)[k] = idx[i]
         /\ \A k, l \in 1..Len(Retained(idx, id)) : k < l =>
              \E i, j \in 1..Len(idx) : i < j /\ Retained(idx, id)[k] = idx[i]
                                              /\ Retained(idx, id)[l] = idx[j]
<1> DEFINE kept == Retained(idx, id)
           m == Len(kept)
           n == Len(idx)
<1>1. PICK f : Selects(f, idx, id, kept)
  BY RetainedFacts
<1>2. kept \in Seq(Info) /\ m \in Nat /\ n \in Nat
  BY RetainedFacts, IndexFacts
<1> HIDE DEF kept
<1>3. /\ \A k \in 1..m : f[k] \in 1..n /\ kept[k] = idx[f[k]]
      /\ \A k, l \in 1..m : k < l => f[k] < f[l]
      /\ \A i \in 1..n : idx[i].id # id => \E k \in 1..m : f[k] = i
  BY <1>1 DEF Selects
<1>4. InOrder(kept)
  <2>1. \A k, l \in 1..m : k < l => kept[k].id < kept[l].id /\ kept[k].step <= kept[l].step
    BY <1>3 DEF InOrder
  <2>2. ASSUME NEW k \in 1..m, NEW l \in 1..m, NEW o \in 1..m, k < l, l < o
        PROVE  kept[k].step < kept[o].step
    <3>1. f[k] < f[l] /\ f[l] < f[o]
      BY <1>3, <2>2
    <3>2. f[k] \in 1..n /\ f[l] \in 1..n /\ f[o] \in 1..n
      BY <1>3
    <3>3. idx[f[k]].step < idx[f[o]].step
      BY <3>1, <3>2 DEF InOrder
    <3> QED
      BY <1>3, <3>3
  <2> QED
    BY <2>1, <2>2 DEF InOrder
<1>5. \A k, l \in 1..m : k < l => \E i, j \in 1..n : i < j /\ kept[k] = idx[i] /\ kept[l] = idx[j]
  BY <1>3
<1> QED
  BY <1>3, <1>4, <1>5 DEF kept

LEMMA RetainedLatest ==
  ASSUME NEW idx \in Seq(Info), InOrder(idx), NEW id, idx # <<>>, id # LatestId(idx)
  PROVE  Retained(idx, id) # <<>> /\ LatestId(Retained(idx, id)) = LatestId(idx)
<1> DEFINE kept == Retained(idx, id)
           m == Len(kept)
           n == Len(idx)
<1>1. PICK f : Selects(f, idx, id, kept)
  BY RetainedFacts
<1>2. kept \in Seq(Info) /\ m \in Nat /\ n \in Nat /\ InOrder(kept)
  BY RetainedFacts, IndexFacts, RetainedInOrder
<1> HIDE DEF kept
<1>3. /\ \A k \in 1..m : f[k] \in 1..n /\ kept[k] = idx[f[k]]
      /\ \A k, l \in 1..m : k < l => f[k] < f[l]
      /\ \A i \in 1..n : idx[i].id # id => \E k \in 1..m : f[k] = i
  BY <1>1 DEF Selects
<1>4. n \in 1..n /\ LatestId(idx) = idx[n].id
  BY LatestIsLast
<1>5. PICK k \in 1..m : f[k] = n
  BY <1>3, <1>4
<1>6. k = m
  <2> SUFFICES ASSUME k # m PROVE FALSE
    OBVIOUS
  <2>1. m \in 1..m /\ k < m
    BY <1>2
  <2>2. f[k] < f[m] /\ f[m] \in 1..n
    BY <1>3, <2>1
  <2> QED
    BY <1>2, <1>5, <2>2
<1>7. kept # <<>>
  BY <1>2, <1>5, EmptySeq
<1>8. LatestId(kept) = kept[m].id
  BY <1>2, <1>7, LatestIsLast
<1> QED
  BY <1>3, <1>4, <1>5, <1>6, <1>7, <1>8 DEF kept

\* With two or more to keep, a cleanup never picks the latest checkpoint: at
\* most one other entry is sorted before it.
LEMMA ExpiredAreOlder ==
  ASSUME NEW idx \in Seq(Info), InOrder(idx), MaxCheckpoints >= 2, Len(idx) > MaxCheckpoints
  PROVE  idx # <<>> /\ \A r \in DOMAIN Expired(idx) : Expired(idx)[r] # LatestId(idx)
<1> DEFINE n == Len(idx)
<1>1. /\ n \in Nat /\ MaxCheckpoints \in Nat
      /\ \A i \in 1..n : idx[i].step \in Int /\ idx[i].id \in Int
  BY IndexFacts, StoreAssumption DEF Id
<1>2. idx # <<>>
  BY <1>1, EmptySeq
<1>3. n \in 1..n /\ LatestId(idx) = idx[n].id
  BY <1>2, LatestIsLast
<1>4. Rank(idx, n) <= 1
  <2> DEFINE T == {j \in 1..n : \/ idx[j].step > idx[n].step
                                \/ idx[j].step = idx[n].step /\ j < n}
  <2>1. T \subseteq {n - 1}
    <3> SUFFICES ASSUME NEW j \in T, j # n - 1 PROVE FALSE
      OBVIOUS
    <3>1. j \in 1..n /\ j < n
      BY <1>1, <1>3 DEF InOrder
    <3>2. n - 1 \in 1..n /\ j < n - 1 /\ n - 1 < n
      BY <1>1, <3>1
    <3>3. idx[j].step < idx[n].step
      BY <1>3, <3>1, <3>2 DEF InOrder
    <3> QED
      BY <1>1, <1>3, <3>1, <3>3
  <2>2. IsFiniteSet({n - 1}) /\ Cardinality({n - 1}) = 1
    BY FS_Singleton
  <2>3. Cardinality(T) <= 1
    BY <2>1, <2>2, FS_Subset
  <2> QED
    BY <2>3 DEF Rank
<1>5. ASSUME NEW r \in DOMAIN Expired(idx) PROVE Expired(idx)[r] # LatestId(idx)
  <2>1. PICK i \in 1..n : Expired(idx)[r] = idx[i].id /\ Rank(idx, i) >= MaxCheckpoints
    BY ExpiredFacts
  <2>2. i # n
    <3> SUFFICES ASSUME i = n PROVE FALSE
      OBVIOUS
    <3>1. Rank(idx, n) \in Nat
      <4>1. IsFiniteSet({j \in 1..n : \/ idx[j].step > idx[n].step
                                      \/ idx[j].step = idx[n].step /\ j < n})
        <5> DEFINE T == {j \in 1..n : \/ idx[j].step > idx[n].step
                                      \/ idx[j].step = idx[n].step /\ j < n}
        <5>1. T \subseteq 1..n /\ IsFiniteSet(1..n)
          BY IndexFacts
        <5> HIDE DEF T
        <5>2. IsFiniteSet(T)
          BY <5>1, FS_Subset
        <5> QED
          BY <5>2 DEF T
      <4> QED
        BY <4>1, FS_CardinalityType DEF Rank
    <3> QED
      BY <1>1, <1>4, <2>1, <3>1
  <2>3. idx[i].id < idx[n].id
    BY <1>1, <1>3, <2>2 DEF InOrder
  <2> QED
    BY <1>1, <1>3, <2>1, <2>3
<1> QED
  BY <1>2, <1>5

-----------------------------------------------------------------------------
(* Cleanups that overlap saves.                                             *)

TmpLive == alive \/ pc["janitor"] \in {"fill", "rename"}

\* All that can become the index: the index, what the actors are about to write
\* and, once somebody may rename it, the temporary file.
Versions ==
  ({index} \cup {copy[a] : a \in Actor} \cup (IF TmpLive THEN {tmp} ELSE {})) \ {Torn, NoFile}

\* Nothing but the checkpoint that is being saved has the step of the run twice.
Timely(v) ==
  /\ \A i \in 1..Len(v) : v[i].step <= step
  /\ \A i, j \in 1..Len(v) : i < j /\ v[j].id # draftId => v[i].step < step
  /\ (halted <=> pc["engine"] # "idle") =>
       \A i \in 1..Len(v) : v[i].id # draftId => v[i].step < step

Loads(v) ==
  v # <<>> => files[LatestId(v)] # Missing /\ \A r \in DOMAIN todo : todo[r] # LatestId(v)

Sound(v) ==
  /\ InOrder(v)
  /\ \A i \in 1..Len(v) : v[i].id <= issued
  /\ alive => Timely(v)
  /\ Loads(v)

EndsInDraft(v) == v # <<>> /\ v[Len(v)].id = draftId

\* A new id is in no version and on no list before the engine has read the index.
FreshInv ==
  /\ pc["engine"] \in {"idle", "list", "file"} => draftId = NoId
  /\ pc["engine"] # "idle" => draft.step = step
  /\ Saving => draftId = issued
  /\ \A r \in DOMAIN todo : todo[r] <= issued
  /\ pc["engine"] = "load" =>
       /\ files[draftId] # Missing /\ \A r \in DOMAIN todo : todo[r] # draftId
       /\ \A v \in Versions : \A i \in 1..Len(v) : v[i].id # draftId

\* Whatever an idle janitor may find in the temporary file is from this save.
TmpInv ==
  /\ \A a \in Actor : pc[a] \notin {"open", "fill"} => copy[a] = <<>>
  /\ pc["engine"] \in {"open", "fill"} => EndsInDraft(copy["engine"])
  /\ pc["janitor"] = "idle" => todo = <<>>
  /\ alive /\ pc["janitor"] \notin {"fill", "rename"} =>
       \/ tmp \in {Torn, NoFile, <<>>}
       \/ pc["engine"] = "rename" /\ EndsInDraft(tmp)
  /\ started \in {0, 1} /\ (alive => started = 1)
  /\ started = 0 => index = <<>> /\ tmp = NoFile /\ \A a \in Actor : pc[a] = "idle"

OverlapInv == (\A v \in Versions : Sound(v)) /\ FreshInv /\ TmpInv

LEMMA VersionType == TypeInv => \A v \in Versions : v \in Seq(Info)
  BY DEF TypeInv, TypeOK, Versions

LEMMA VersionSteps ==
  ASSUME MaxRuns <= 1, TypeInv, TmpInv, [Next]_vars
  PROVE  \A v \in Versions' : \/ v \in Versions \cup {<<>>}
                               \/ \E a \in Actor : LoadIndex(a) /\ v = copy'[a]
<1>1. /\ pc \in [Actor -> {"idle", "list", "file", "remove", "load", "open", "fill", "rename"}]
      /\ copy \in [Actor -> Seq(Info)] /\ (pc["engine"] # "idle" => alive)
  BY DEF TypeInv, TypeOK, Shape
<1>2. ASSUME index' \in {index, tmp, Torn} \cup {copy[a] : a \in Actor},
             index' = tmp => TmpLive \/ index' = index,
             tmp' \in {tmp, Torn, NoFile, <<>>} \cup {copy[a] : a \in Actor},
             TmpLive' => TmpLive \/ tmp' # tmp,
             \A a \in Actor : copy'[a] \in {copy[a], <<>>}
      PROVE  \A v \in Versions' : v \in Versions \cup {<<>>}
  BY <1>2 DEF Versions
<1>3. CASE StartRun
  <2>1. index' = <<>> /\ tmp' = NoFile /\ \A a \in Actor : copy'[a] = <<>>
    <3>1. started = 0
      BY <1>3, StoreAssumption DEF StartRun, TmpInv
    <3> QED
      BY <1>3, <3>1 DEF StartRun, TmpInv, diskVars
  <2> QED
    BY <2>1 DEF Versions
<1>4. CASE Work \/ FindParent \/ WriteFile \/ EndRun \/ CommitFails \/ TimeoutRun \/ LeftFades
  <2>1. /\ UNCHANGED <<index, tmp>> /\ (alive' => alive) /\ pc'["janitor"] = pc["janitor"]
        /\ \A a \in Actor : copy'[a] \in {copy[a], <<>>}
    BY <1>1, <1>4 DEF Work, FindParent, WriteFile, EndRun, CommitFails, TimeoutRun, LeftFades, LeftLands, StepOver, diskVars,
                      opVars, runVars, Actor
  <2> QED
    BY <1>2, <2>1 DEF TmpLive
<1>5. ASSUME NEW kind \in {"halt", "step"}, BeginCommit(kind)
      PROVE  \A v \in Versions' : v \in Versions \cup {<<>>}
  BY <1>1, <1>2, <1>5 DEF BeginCommit, TmpLive, diskVars, Actor
<1>6. CASE BeginCleanup \/ SkipMissing \/ RemoveFile \/ CleanupDone \/ CleanupFails \/ Crash
  <2>1. /\ UNCHANGED <<index, tmp>> /\ (alive' => alive) /\ pc'["janitor"] \notin {"fill", "rename"}
        /\ \A a \in Actor : copy'[a] \in {copy[a], <<>>}
    <3>1. CASE BeginCleanup \/ SkipMissing \/ CleanupDone \/ RemoveFile
      BY <1>1, <3>1 DEF BeginCleanup, SkipMissing, RemoveFile, CleanupDone, diskVars, runVars, Actor
    <3>2. CASE CleanupFails \/ Crash
      BY <1>1, <3>2 DEF CleanupFails, Crash, diskVars, runVars, Actor
    <3> QED
      BY <1>6, <3>1, <3>2
  <2> QED
    BY <1>2, <2>1 DEF TmpLive
<1>7. CASE RenameEngine \/ LeftLands \/ RenameJanitor
  <2>1. /\ index' = tmp /\ tmp' = NoFile /\ TmpLive /\ copy' = copy
    BY <1>1, <1>7 DEF RenameEngine, LeftLands, RenameJanitor, TmpLive
  <2> QED
    BY <1>2, <2>1
<1>8. ASSUME NEW a \in Actor, OpenTmp(a)
      PROVE  \A v \in Versions' : v \in Versions \cup {<<>>}
  <2>1. UNCHANGED <<index, copy>> /\ tmp' = <<>>
    BY <1>8 DEF OpenTmp
  <2> QED
    BY <2>1 DEF Versions
<1>9. ASSUME NEW a \in Actor, FillTmp(a)
      PROVE  \A v \in Versions' : v \in Versions \cup {<<>>}
  <2>1. /\ TmpLive' => TmpLive
        /\ \A b \in Actor : copy'[b] \in {copy[b], <<>>}
    BY <1>1, <1>9 DEF FillTmp, TmpLive, runVars, Actor
  <2>2. index' \in {index, copy[a], Torn} /\ tmp' \in {tmp, copy[a], Torn}
    BY <1>9 DEF FillTmp, Written
  <2> QED
    BY <2>1, <2>2 DEF Versions
<1>10. ASSUME NEW a \in Actor, LoadIndex(a)
       PROVE  \A v \in Versions' : v \in Versions \/ v = copy'[a]
  <2>1. /\ UNCHANGED <<index, tmp, alive>> /\ \A b \in Actor \ {a} : copy'[b] = copy[b]
        /\ (TmpLive' => TmpLive)
    BY <1>1, <1>10 DEF LoadIndex, TmpLive, diskVars, runVars, Actor
  <2> QED
    BY <2>1 DEF Versions
<1>11. CASE UNCHANGED vars
  BY <1>11 DEF vars, diskVars, opVars, runVars, Versions, TmpLive
<1> QED
  BY <1>3, <1>4, <1>5, <1>6, <1>7, <1>8, <1>9, <1>10, <1>11 DEF Next, EngineStep, JanitorStep

\* A version stays sound as long as its latest file and its place in time do.
LEMMA SoundFrame ==
  ASSUME NEW v \in Seq(Info), Sound(v), issued \in Int, issued' \in Int, issued <= issued',
         alive' => /\ alive /\ step' = step /\ draftId' = draftId
                   /\ (halted' <=> pc'["engine"] # "idle") <=> (halted <=> pc["engine"] # "idle"),
         v # <<>> => files'[LatestId(v)] = files[LatestId(v)],
         \A r \in DOMAIN todo' : \E q \in DOMAIN todo : todo'[r] = todo[q]
  PROVE  Sound(v)'
<1>1. InOrder(v)' /\ Loads(v)'
  BY DEF Sound, InOrder, Loads
<1>2. \A i \in 1..Len(v) : v[i].id <= issued'
  <2>1. \A i \in 1..Len(v) : v[i].id \in Int /\ v[i].id <= issued
    BY IndexFacts DEF Sound, Id
  <2> QED
    BY <2>1
<1>3. alive' => Timely(v)'
  BY DEF Sound, Timely
<1> QED
  BY <1>1, <1>2, <1>3 DEF Sound

\* After a save, or a failed one, the run is past what it has listed.
LEMMA SoundStepOver ==
  ASSUME NEW v \in Seq(Info), Sound(v), alive, pc["engine"] # "idle", pc'["engine"] = "idle",
         step \in Int, halted \in BOOLEAN, StepOver, draftId' = NoId, files' = files, todo' = todo
  PROVE  Sound(v)'
<1>1. InOrder(v)' /\ Loads(v)' /\ Timely(v) /\ InOrder(v) /\ \A i \in 1..Len(v) : v[i].id <= issued'
  BY DEF Sound, InOrder, Loads, StepOver
<1>2. \A i \in 1..Len(v) : v[i].step \in Int /\ v[i].id \in Int
  BY IndexFacts DEF Id
<1>3. CASE ~halted
  <2>1. step' = step + 1
    BY <1>3 DEF StepOver
  <2>2. \A i \in 1..Len(v) : v[i].step < step' /\ v[i].step <= step'
    BY <1>1, <1>2, <2>1 DEF Timely
  <2>3. Timely(v)'
    BY <2>2 DEF Timely
  <2> QED
    BY <1>1, <2>3 DEF Sound
<1>4. CASE halted
  <2>1. step' = step /\ halted'
    BY <1>4 DEF StepOver
  <2>2. \A i, j \in 1..Len(v) : i < j => v[i].step < step
    <3> SUFFICES ASSUME NEW i \in 1..Len(v), NEW j \in 1..Len(v), i < j PROVE v[i].step < step
      OBVIOUS
    <3>1. CASE v[j].id # draftId
      BY <1>1, <3>1 DEF Timely
    <3>2. CASE v[j].id = draftId
      <4>1. v[i].id # draftId
        BY <1>1, <1>2, <3>2 DEF InOrder
      <4> QED
        BY <1>1, <1>4, <4>1 DEF Timely
    <3> QED
      BY <3>1, <3>2
  <2>3. Timely(v)'
    <3>1. \A i \in 1..Len(v) : v[i].step <= step'
      BY <1>1, <2>1 DEF Timely
    <3>2. ~(halted' <=> pc'["engine"] # "idle")
      BY <2>1
    <3> QED
      BY <2>1, <2>2, <3>1, <3>2 DEF Timely
  <2> QED
    BY <1>1, <2>3 DEF Sound
<1> QED
  BY <1>3, <1>4

LEMMA EmptySound == InOrder(<<>>) /\ Sound(<<>>)'
<1>1. Len(<<>>) = 0
  OBVIOUS
<1> QED
  BY <1>1 DEF Sound, InOrder, Timely, Loads

LEMMA SoundKept ==
  ASSUME TypeInv, OverlapInv, MaxCheckpoints >= 2, [Next]_vars, NEW v \in Versions
  PROVE  Sound(v)' \/ StartRun
<1>1. /\ pc \in [Actor -> {"idle", "list", "file", "remove", "load", "open", "fill", "rename"}]
      /\ issued \in Int /\ step \in Int /\ halted \in BOOLEAN /\ todo \in Seq(Id)
      /\ files \in [Id -> Checkpoint \cup {Missing}] /\ (pc["engine"] # "idle" => alive)
  BY StoreAssumption DEF TypeInv, TypeOK, Shape, Step
<1>2. v \in Seq(Info) /\ Sound(v) /\ FreshInv /\ TmpInv
  BY VersionType DEF OverlapInv
<1>3. v # <<>> => LatestId(v) \in Id /\ LatestId(v) <= issued
  <2> SUFFICES ASSUME v # <<>> PROVE LatestId(v) \in Id /\ LatestId(v) <= issued
    OBVIOUS
  <2>1. LatestId(v) = v[LatestEntry(v)].id /\ LatestEntry(v) \in 1..Len(v) /\ LatestId(v) \in Id
    BY <1>2, LatestFacts
  <2> QED
    BY <1>2, <2>1 DEF Sound
<1>4. ASSUME todo # <<>>, todo' = Tail(todo)
      PROVE  \A r \in DOMAIN todo' : \E q \in DOMAIN todo : todo'[r] = todo[q]
  BY <1>1, <1>4
<1>5. CASE /\ UNCHANGED <<issued, files>> /\ (todo' = todo \/ todo' = <<>>)
           /\ alive' => /\ alive /\ step' = step /\ draftId' = draftId /\ halted' = halted
                        /\ (pc'["engine"] = "idle" <=> pc["engine"] = "idle")
  BY <1>1, <1>2, <1>5, SoundFrame
<1>6. CASE Work \/ EndRun \/ FindParent
  BY <1>1, <1>5, <1>6 DEF Work, EndRun, FindParent, diskVars, opVars, runVars, Actor
<1>7. ASSUME NEW kind \in {"halt", "step"}, BeginCommit(kind) PROVE Sound(v)'
  <2>1. /\ UNCHANGED <<issued, files, todo, alive, step>> /\ draftId' = draftId /\ pc["engine"] = "idle"
        /\ pc'["engine"] # "idle" /\ (kind = "halt" => ~halted) /\ (halted' <=> kind = "halt")
    BY <1>1, <1>2, <1>7 DEF BeginCommit, FreshInv, diskVars, Actor
  <2>2. (alive => Timely(v)')
    BY <1>2, <2>1 DEF Sound, Timely
  <2> QED
    BY <1>2, <2>1, <2>2 DEF Sound, InOrder, Loads
<1>8. CASE WriteFile
  <2>1. /\ UNCHANGED <<todo, alive, step, halted>> /\ draftId' = issued + 1 /\ issued' = issued + 1
        /\ files' = [files EXCEPT ![issued + 1] = draft] /\ pc["engine"] = "file"
        /\ pc'["engine"] = "load"
    BY <1>1, <1>8 DEF WriteFile, Actor
  <2>2. \A i \in 1..Len(v) : v[i].id # draftId /\ v[i].id # draftId' /\ v[i].id <= issued'
    <3>1. draftId = NoId
      BY <1>2, <2>1 DEF FreshInv
    <3>2. \A i \in 1..Len(v) : v[i].id \in Id /\ v[i].id <= issued
      BY <1>2, IndexFacts DEF Sound
    <3> QED
      BY <1>1, <2>1, <3>1, <3>2 DEF Id, NoId
  <2>3. v # <<>> => files'[LatestId(v)] = files[LatestId(v)]
    BY <1>1, <1>3, <2>1
  <2>4. alive => Timely(v)'
    BY <1>2, <2>1, <2>2 DEF Sound, Timely
  <2>5. Loads(v)'
    BY <1>2, <2>1, <2>3 DEF Sound, Loads
  <2> QED
    BY <1>2, <2>1, <2>2, <2>4, <2>5 DEF Sound, InOrder
<1>9. CASE RenameEngine
  <2>1. /\ StepOver /\ pc["engine"] # "idle" /\ pc'["engine"] = "idle" /\ draftId' = NoId
        /\ UNCHANGED <<files, todo>>
    BY <1>1, <1>9 DEF RenameEngine, Actor
  <2> QED
    BY <1>1, <1>2, <2>1, SoundStepOver
<1>10. CASE CommitFails
  <2>1. /\ StepOver /\ pc["engine"] # "idle" /\ pc'["engine"] = "idle" /\ draftId' = NoId
        /\ UNCHANGED <<files, todo>>
    <3>1. pc["engine"] # "idle"
      BY <1>10 DEF CommitFails, Fails
    <3> QED
      BY <1>1, <1>10, <3>1 DEF CommitFails, diskVars, Actor
  <2> QED
    BY <1>1, <1>2, <2>1, SoundStepOver
<1>11. CASE BeginCleanup
  <2>1. /\ UNCHANGED <<files, issued, alive, step, draftId, halted, index>> /\ todo' = Expired(index)
        /\ pc'["engine"] = pc["engine"] /\ pc["janitor"] = "idle" /\ index # Torn
        /\ Len(index) > MaxCheckpoints
    BY <1>1, <1>11 DEF BeginCleanup, diskVars, runVars, Actor
  <2>2. index \in Versions /\ index \in Seq(Info)
    BY <2>1, TornIsNoSequence DEF Versions, TypeInv, TypeOK
  <2>3. InOrder(index) /\ \A i \in 1..Len(index) : index[i].id <= issued
    BY <2>2 DEF OverlapInv, Sound
  <2>4. /\ index # <<>> /\ \A r \in DOMAIN Expired(index) : Expired(index)[r] # LatestId(index)
        /\ \A r \in DOMAIN Expired(index) :
              \E i \in 1..Len(index) : Expired(index)[r] = index[i].id
    BY <2>1, <2>2, <2>3, ExpiredAreOlder, ExpiredFacts
  <2>5. v # <<>> => \A r \in DOMAIN Expired(index) : Expired(index)[r] # LatestId(v)
    <3> SUFFICES ASSUME v # <<>>, NEW r \in DOMAIN Expired(index), Expired(index)[r] = LatestId(v)
                 PROVE  FALSE
      OBVIOUS
    <3>1. v # index
      BY <2>4
    <3>2. copy["janitor"] = <<>>
      BY <2>1 DEF TmpInv, OverlapInv, Actor
    <3>3. EndsInDraft(v) /\ Saving
      <4>1. v = copy["engine"] \/ (v = tmp /\ TmpLive /\ v \notin {Torn, NoFile})
        BY <3>1, <3>2 DEF Versions, Actor
      <4>2. CASE v = copy["engine"]
        BY <1>2, <4>2 DEF TmpInv, Actor, Saving
      <4>3. CASE v = tmp /\ TmpLive /\ v \notin {Torn, NoFile}
        BY <1>2, <2>1, <4>3 DEF TmpInv, TmpLive, Saving
      <4> QED
        BY <4>1, <4>2, <4>3
    <3>4. LatestId(v) = draftId /\ draftId = issued
      <4>1. LatestId(v) = v[Len(v)].id
        BY <1>2, LatestIsLast DEF Sound
      <4> QED
        BY <1>2, <3>3, <4>1 DEF EndsInDraft, FreshInv
    <3>5. PICK i \in 1..Len(index) : index[i].id = issued
      BY <2>4, <3>4
    <3>6. Len(index) \in 1..Len(index) /\ LatestId(index) = index[Len(index)].id
      BY <2>2, <2>3, <2>4, LatestIsLast
    <3>7. i = Len(index)
      <4>1. \A j \in 1..Len(index) : index[j].id \in Int
        BY <2>2, IndexFacts DEF Id
      <4>2. i < Len(index) => index[i].id < index[Len(index)].id
        BY <2>3, <3>6 DEF InOrder
      <4>3. index[Len(index)].id <= issued
        BY <2>3, <3>6
      <4>4. ~(i < Len(index))
        BY <1>1, <3>5, <3>6, <4>1, <4>2, <4>3
      <4>5. Len(index) \in Nat
        BY <2>2, IndexFacts
      <4> QED
        BY <3>5, <4>4, <4>5
    <3> QED
      BY <2>4, <3>4, <3>5, <3>6, <3>7
  <2>6. Loads(v)'
    BY <1>2, <2>1, <2>5 DEF Sound, Loads
  <2>7. alive => Timely(v)'
    BY <1>2, <2>1 DEF Sound, Timely
  <2> QED
    BY <1>2, <2>1, <2>6, <2>7 DEF Sound, InOrder
<1>12. CASE SkipMissing \/ RenameJanitor
  <2>1. /\ UNCHANGED <<files, issued, alive, step, draftId, halted>> /\ pc'["engine"] = pc["engine"]
        /\ todo # <<>> /\ todo' = Tail(todo)
    BY <1>1, <1>12 DEF SkipMissing, RenameJanitor, diskVars, runVars, Actor, TypeInv, Shape, Removing
  <2> QED
    BY <1>1, <1>2, <1>4, <2>1, SoundFrame
<1>13. CASE RemoveFile
  <2>1. /\ UNCHANGED <<todo, issued, alive, step, draftId, halted>> /\ pc'["engine"] = pc["engine"]
        /\ todo # <<>> /\ files' = [files EXCEPT ![Head(todo)] = Missing]
    BY <1>1, <1>13 DEF RemoveFile, runVars, Actor
  <2>2. v # <<>> => files'[LatestId(v)] = files[LatestId(v)]
    <3>1. 1 \in DOMAIN todo /\ Head(todo) = todo[1]
      BY <1>1, <2>1
    <3> QED
      BY <1>1, <1>2, <1>3, <2>1, <3>1 DEF Sound, Loads
  <2> QED
    BY <1>1, <1>2, <2>1, <2>2, SoundFrame
<1>14. CASE CleanupDone \/ CleanupFails \/ TimeoutRun \/ LeftFades \/ LeftLands \/ Crash
  BY <1>1, <1>5, <1>14 DEF opVars, CleanupDone, CleanupFails, TimeoutRun, LeftFades, LeftLands, Crash, diskVars, runVars, Actor
<1>15. ASSUME NEW a \in Actor, LoadIndex(a) \/ OpenTmp(a) \/ FillTmp(a) PROVE Sound(v)'
  <2>1. UNCHANGED <<files, issued, todo, step, draftId>> /\ (alive' <=> alive) /\ halted' = halted
    BY <1>15 DEF LoadIndex, OpenTmp, FillTmp, diskVars, runVars
  <2>2. pc'["engine"] = "idle" <=> pc["engine"] = "idle"
    BY <1>1, <1>15 DEF LoadIndex, OpenTmp, FillTmp, Actor
  <2>3. \A r \in DOMAIN todo' : \E q \in DOMAIN todo : todo'[r] = todo[q]
    BY <2>1
  <2> QED
    BY <1>1, <1>2, <2>1, <2>2, <2>3, SoundFrame
<1>16. CASE UNCHANGED vars
  BY <1>5, <1>16 DEF vars, diskVars, opVars, runVars
<1> QED
  BY <1>6, <1>7, <1>8, <1>9, <1>10, <1>11, <1>12, <1>13, <1>14, <1>15, <1>16
     DEF Next, EngineStep, JanitorStep

\* The index that the engine is about to write ends in the checkpoint it saves.
LEMMA AppendedSound ==
  ASSUME TypeInv, OverlapInv, LoadIndex("engine"), NEW v, v = copy'["engine"]
  PROVE  Sound(v)' /\ EndsInDraft(v)'
<1> DEFINE e == [id |-> draftId, step |-> draft.step]
           n == Len(index)
<1>1. /\ pc \in [Actor -> {"idle", "list", "file", "remove", "load", "open", "fill", "rename"}]
      /\ copy \in [Actor -> Seq(Info)] /\ pc["engine"] = "load" /\ alive
      /\ index \in Seq(Info) /\ index \in Versions /\ draft \in Checkpoint /\ draftId \in Id
  BY TornIsNoSequence DEF LoadIndex, TypeInv, TypeOK, Shape, Saving, Versions
<1>2. /\ v = Append(index, e) /\ pc'["engine"] = "open"
      /\ UNCHANGED <<files, todo, draftId, issued, step>> /\ (alive' <=> alive) /\ (halted' <=> halted)
  BY <1>1 DEF LoadIndex, Actor, diskVars, runVars
<1>3. /\ Sound(index) /\ Timely(index) /\ InOrder(index) /\ draftId = issued /\ draft.step = step
      /\ files[draftId] # Missing /\ (\A r \in DOMAIN todo : todo[r] # draftId)
      /\ \A i \in 1..n : index[i].id # draftId
  BY <1>1 DEF OverlapInv, Sound, FreshInv, Saving
<1>4. e \in Info /\ e.id = draftId /\ e.step = step
  BY <1>1, <1>3 DEF Info, Checkpoint
<1>5. n \in Nat /\ step \in Int /\ \A i \in 1..n : index[i].id \in Int /\ index[i].step \in Int
  BY <1>1, IndexFacts, StoreAssumption, SMTT(30) DEF Id, TypeInv, TypeOK, Step
<1>6. \A i \in 1..n : index[i].id < e.id /\ index[i].step <= e.step
  <2>1. \A i \in 1..n : index[i].id <= issued /\ index[i].step <= step
    BY <1>3 DEF Sound, Timely
  <2>2. issued \in Int
    BY DEF TypeInv, TypeOK
  <2> HIDE DEF e
  <2> QED
    BY <1>3, <1>4, <1>5, <2>1, <2>2
<1>7. \A i, j \in 1..n : i < j => index[i].step < e.step
  BY <1>3, <1>4 DEF Timely
<1> HIDE DEF e
<1>8. InOrder(v) /\ LatestId(v) = draftId
  BY <1>1, <1>2, <1>3, <1>4, <1>6, <1>7, AppendedInOrder
<1>9. Len(v) = n + 1 /\ v[n + 1] = e /\ \A i \in 1..n : v[i] = index[i]
  BY <1>1, <1>2, AppendedFacts
<1>10. \A i \in 1..(n + 1) : i \in 1..n \/ (i = n + 1 /\ v[i] = e)
  BY <1>5, <1>9
<1>11. \A i \in 1..Len(v) : v[i].id <= issued' /\ v[i].step <= step'
  <2>1. issued \in Int
    BY DEF TypeInv, TypeOK
  <2> QED
    BY <1>2, <1>3, <1>4, <1>5, <1>6, <1>9, <1>10, <2>1
<1>12. \A i \in 1..Len(v) : v[i].id # draftId => i \in 1..n /\ v[i] = index[i] /\ index[i].id # draftId
  BY <1>3, <1>4, <1>9, <1>10
<1>13. Timely(v)'
  <2>1. \A i, j \in 1..Len(v) : i < j /\ v[j].id # draftId => v[i].step < step
    <3> SUFFICES ASSUME NEW i \in 1..Len(v), NEW j \in 1..Len(v), i < j, v[j].id # draftId
                 PROVE  v[i].step < step
      OBVIOUS
    <3>1. j \in 1..n /\ i \in 1..n
      BY <1>5, <1>9, <1>12
    <3> QED
      BY <1>4, <1>7, <1>9, <3>1
  <2>2. halted => \A i \in 1..Len(v) : v[i].id # draftId => v[i].step < step
    BY <1>1, <1>3, <1>12 DEF Timely
  <2>3. (halted' <=> pc'["engine"] # "idle") <=> halted
    BY <1>2
  <2> QED
    BY <1>2, <1>11, <2>1, <2>2, <2>3 DEF Timely
<1>14. v # <<>> /\ v[Len(v)].id = draftId
  BY <1>4, <1>5, <1>9, EmptySeq
<1>15. Loads(v)'
  BY <1>2, <1>3, <1>8 DEF Loads
<1> QED
  BY <1>2, <1>8, <1>11, <1>13, <1>14, <1>15 DEF Sound, EndsInDraft, InOrder

\* What a cleanup is about to write ends like the index it has read.
LEMMA RetainedSound ==
  ASSUME TypeInv, OverlapInv, LoadIndex("janitor"), NEW v, v = copy'["janitor"]
  PROVE  Sound(v)'
<1>1. /\ pc \in [Actor -> {"idle", "list", "file", "remove", "load", "open", "fill", "rename"}]
      /\ copy \in [Actor -> Seq(Info)] /\ todo \in Seq(Id) /\ todo # <<>>
      /\ index \in Seq(Info) /\ index \in Versions
  BY TornIsNoSequence DEF LoadIndex, TypeInv, TypeOK, Shape, Removing, Versions
<1>2. /\ v = Retained(index, Head(todo)) /\ pc'["engine"] = pc["engine"]
      /\ UNCHANGED <<files, todo, draftId, issued, step>> /\ (alive' <=> alive) /\ (halted' <=> halted)
  BY <1>1 DEF LoadIndex, Actor, diskVars, runVars
<1>3. Sound(index) /\ InOrder(index) /\ Loads(index)
  BY <1>1 DEF OverlapInv, Sound
<1>4. /\ InOrder(v)
      /\ \A k \in 1..Len(v) : \E i \in 1..Len(index) : v[k] = index[i]
      /\ \A k, l \in 1..Len(v) : k < l =>
            \E i, j \in 1..Len(index) : i < j /\ v[k] = index[i] /\ v[l] = index[j]
  BY <1>1, <1>2, <1>3, RetainedInOrder
<1>5. v # <<>> => LatestId(v) = LatestId(index) /\ index # <<>>
  <2>1. v \in Seq(Info) /\ Len(v) \in Nat
    BY <1>1, <1>2, RetainedFacts, LenProperties
  <2>2. index = <<>> => v = <<>>
    <3> SUFFICES ASSUME index = <<>>, Len(v) # 0 PROVE FALSE
      BY <2>1, EmptySeq
    <3>1. 1 \in 1..Len(v) /\ Len(index) = 0
      BY <2>1, EmptySeq
    <3> QED
      BY <1>4, <3>1
  <2>3. 1 \in DOMAIN todo /\ Head(todo) = todo[1]
    BY <1>1
  <2>4. index # <<>> => Head(todo) # LatestId(index)
    BY <1>3, <2>3 DEF Loads
  <2> QED
    BY <1>1, <1>2, <1>3, <2>2, <2>4, RetainedLatest
<1>6. \A k \in 1..Len(v) : v[k].id <= issued'
  BY <1>2, <1>3, <1>4 DEF Sound
<1>7. alive' => Timely(v)'
  <2> SUFFICES ASSUME alive PROVE Timely(v)'
    BY <1>2
  <2>1. Timely(index)
    BY <1>3 DEF Sound
  <2>2. \A k \in 1..Len(v) : v[k].step <= step
    BY <1>4, <2>1 DEF Timely
  <2>3. \A k, l \in 1..Len(v) : k < l /\ v[l].id # draftId => v[k].step < step
    <3> SUFFICES ASSUME NEW k \in 1..Len(v), NEW l \in 1..Len(v), k < l, v[l].id # draftId
                 PROVE  v[k].step < step
      OBVIOUS
    <3>1. PICK i, j \in 1..Len(index) : i < j /\ v[k] = index[i] /\ v[l] = index[j]
      BY <1>4
    <3> QED
      BY <2>1, <3>1 DEF Timely
  <2>4. (halted <=> pc["engine"] # "idle") =>
          \A k \in 1..Len(v) : v[k].id # draftId => v[k].step < step
    <3> SUFFICES ASSUME halted <=> pc["engine"] # "idle", NEW k \in 1..Len(v), v[k].id # draftId
                 PROVE  v[k].step < step
      OBVIOUS
    <3>1. PICK i \in 1..Len(index) : v[k] = index[i]
      BY <1>4
    <3> QED
      BY <2>1, <3>1 DEF Timely
  <2> QED
    BY <1>2, <2>2, <2>3, <2>4 DEF Timely
<1>8. Loads(v)'
  BY <1>2, <1>3, <1>5 DEF Loads
<1> QED
  BY <1>2, <1>4, <1>6, <1>7, <1>8 DEF Sound, InOrder

LEMMA VersionsSound ==
  ASSUME TypeInv, OverlapInv, MaxRuns <= 1, MaxCheckpoints >= 2, [Next]_vars
  PROVE  \A v \in Versions' : Sound(v)'
<1> SUFFICES ASSUME NEW v \in Versions' PROVE Sound(v)'
  OBVIOUS
<1>1. TmpInv
  BY DEF OverlapInv
<1>2. \/ v \in Versions \cup {<<>>}
      \/ LoadIndex("engine") /\ v = copy'["engine"]
      \/ LoadIndex("janitor") /\ v = copy'["janitor"]
  BY <1>1, VersionSteps DEF Actor
<1>3. CASE v = <<>>
  BY <1>3, EmptySound
<1>4. CASE v \in Versions
  <2>1. Sound(v)' \/ StartRun
    BY <1>4, SoundKept
  <2>2. CASE StartRun
    <3>1. started = 0
      BY <1>1, <2>2, StoreAssumption DEF StartRun, TmpInv
    <3>2. v = <<>>
      BY <1>1, <1>4, <3>1 DEF TmpInv, Versions
    <3> QED
      BY <3>2, EmptySound
  <2> QED
    BY <2>1, <2>2
<1> QED
  BY <1>2, <1>3, <1>4, AppendedSound, RetainedSound

LEMMA OverlapTypes ==
  ASSUME TypeInv
  PROVE  /\ pc \in [Actor -> {"idle", "list", "file", "remove", "load", "open", "fill", "rename"}]
         /\ copy \in [Actor -> Seq(Info)] /\ issued \in Nat /\ step \in Int /\ started \in Nat
         /\ todo \in Seq(Id) /\ files \in [Id -> Checkpoint \cup {Missing}]
         /\ draft \in Checkpoint /\ draftId \in Id \cup {NoId} /\ alive \in BOOLEAN
         /\ (pc["engine"] # "idle" => alive)
  BY StoreAssumption DEF TypeInv, TypeOK, Shape, Step

\* What is to be deleted was written before, and is not what is being saved.
LEMMA TodoStep ==
  ASSUME TypeInv, OverlapInv, [Next]_vars
  PROVE  \/ \A r \in DOMAIN todo' : \E q \in DOMAIN todo : todo'[r] = todo[q]
         \/ /\ UNCHANGED <<issued, draftId, files>> /\ pc'["engine"] = pc["engine"]
            /\ \A r \in DOMAIN todo' : \E v \in Versions : \E i \in 1..Len(v) : todo'[r] = v[i].id
<1>1. /\ pc \in [Actor -> {"idle", "list", "file", "remove", "load", "open", "fill", "rename"}]
      /\ todo \in Seq(Id)
  BY OverlapTypes
<1>2. CASE todo' = todo \/ todo' = <<>>
  BY <1>2
<1>3. CASE todo # <<>> /\ todo' = Tail(todo)
  BY <1>1, <1>3
<1>4. CASE BeginCleanup
  <2>1. /\ UNCHANGED <<issued, draftId, files>> /\ pc'["engine"] = pc["engine"]
        /\ todo' = Expired(index) /\ index # Torn /\ Len(index) > MaxCheckpoints
    BY <1>1, <1>4 DEF BeginCleanup, diskVars, runVars, Actor
  <2>2. index \in Versions /\ index \in Seq(Info)
    BY <2>1, TornIsNoSequence DEF Versions, TypeInv, TypeOK
  <2>3. \A r \in DOMAIN Expired(index) : \E i \in 1..Len(index) : Expired(index)[r] = index[i].id
    BY <2>1, <2>2, ExpiredFacts
  <2> QED
    BY <2>1, <2>2, <2>3
<1>5. CASE SkipMissing \/ RenameJanitor
  BY <1>3, <1>5 DEF SkipMissing, RenameJanitor, TypeInv, Shape, Removing
<1>6. CASE ~BeginCleanup /\ ~SkipMissing /\ ~RenameJanitor
  <2>1. todo' = todo \/ todo' = <<>>
    BY <1>6 DEF Next, EngineStep, JanitorStep, StartRun, Work, BeginCommit, FindParent, WriteFile,
         RenameEngine, EndRun, RemoveFile, CleanupDone, LoadIndex, OpenTmp, FillTmp, CommitFails,
         CleanupFails, TimeoutRun, LeftFades, LeftLands, Crash, vars, opVars
  <2> QED
    BY <1>2, <2>1
<1> QED
  BY <1>4, <1>5, <1>6

LEMMA FreshDraft ==
  ASSUME TypeInv, OverlapInv, [Next]_vars
  PROVE  /\ pc'["engine"] \in {"idle", "list", "file"} => draftId' = NoId
         /\ pc'["engine"] # "idle" => draft'.step = step'
         /\ Saving' => draftId' = issued'
<1>1. /\ pc \in [Actor -> {"idle", "list", "file", "remove", "load", "open", "fill", "rename"}]
      /\ issued \in Nat /\ draft \in Checkpoint
  BY OverlapTypes
<1>2. /\ pc["engine"] \in {"idle", "list", "file"} => draftId = NoId
      /\ pc["engine"] # "idle" => draft.step = step
      /\ Saving => draftId = issued
  BY DEF OverlapInv, FreshInv
<1>3. CASE UNCHANGED <<draft, draftId, step, issued>> /\ pc'["engine"] = pc["engine"]
  BY <1>2, <1>3 DEF Saving
<1>4. CASE pc'["engine"] = "idle" /\ draftId' = NoId
  BY <1>4 DEF Saving
<1>5. CASE StartRun
  BY <1>1, <1>5 DEF StartRun, Saving, Actor, NoDraft
<1>6. CASE Work \/ EndRun \/ TimeoutRun
  BY <1>3, <1>6 DEF Work, EndRun, TimeoutRun, opVars
<1>7. ASSUME NEW kind \in {"halt", "step"}, BeginCommit(kind)
      PROVE  /\ pc'["engine"] \in {"list", "file"} /\ draftId' = NoId
             /\ draft'.step = step'
  BY <1>1, <1>7 DEF BeginCommit, Actor
<1>8. CASE FindParent
  <2>1. draft'.step = draft.step
    BY <1>1, <1>8 DEF FindParent, Checkpoint
  <2> QED
    BY <1>1, <1>2, <1>8, <2>1 DEF FindParent, Saving, Actor, runVars
<1>9. CASE WriteFile
  BY <1>1, <1>2, <1>9 DEF WriteFile, Saving, Actor
<1>10. CASE RenameEngine \/ CommitFails \/ LeftFades \/ LeftLands \/ Crash
  <2>1. pc'["engine"] = "idle" /\ draftId' = NoId
    BY <1>1, <1>10 DEF RenameEngine, CommitFails, LeftFades, LeftLands, Crash, Actor
  <2> QED
    BY <1>4, <2>1
<1>11. CASE BeginCleanup \/ SkipMissing \/ RemoveFile \/ CleanupDone \/ CleanupFails \/ RenameJanitor
  <2>1. UNCHANGED <<draft, draftId, step, issued>> /\ pc'["engine"] = pc["engine"]
    BY <1>1, <1>11 DEF BeginCleanup, SkipMissing, RemoveFile, CleanupDone, CleanupFails,
                       RenameJanitor, Actor, runVars
  <2> QED
    BY <1>3, <2>1
<1>12. ASSUME NEW a \in Actor, LoadIndex(a) \/ OpenTmp(a) \/ FillTmp(a)
       PROVE  /\ pc'["engine"] \in {"idle", "list", "file"} => draftId' = NoId
              /\ pc'["engine"] # "idle" => draft'.step = step'
              /\ Saving' => draftId' = issued'
  <2>1. UNCHANGED <<draft, draftId, step, issued>>
    BY <1>12 DEF LoadIndex, OpenTmp, FillTmp, runVars
  <2>2. \/ pc'["engine"] = pc["engine"]
        \/ pc["engine"] \in {"load", "open", "fill"} /\ pc'["engine"] \in {"open", "fill", "rename"}
    BY <1>1, <1>12 DEF LoadIndex, OpenTmp, FillTmp, Actor
  <2> QED
    BY <1>2, <1>3, <2>1, <2>2 DEF Saving
<1>13. CASE UNCHANGED vars
  BY <1>3, <1>13 DEF vars, opVars, runVars
<1>14. CASE \E kind \in {"halt", "step"} : BeginCommit(kind)
  BY <1>7, <1>14 DEF Saving
<1> QED
  BY <1>5, <1>6, <1>8, <1>9, <1>10, <1>11, <1>12, <1>13, <1>14 DEF Next, EngineStep, JanitorStep

\* While the engine reads the index, its checkpoint is on disk and nowhere else.
LEMMA FreshLoad ==
  ASSUME TypeInv, OverlapInv, MaxRuns <= 1, [Next]_vars, pc'["engine"] = "load"
  PROVE  /\ files'[draftId'] # Missing /\ \A r \in DOMAIN todo' : todo'[r] # draftId'
         /\ \A v \in Versions' : \A i \in 1..Len(v) : v[i].id # draftId'
<1>1. /\ pc \in [Actor -> {"idle", "list", "file", "remove", "load", "open", "fill", "rename"}]
      /\ issued \in Nat /\ draft \in Checkpoint /\ todo \in Seq(Id)
      /\ files \in [Id -> Checkpoint \cup {Missing}]
  BY OverlapTypes
<1>2. FreshInv /\ TmpInv /\ \A v \in Versions : Sound(v) /\ v \in Seq(Info)
  BY VersionType DEF OverlapInv
<1>3. \/ WriteFile
      \/ pc["engine"] = "load" /\ ~LoadIndex("engine") /\ draftId' = draftId
  <2>1. CASE pc["engine"] # "load"
    BY <1>1, <2>1 DEF Next, EngineStep, JanitorStep, StartRun, Work, BeginCommit, FindParent, WriteFile,
         RenameEngine, EndRun, BeginCleanup, SkipMissing, RemoveFile, RenameJanitor, CleanupDone,
         LoadIndex, OpenTmp, FillTmp, CommitFails, CleanupFails, TimeoutRun, LeftFades, LeftLands, Crash, vars, opVars, Actor
  <2>2. CASE pc["engine"] = "load"
    <3>1. ~LoadIndex("engine")
      BY <1>1 DEF LoadIndex, Actor
    <3>2. draftId' = draftId
      BY <1>1, <2>2 DEF Next, EngineStep, JanitorStep, StartRun, Work, BeginCommit, FindParent, WriteFile,
         RenameEngine, EndRun, BeginCleanup, SkipMissing, RemoveFile, RenameJanitor, CleanupDone,
         LoadIndex, OpenTmp, FillTmp, CommitFails, CleanupFails, TimeoutRun, LeftFades, LeftLands, Crash, vars, opVars, Actor
    <3> QED
      BY <2>2, <3>1, <3>2
  <2> QED
    BY <2>1, <2>2
<1>4. CASE WriteFile
  <2>1. /\ draftId' = issued + 1 /\ UNCHANGED todo /\ issued + 1 \in Id
        /\ files' = [files EXCEPT ![issued + 1] = draft] /\ pc["engine"] = "file"
    BY <1>1, <1>4, StoreAssumption DEF WriteFile, Id
  <2>2. files'[draftId'] # Missing
    BY <1>1, <2>1, SentinelAssumption
  <2>3. \A r \in DOMAIN todo' : todo'[r] # draftId'
    <3>1. \A r \in DOMAIN todo : todo[r] <= issued /\ todo[r] \in Int
      BY <1>1, <1>2 DEF FreshInv, Id
    <3> QED
      BY <1>1, <2>1, <3>1
  <2>4. \A v \in Versions' : v \in Versions \cup {<<>>}
    <3>1. \A a \in Actor : ~LoadIndex(a)
      BY <1>1, <1>4 DEF WriteFile, LoadIndex, Actor
    <3> QED
      BY <1>2, <3>1, VersionSteps
  <2>5. ASSUME NEW v \in Versions PROVE \A i \in 1..Len(v) : v[i].id # draftId'
    <3>1. \A i \in 1..Len(v) : v[i].id <= issued /\ v[i].id \in Int
      BY <1>2, IndexFacts DEF Sound, Id
    <3> QED
      BY <1>1, <2>1, <3>1
  <2>6. Len(<<>>) = 0
    OBVIOUS
  <2> QED
    BY <2>2, <2>3, <2>4, <2>5, <2>6
<1>5. CASE pc["engine"] = "load" /\ ~LoadIndex("engine") /\ draftId' = draftId
  <2>1. /\ files[draftId] # Missing /\ \A r \in DOMAIN todo : todo[r] # draftId
        /\ \A v \in Versions : \A i \in 1..Len(v) : v[i].id # draftId
    BY <1>2, <1>5 DEF FreshInv
  <2>2. \A r \in DOMAIN todo' : todo'[r] # draftId'
    BY <1>5, <2>1, TodoStep
  <2>3. files'[draftId] # Missing
    <3>1. CASE RemoveFile
      <4>1. todo # <<>> /\ files' = [files EXCEPT ![Head(todo)] = Missing]
        BY <3>1 DEF RemoveFile
      <4>2. 1 \in DOMAIN todo /\ Head(todo) = todo[1]
        BY <1>1, <4>1
      <4> QED
        BY <1>1, <2>1, <4>1, <4>2
    <3>2. CASE ~RemoveFile
      <4>1. files' = files
        BY <1>5, <3>2 DEF Next, EngineStep, JanitorStep, StartRun, Work, BeginCommit, FindParent, WriteFile,
         RenameEngine, EndRun, BeginCleanup, SkipMissing, RenameJanitor, CleanupDone,
         LoadIndex, OpenTmp, FillTmp, CommitFails, CleanupFails, TimeoutRun, LeftFades, LeftLands, Crash, vars, diskVars
      <4> QED
        BY <2>1, <4>1
    <3> QED
      BY <3>1, <3>2
  <2>4. ASSUME NEW v \in Versions', v \in Versions \cup {<<>>}
        PROVE  \A i \in 1..Len(v) : v[i].id # draftId
    <3>1. Len(<<>>) = 0
      OBVIOUS
    <3> QED
      BY <2>1, <2>4, <3>1
  <2>5. ASSUME NEW v, LoadIndex("janitor"), v = copy'["janitor"]
        PROVE  \A i \in 1..Len(v) : v[i].id # draftId
    <3>1. /\ v = Retained(index, Head(todo)) /\ index \in Seq(Info) /\ index \in Versions
          /\ todo # <<>>
      BY <2>5, TornIsNoSequence DEF LoadIndex, TypeInv, TypeOK, Shape, Removing, Versions, Actor
    <3>2. InOrder(index) /\ \A i \in 1..Len(index) : index[i].id # draftId
      BY <1>2, <2>1, <3>1 DEF Sound
    <3>3. \A k \in 1..Len(v) : \E i \in 1..Len(index) : v[k] = index[i]
      <4>1. Head(todo) \in Id
        BY <1>1, <3>1
      <4> QED
        BY <3>1, <3>2, <4>1, RetainedInOrder
    <3> QED
      BY <3>2, <3>3
  <2>6. \A v \in Versions' : \A i \in 1..Len(v) : v[i].id # draftId
    BY <1>2, <1>5, <2>4, <2>5, VersionSteps DEF Actor
  <2> QED
    BY <1>5, <2>2, <2>3, <2>6
<1> QED
  BY <1>3, <1>4, <1>5

LEMMA FreshStep ==
  ASSUME TypeInv, OverlapInv, MaxRuns <= 1, [Next]_vars
  PROVE  FreshInv'
<1>1. \A r \in DOMAIN todo' : todo'[r] <= issued'
  <2>1. issued \in Nat /\ issued' \in Nat /\ issued <= issued' /\ todo \in Seq(Id)
    <3>1. issued \in Nat /\ todo \in Seq(Id)
      BY OverlapTypes
    <3> QED
      BY <3>1 DEF Next, EngineStep, JanitorStep, StartRun, Work, BeginCommit, FindParent, WriteFile,
         RenameEngine, EndRun, BeginCleanup, SkipMissing, RemoveFile, RenameJanitor, CleanupDone,
         LoadIndex, OpenTmp, FillTmp, CommitFails, CleanupFails, TimeoutRun, LeftFades, LeftLands, Crash, StepOver, vars, runVars
  <2>2. CASE \A r \in DOMAIN todo' : \E q \in DOMAIN todo : todo'[r] = todo[q]
    <3>1. \A q \in DOMAIN todo : todo[q] <= issued
      BY DEF OverlapInv, FreshInv
    <3>2. \A q \in DOMAIN todo : todo[q] \in Int
      <4>1. todo \in Seq(Id)
        BY <2>1
      <4>2. \A q \in DOMAIN todo : todo[q] \in Id
        BY <4>1
      <4> QED
        BY <4>2 DEF Id
    <3> QED
      BY <2>1, <2>2, <3>1, <3>2
  <2>3. CASE \A r \in DOMAIN todo' : \E v \in Versions : \E i \in 1..Len(v) : todo'[r] = v[i].id
    <3>1. \A v \in Versions : \A i \in 1..Len(v) : v[i].id <= issued /\ v[i].id \in Int
      BY VersionType, IndexFacts DEF OverlapInv, Sound, Id
    <3> QED
      BY <2>1, <2>3, <3>1
  <2> QED
    BY <2>2, <2>3, TodoStep
<1>2. /\ pc'["engine"] \in {"idle", "list", "file"} => draftId' = NoId
      /\ pc'["engine"] # "idle" => draft'.step = step'
      /\ Saving' => draftId' = issued'
  BY FreshDraft
<1>3. pc'["engine"] = "load" =>
        /\ files'[draftId'] # Missing /\ \A r \in DOMAIN todo' : todo'[r] # draftId'
        /\ \A v \in Versions' : \A i \in 1..Len(v) : v[i].id # draftId'
  BY FreshLoad
<1> QED
  BY <1>1, <1>2, <1>3 DEF FreshInv

\* Unless a cleanup fails between filling the temporary file and the rename, no
\* index of a cleanup is left there for a later rename of the engine.
LEMMA LeftOver ==
  ASSUME TypeInv, OverlapInv, ~MayFail, MaxRuns <= 1, [Next]_vars,
         alive', pc'["janitor"] \notin {"fill", "rename"}
  PROVE  \/ tmp' \in {Torn, NoFile, <<>>}
         \/ pc'["engine"] = "rename" /\ tmp' # <<>> /\ tmp'[Len(tmp')].id = draftId'
<1> DEFINE Own(t, d) == t # <<>> /\ t[Len(t)].id = d
           Good == tmp \in {Torn, NoFile, <<>>} \/ (pc["engine"] = "rename" /\ Own(tmp, draftId))
           Goal == tmp' \in {Torn, NoFile, <<>>} \/ (pc'["engine"] = "rename" /\ Own(tmp', draftId'))
<1> SUFFICES Goal
  OBVIOUS
<1>1. /\ pc \in [Actor -> {"idle", "list", "file", "remove", "load", "open", "fill", "rename"}]
      /\ copy \in [Actor -> Seq(Info)] /\ (pc["engine"] # "idle" => alive)
  BY OverlapTypes
<1>2. /\ alive /\ pc["janitor"] \notin {"fill", "rename"} => Good
      /\ pc["engine"] \in {"open", "fill"} => Own(copy["engine"], draftId)
      /\ started = 0 => tmp = NoFile
  BY DEF OverlapInv, TmpInv, EndsInDraft
<1> HIDE DEF Own
<1>3. CASE StartRun
  <2>1. started = 0
    BY <1>3, StoreAssumption DEF StartRun, OverlapInv, TmpInv
  <2> QED
    BY <1>2, <1>3, <2>1 DEF StartRun, diskVars
<1>4. CASE Work \/ EndRun
  BY <1>1, <1>2, <1>4 DEF Work, EndRun, diskVars, opVars
<1>5. ASSUME NEW kind \in {"halt", "step"}, BeginCommit(kind) PROVE Goal
  BY <1>1, <1>2, <1>5 DEF BeginCommit, diskVars, Actor
<1>6. CASE FindParent \/ WriteFile
  BY <1>1, <1>2, <1>6 DEF FindParent, WriteFile, diskVars, runVars, Actor
<1>7. CASE RenameEngine \/ RenameJanitor
  BY <1>7 DEF RenameEngine, RenameJanitor
<1>8. CASE BeginCleanup \/ SkipMissing \/ RemoveFile \/ CleanupDone
  BY <1>1, <1>2, <1>8 DEF BeginCleanup, SkipMissing, RemoveFile, CleanupDone, diskVars, runVars, Actor
<1>9. ASSUME NEW a \in Actor, LoadIndex(a) PROVE Goal
  BY <1>1, <1>2, <1>9 DEF LoadIndex, diskVars, runVars, Actor
<1>10. ASSUME NEW a \in Actor, OpenTmp(a) PROVE Goal
  BY <1>10 DEF OpenTmp
<1>11. ASSUME NEW a \in Actor, FillTmp(a) PROVE Goal
  <2>1. a = "engine" /\ pc["janitor"] \notin {"fill", "rename"} /\ alive /\ pc["engine"] = "fill"
    BY <1>1, <1>11 DEF FillTmp, Actor
  <2>2. pc'["engine"] = "rename" /\ draftId' = draftId
    BY <1>1, <1>11, <2>1 DEF FillTmp
  <2>3. tmp' = tmp \/ tmp' = Torn \/ tmp' = copy["engine"]
    BY <1>11, <2>1 DEF FillTmp, Written
  <2> QED
    BY <1>2, <2>1, <2>2, <2>3
<1>12. CASE CommitFails
  <2>1. pc["engine"] # "rename" \/ tmp = NoFile
    BY <1>1, <1>12 DEF CommitFails, Fails
  <2> QED
    BY <1>1, <1>2, <1>12, <2>1 DEF CommitFails, StepOver, diskVars, Actor
<1>13. CASE CleanupFails
  <2>1. pc["janitor"] \notin {"fill", "rename"} \/ tmp = NoFile
    BY <1>1, <1>13 DEF CleanupFails, Fails
  <2> QED
    BY <1>1, <1>2, <1>13, <2>1 DEF CleanupFails, diskVars, runVars, Actor
<1>14. CASE TimeoutRun
  BY <1>1, <1>2, <1>14 DEF TimeoutRun, diskVars, opVars
<1>16. CASE LeftFades \/ LeftLands \/ Crash
  BY <1>16 DEF LeftFades, LeftLands, Crash
<1>15. CASE UNCHANGED vars
  BY <1>2, <1>15 DEF vars, diskVars, opVars, runVars
<1> QED
  BY <1>3, <1>4, <1>5, <1>6, <1>7, <1>8, <1>9, <1>10, <1>11, <1>12, <1>13, <1>14, <1>15,
     <1>16
     DEF Next, EngineStep, JanitorStep

LEMMA TmpStep ==
  ASSUME TypeInv, OverlapInv, ~MayFail, MaxRuns <= 1, [Next]_vars
  PROVE  TmpInv'
<1>1. /\ pc \in [Actor -> {"idle", "list", "file", "remove", "load", "open", "fill", "rename"}]
      /\ copy \in [Actor -> Seq(Info)] /\ started \in Nat /\ alive \in BOOLEAN
      /\ todo \in Seq(Id)
  BY OverlapTypes
<1>2. /\ \A a \in Actor : pc[a] \notin {"open", "fill"} => copy[a] = <<>>
      /\ pc["engine"] \in {"open", "fill"} => EndsInDraft(copy["engine"])
      /\ pc["janitor"] = "idle" => todo = <<>>
      /\ started \in {0, 1} /\ (alive => started = 1)
      /\ started = 0 => index = <<>> /\ tmp = NoFile /\ \A a \in Actor : pc[a] = "idle"
  BY DEF OverlapInv, TmpInv
<1>3. \A a \in Actor : pc'[a] \notin {"open", "fill"} => copy'[a] = <<>>
  <2> SUFFICES ASSUME NEW a \in Actor
               PROVE  \/ copy'[a] = <<>> \/ pc'[a] \in {"open", "fill"}
                      \/ copy'[a] = copy[a] /\ pc[a] \notin {"open", "fill"}
    BY <1>2
  <2>1. ASSUME NEW b \in Actor, LoadIndex(b) \/ OpenTmp(b) \/ FillTmp(b)
        PROVE  \/ copy'[a] = <<>> \/ pc'[a] \in {"open", "fill"}
               \/ copy'[a] = copy[a] /\ pc[a] \notin {"open", "fill"}
    <3>1. CASE a = b
      BY <1>1, <2>1, <3>1 DEF LoadIndex, OpenTmp, FillTmp
    <3>2. CASE a # b
      <4>1. copy'[a] = copy[a] /\ pc'[a] = pc[a]
        BY <1>1, <2>1, <3>2 DEF LoadIndex, OpenTmp, FillTmp
      <4> QED
        BY <4>1
    <3> QED
      BY <3>1, <3>2
  <2>2. CASE CommitFails \/ CleanupFails \/ TimeoutRun \/ LeftFades \/ LeftLands \/ Crash
    BY <1>1, <1>2, <2>2 DEF opVars, CommitFails, CleanupFails, TimeoutRun, LeftFades, LeftLands, Crash, Actor
  <2>3. CASE EngineStep \/ JanitorStep \/ UNCHANGED vars
    <3>1. copy' = copy
      BY <2>3 DEF EngineStep, JanitorStep, StartRun, Work, BeginCommit, FindParent, WriteFile,
         RenameEngine, EndRun, BeginCleanup, SkipMissing, RemoveFile, RenameJanitor, CleanupDone, vars, opVars
    <3>2. pc[a] \in {"open", "fill"} => pc'[a] = pc[a]
      BY <1>1, <2>3 DEF EngineStep, JanitorStep, StartRun, Work, BeginCommit, FindParent, WriteFile,
         RenameEngine, EndRun, BeginCleanup, SkipMissing, RemoveFile, RenameJanitor, CleanupDone, vars,
         opVars, Actor, TypeInv, Shape
    <3> QED
      BY <3>1, <3>2
  <2> QED
    BY <2>1, <2>2, <2>3 DEF Next
<1>4. pc'["engine"] \in {"open", "fill"} =>
        copy'["engine"] # <<>> /\ copy'["engine"][Len(copy'["engine"])].id = draftId'
  <2>1. CASE LoadIndex("engine")
    BY <2>1, AppendedSound DEF EndsInDraft
  <2>2. CASE ~LoadIndex("engine")
    <3>1. pc'["engine"] \in {"open", "fill"} =>
            pc["engine"] \in {"open", "fill"} /\ copy'["engine"] = copy["engine"] /\ draftId' = draftId
      BY <1>1, <2>2 DEF Next, EngineStep, JanitorStep, StartRun, Work, BeginCommit, FindParent, WriteFile,
         RenameEngine, EndRun, BeginCleanup, SkipMissing, RemoveFile, RenameJanitor, CleanupDone,
         LoadIndex, OpenTmp, FillTmp, CommitFails, CleanupFails, TimeoutRun, LeftFades, LeftLands, Crash, vars, opVars, Actor
    <3> QED
      BY <1>2, <3>1 DEF EndsInDraft
  <2> QED
    BY <2>1, <2>2
<1>5. pc'["janitor"] = "idle" => todo' = <<>>
  BY <1>1, <1>2 DEF Next, EngineStep, JanitorStep, StartRun, Work, BeginCommit, FindParent, WriteFile,
     RenameEngine, EndRun, BeginCleanup, SkipMissing, RemoveFile, RenameJanitor, CleanupDone,
     LoadIndex, OpenTmp, FillTmp, CommitFails, CleanupFails, TimeoutRun, LeftFades, LeftLands, Crash, vars, opVars, Actor
<1>6. started' \in {0, 1} /\ (alive' => started' = 1)
  BY <1>1, <1>2, StoreAssumption DEF Next, EngineStep, JanitorStep, StartRun, Work, BeginCommit, FindParent,
     WriteFile, RenameEngine, EndRun, BeginCleanup, SkipMissing, RemoveFile, RenameJanitor, CleanupDone,
     LoadIndex, OpenTmp, FillTmp, CommitFails, CleanupFails, TimeoutRun, LeftFades, LeftLands, Crash, StepOver, vars, runVars
<1>7. started' = 0 => index' = <<>> /\ tmp' = NoFile /\ \A a \in Actor : pc'[a] = "idle"
  <2> SUFFICES ASSUME started' = 0 PROVE index' = <<>> /\ tmp' = NoFile /\ \A a \in Actor : pc'[a] = "idle"
    OBVIOUS
  <2>1. started = 0
    BY <1>1 DEF Next, EngineStep, JanitorStep, StartRun, Work, BeginCommit, FindParent,
     WriteFile, RenameEngine, EndRun, BeginCleanup, SkipMissing, RemoveFile, RenameJanitor, CleanupDone,
     LoadIndex, OpenTmp, FillTmp, CommitFails, CleanupFails, TimeoutRun, LeftFades, LeftLands, Crash, StepOver, vars, runVars
  <2>2. index = <<>> /\ tmp = NoFile /\ ~alive /\ pc["engine"] = "idle" /\ pc["janitor"] = "idle"
    BY <1>2, <2>1 DEF Actor
  <2>3. Len(<<>>) = 0 /\ ~(0 > MaxCheckpoints)
    BY StoreAssumption
  <2>4. UNCHANGED <<index, tmp, pc>> \/ Crash
    BY <1>1, <2>1, <2>2, <2>3 DEF Next, EngineStep, JanitorStep, StartRun, Work, BeginCommit, FindParent,
     WriteFile, RenameEngine, EndRun, BeginCleanup, SkipMissing, RemoveFile, RenameJanitor, CleanupDone,
     LoadIndex, OpenTmp, FillTmp, CommitFails, CleanupFails, TimeoutRun, LeftFades, LeftLands, Fails, vars, diskVars, opVars, Actor
  <2>5. CASE UNCHANGED <<index, tmp, pc>>
    BY <2>2, <2>5 DEF Actor
  <2>6. CASE Crash
    BY <2>2, <2>6 DEF Crash, diskVars
  <2> QED
    BY <2>4, <2>5, <2>6
<1>8. alive' /\ pc'["janitor"] \notin {"fill", "rename"} =>
         \/ tmp' \in {Torn, NoFile, <<>>}
         \/ pc'["engine"] = "rename" /\ tmp' # <<>> /\ tmp'[Len(tmp')].id = draftId'
  BY LeftOver
<1> QED
  BY <1>3, <1>4, <1>5, <1>6, <1>7, <1>8 DEF TmpInv, EndsInDraft

LEMMA OverlapInit == Init => OverlapInv
<1> SUFFICES ASSUME Init PROVE OverlapInv
  OBVIOUS
<1>1. Versions = {<<>>} /\ Len(<<>>) = 0
  <2>1. <<>> \in Seq(Info)
    OBVIOUS
  <2>2. index = <<>> /\ ~TmpLive /\ \A a \in Actor : copy[a] = <<>>
    BY DEF Init, TmpLive, Actor
  <2>3. <<>> # Torn /\ <<>> # NoFile
    BY <2>1, TornIsNoSequence
  <2> QED
    BY <2>2, <2>3 DEF Versions, Actor
<1>2. \A v \in Versions : Sound(v)
  BY <1>1 DEF Init, Sound, InOrder, Timely, Loads
<1>3. FreshInv
  BY <1>1 DEF Init, FreshInv, Saving, Actor
<1>4. TmpInv
  BY DEF Init, TmpInv, Actor
<1> QED
  BY <1>2, <1>3, <1>4 DEF OverlapInv

LEMMA OverlapStep ==
  TypeInv /\ OverlapInv /\ ~MayFail /\ MaxRuns <= 1 /\ MaxCheckpoints >= 2 /\ [Next]_vars => OverlapInv'
<1> SUFFICES ASSUME TypeInv, OverlapInv, ~MayFail, MaxRuns <= 1, MaxCheckpoints >= 2, [Next]_vars
             PROVE  OverlapInv'
  OBVIOUS
<1>1. \A v \in Versions' : Sound(v)'
  BY VersionsSound
<1> QED
  BY <1>1, FreshStep, TmpStep DEF OverlapInv

LEMMA OverlapSafe == TypeInv /\ OverlapInv => LatestLoads
<1> SUFFICES ASSUME TypeInv, OverlapInv, index # Torn, index # <<>>
             PROVE  files[LatestId(index)] # Missing
  BY DEF LatestLoads
<1>1. index \in Versions
  BY TornIsNoSequence DEF Versions, TypeInv, TypeOK
<1> QED
  BY <1>1 DEF OverlapInv, Sound, Loads

\* Of one run whose process may crash at any point while cleanups overlap its
\* saves, the latest entry of the index can always be loaded, provided that no
\* file operation fails and a cleanup keeps at least two checkpoints.
THEOREM LatestStays ==
  ~MayFail /\ MaxRuns <= 1 /\ MaxCheckpoints >= 2 => (Spec => []LatestLoads)
<1> SUFFICES ASSUME ~MayFail, MaxRuns <= 1, MaxCheckpoints >= 2 PROVE Spec => []LatestLoads
  OBVIOUS
<1> QED
  BY OverlapSafe, OverlapInit, OverlapStep, TypeInit, TypeStep, PTL DEF Spec

-----------------------------------------------------------------------------
(* The register of one run.                                                 *)

OneRun == ~Concurrent /\ MaxRuns <= 1 /\ MaxCheckpoints >= 2

-----------------------------------------------------------------------------
(* What a save is about to list.                                            *)

DraftInv ==
  /\ pc["engine"] # "idle" => draft.step = step /\ draft.state = state
  /\ Saving => /\ draftId = issued /\ files[draftId] = draft
               /\ \A i \in 1..Len(index) : index[i].id < draftId
  /\ \A i \in 1..Len(index) : index[i].id <= issued

SoundInv == TypeInv /\ WriteInv /\ DraftInv

\* The three ways an index can change.
LEMMA IndexSteps ==
  ASSUME TypeInv, WriteInv, ~Concurrent, [Next]_vars
  PROVE  \/ index' = index
         \/ /\ RenameEngine \/ LeftLands
            /\ pc["engine"] = "rename" /\ pc["janitor"] = "idle" /\ todo = <<>>
            /\ index' = Append(index, [id |-> draftId, step |-> draft.step])
         \/ /\ RenameJanitor /\ pc["engine"] = "idle" /\ todo # <<>>
            /\ index' = Retained(index, Head(todo))
<1>1. CASE RenameEngine \/ LeftLands
  BY <1>1 DEF RenameEngine, LeftLands, WriteInv, NewIndex, Actor
<1>2. CASE RenameJanitor
  BY <1>2 DEF RenameJanitor, WriteInv, NewIndex, Actor, TypeInv, Shape, Removing
<1>3. CASE StartRun \/ Work \/ EndRun \/ FindParent \/ WriteFile
  BY <1>3 DEF StartRun, Work, EndRun, FindParent, WriteFile, diskVars
<1>4. ASSUME NEW kind \in {"halt", "step"}, BeginCommit(kind) PROVE index' = index
  BY <1>4 DEF BeginCommit, diskVars
<1>5. CASE BeginCleanup \/ SkipMissing \/ RemoveFile \/ CleanupDone
  BY <1>5 DEF BeginCleanup, SkipMissing, RemoveFile, CleanupDone, diskVars
<1>6. ASSUME NEW a \in Actor, LoadIndex(a) \/ OpenTmp(a) PROVE index' = index
  BY <1>6 DEF LoadIndex, OpenTmp, diskVars
<1>7. ASSUME NEW a \in Actor, FillTmp(a) PROVE index' = index
  <2>1. out[a] = "tmp"
    BY <1>7 DEF FillTmp, WriteInv
  <2> QED
    BY <1>7, <2>1 DEF FillTmp
<1>8. CASE CommitFails \/ CleanupFails \/ TimeoutRun \/ LeftFades \/ Crash \/ UNCHANGED vars
  BY <1>8 DEF CommitFails, CleanupFails, TimeoutRun, LeftFades, LeftLands, Crash, vars, diskVars
<1> QED
  BY <1>1, <1>2, <1>3, <1>4, <1>5, <1>6, <1>7, <1>8 DEF Next, EngineStep, JanitorStep

LEMMA DraftInit == Init => DraftInv
  BY EmptySeq DEF Init, DraftInv, Actor, Saving

LEMMA DraftStep == SoundInv /\ ~Concurrent /\ [Next]_vars => DraftInv'
<1> SUFFICES ASSUME SoundInv, ~Concurrent, [Next]_vars PROVE DraftInv'
  OBVIOUS
<1>1. /\ TypeInv /\ WriteInv /\ DraftInv /\ index \in Seq(Info)
      /\ pc \in [Actor -> {"idle", "list", "file", "remove", "load", "open", "fill", "rename"}]
      /\ issued \in Nat /\ draftId \in Int
      /\ \A i \in 1..Len(index) : index[i].id \in Int
  <2>1. /\ TypeInv /\ WriteInv /\ DraftInv /\ index \in Seq(Info)
        /\ pc \in [Actor -> {"idle", "list", "file", "remove", "load", "open", "fill", "rename"}]
        /\ issued \in Nat /\ draftId \in Int
    BY DEF SoundInv, TypeInv, TypeOK, WriteInv, Id, NoId
  <2> QED
    BY <2>1, IndexFacts DEF Id
<1>2. CASE RenameEngine \/ LeftLands
  <2>1. index' = Append(index, [id |-> draftId, step |-> draft.step]) /\ issued' = issued
    BY <1>1, <1>2 DEF RenameEngine, LeftLands, StepOver, WriteInv, NewIndex, Actor
  <2>2. Saving
    BY <1>2 DEF RenameEngine, LeftLands, Saving
  <2>3. /\ Len(index') = Len(index) + 1 /\ index'[Len(index) + 1].id = draftId
        /\ \A i \in 1..Len(index) : index'[i] = index[i]
    BY <1>1, <2>1, AppendedFacts
  <2>4. \A i \in 1..Len(index') : index'[i].id <= issued'
    <3> TAKE i \in 1..Len(index')
    <3>1. i \in 1..Len(index) \/ i = Len(index) + 1
      BY <1>1, <2>3
    <3> QED
      BY <1>1, <2>1, <2>2, <2>3, <3>1 DEF DraftInv
  <2>5. pc'["engine"] = "idle"
    BY <1>1, <1>2 DEF RenameEngine, LeftLands, Actor
  <2> QED
    BY <2>4, <2>5 DEF DraftInv, Saving
<1>3. CASE RenameJanitor
  <2>1. /\ index' = Retained(index, Head(todo)) /\ issued' = issued
        /\ pc["engine"] = "idle" /\ pc'["engine"] = "idle"
    BY <1>1, <1>3 DEF RenameJanitor, WriteInv, NewIndex, Actor, runVars
  <2>2. PICK f : Selects(f, index, Head(todo), index')
    BY <1>1, <2>1, RetainedFacts
  <2>3. \A k \in 1..Len(index') : \E i \in 1..Len(index) : index'[k] = index[i]
    BY <2>2 DEF Selects
  <2>4. \A k \in 1..Len(index') : index'[k].id <= issued'
    BY <1>1, <2>1, <2>3 DEF DraftInv
  <2> QED
    BY <2>1, <2>4 DEF DraftInv, Saving
<1>4. CASE WriteFile
  <2>1. /\ issued' = issued + 1 /\ draftId' = issued + 1 /\ index' = index /\ draft' = draft
        /\ step' = step /\ state' = state /\ files'[issued + 1] = draft /\ pc["engine"] = "file"
        /\ pc'["engine"] = "load"
    <3>1. issued + 1 \in Id /\ files \in [Id -> Checkpoint \cup {Missing}]
      BY <1>1, <1>4, StoreAssumption DEF WriteFile, TypeInv, TypeOK, Id
    <3> QED
      BY <1>1, <1>4, <3>1 DEF WriteFile, Actor
  <2>2. \A i \in 1..Len(index) : index[i].id < issued + 1
    BY <1>1 DEF DraftInv
  <2> QED
    BY <1>1, <2>1, <2>2 DEF DraftInv
<1>5. CASE StartRun \/ Work \/ EndRun
  <2>1. UNCHANGED <<index, files, issued>>
    BY <1>5 DEF StartRun, Work, EndRun, diskVars, opVars
  <2>2. CASE pc'["engine"] = "idle"
    BY <1>1, <2>1, <2>2 DEF DraftInv, Saving
  <2>3. CASE pc'["engine"] # "idle"
    <3>1. ~Saving' /\ draft'.step = step' /\ draft'.state = state'
      BY <1>1, <1>5, <2>3 DEF StartRun, Work, EndRun, NoDraft, opVars, TypeInv, Shape, Saving, Actor
    <3> QED
      BY <1>1, <2>1, <3>1 DEF DraftInv
  <2> QED
    BY <2>2, <2>3
<1>6. ASSUME NEW kind \in {"halt", "step"}, BeginCommit(kind) PROVE DraftInv'
  <2>1. UNCHANGED <<index, issued>> /\ ~Saving' /\ draft'.step = step' /\ draft'.state = state'
    BY <1>1, <1>6 DEF BeginCommit, diskVars, Saving, Actor
  <2> QED
    BY <1>1, <2>1 DEF DraftInv
<1>7. CASE FindParent
  <2>1. UNCHANGED <<index, issued, step, state>> /\ ~Saving' /\ draft' = [draft EXCEPT !.parent = LatestId(index)]
    BY <1>1, <1>7 DEF FindParent, diskVars, runVars, Saving, Actor
  <2>2. draft'.step = draft.step /\ draft'.state = draft.state /\ pc["engine"] = "list"
    BY <1>7, <2>1 DEF FindParent, TypeInv, TypeOK, Checkpoint
  <2> QED
    BY <1>1, <2>1, <2>2 DEF DraftInv
<1>8. CASE BeginCleanup \/ SkipMissing \/ CleanupDone
  BY <1>1, <1>8 DEF BeginCleanup, SkipMissing, CleanupDone, DraftInv, Saving, diskVars, runVars, Actor
<1>9. CASE RemoveFile
  <2>1. pc["engine"] = "idle" /\ pc'["engine"] = "idle" /\ UNCHANGED <<index, issued>>
    BY <1>1, <1>9 DEF RemoveFile, WriteInv, Actor, runVars
  <2> QED
    BY <1>1, <2>1 DEF DraftInv, Saving
<1>10. ASSUME NEW a \in Actor, LoadIndex(a) \/ OpenTmp(a) \/ FillTmp(a) PROVE DraftInv'
  <2>1. UNCHANGED <<index, files, draft, draftId, runVars>>
    <3>1. index' = index
      BY <1>1, <1>10, IndexSteps DEF LoadIndex, OpenTmp, FillTmp, RenameEngine, LeftLands, RenameJanitor, WriteInv,
                                     diskVars
    <3> QED
      BY <1>10, <3>1 DEF LoadIndex, OpenTmp, FillTmp, diskVars
  <2>2. (pc'["engine"] = "idle" <=> pc["engine"] = "idle") /\ (Saving' <=> Saving)
    BY <1>1, <1>10 DEF LoadIndex, OpenTmp, FillTmp, Saving, Actor
  <2> QED
    BY <1>1, <2>1, <2>2 DEF DraftInv, runVars
<1>11. CASE CommitFails \/ LeftFades \/ Crash
  <2>1. pc'["engine"] = "idle" /\ UNCHANGED <<index, issued>>
    BY <1>1, <1>11 DEF CommitFails, LeftFades, LeftLands, Crash, StepOver, diskVars, Actor
  <2> QED
    BY <1>1, <2>1 DEF DraftInv, Saving
<1>12. CASE CleanupFails \/ TimeoutRun \/ UNCHANGED vars
  <2>1. /\ UNCHANGED <<index, files, draft, draftId, step, state, issued>>
        /\ pc'["engine"] = pc["engine"]
    BY <1>1, <1>12 DEF CleanupFails, TimeoutRun, diskVars, runVars, opVars, vars, Actor
  <2> QED
    BY <1>1, <2>1 DEF DraftInv, Saving
<1> QED
  BY <1>2, <1>3, <1>4, <1>5, <1>6, <1>7, <1>8, <1>9, <1>10, <1>11, <1>12
     DEF Next, EngineStep, JanitorStep

LEMMA SoundInit == Init => SoundInv
  BY TypeInit, WriteInit, DraftInit DEF SoundInv

LEMMA SoundStep == SoundInv /\ ~Concurrent /\ [Next]_vars => SoundInv'
  BY TypeStep, WriteStep, DraftStep DEF SoundInv

-----------------------------------------------------------------------------
(* The saves of one run are listed in their order.                          *)

\* Nothing is listed above the step of the run, only a halt is listed with it,
\* and a step that resumes a halt is begun at most once under its number.
StepsListed ==
  /\ \A i \in 1..Len(index) : index[i].step <= step
  /\ \A i, j \in 1..Len(index) : i < j => index[i].step < step
  /\ (halted <=> pc["engine"] # "idle") => \A i \in 1..Len(index) : index[i].step < step

OrderInv ==
  /\ InOrder(index)
  /\ alive => StepsListed
  /\ started \in {0, 1} /\ (alive => started = 1)
  /\ started = 0 => index = <<>> /\ newest = NoState

LEMMA OrderInit == Init => OrderInv
  BY EmptySeq DEF Init, OrderInv, InOrder

\* A late rename lists the checkpoint where the save would have.
LEMMA LandedInOrder ==
  ASSUME SoundInv, OrderInv, LeftLands
  PROVE  InOrder(index')
<1> DEFINE e == [id |-> draftId, step |-> draft.step]
<1>1. /\ index \in Seq(Info) /\ index' = Append(index, e) /\ draft.step = step /\ alive /\ Saving
  BY DEF SoundInv, LeftLands, WriteInv, NewIndex, DraftInv, Actor, TypeInv, TypeOK, Shape, Saving
<1>2. e \in Info /\ e.step = step /\ e.id = draftId
  BY <1>1 DEF SoundInv, TypeInv, TypeOK, Shape, Checkpoint, Info
<1>3. \A i \in 1..Len(index) : index[i].id < e.id /\ index[i].step <= e.step
  BY <1>1, <1>2 DEF SoundInv, DraftInv, OrderInv, StepsListed
<1>4. InOrder(index) /\ \A i, j \in 1..Len(index) : i < j => index[i].step < e.step
  BY <1>1, <1>2 DEF OrderInv, StepsListed
<1> HIDE DEF e
<1> QED
  BY <1>1, <1>2, <1>3, <1>4, AppendedInOrder

LEMMA OrderStep == SoundInv /\ OrderInv /\ OneRun /\ [Next]_vars => OrderInv'
<1> SUFFICES ASSUME SoundInv, OrderInv, OneRun, [Next]_vars PROVE OrderInv'
  OBVIOUS
<1>1. /\ TypeInv /\ WriteInv /\ DraftInv /\ index \in Seq(Info) /\ ~Concurrent
      /\ pc \in [Actor -> {"idle", "list", "file", "remove", "load", "open", "fill", "rename"}]
      /\ step \in Int /\ halted \in BOOLEAN /\ Len(index) \in Nat
      /\ \A i \in 1..Len(index) : index[i] \in Info /\ index[i].step \in Int
  <2>1. /\ TypeInv /\ WriteInv /\ DraftInv /\ index \in Seq(Info) /\ ~Concurrent
        /\ pc \in [Actor -> {"idle", "list", "file", "remove", "load", "open", "fill", "rename"}]
        /\ step \in Int /\ halted \in BOOLEAN
    BY StoreAssumption DEF SoundInv, OneRun, TypeInv, TypeOK, WriteInv, Step
  <2> QED
    BY <2>1, IndexFacts
<1>2. CASE RenameEngine
  <2> DEFINE e == [id |-> draftId, step |-> draft.step]
  <2>1. /\ index' = Append(index, e) /\ draft.step = step /\ alive /\ alive' = alive
        /\ started' = started /\ halted' = halted /\ step' = IF halted THEN step ELSE step + 1
        /\ pc["engine"] = "rename" /\ pc'["engine"] = "idle" /\ Saving
    BY <1>1, <1>2 DEF RenameEngine, StepOver, WriteInv, NewIndex, DraftInv, Actor, TypeInv, Shape, Saving
  <2>2. e \in Info /\ e.step = step /\ e.id = draftId
    BY <1>1, <2>1 DEF TypeInv, TypeOK, Shape, Checkpoint, Info
  <2>3. \A i \in 1..Len(index) : index[i].id < e.id /\ index[i].step <= e.step
    BY <1>1, <2>1, <2>2 DEF DraftInv, OrderInv, StepsListed
  <2>4. \A i, j \in 1..Len(index) : i < j => index[i].step < e.step
    BY <2>1, <2>2 DEF OrderInv, StepsListed
  <2>5. /\ Len(index') = Len(index) + 1 /\ index'[Len(index) + 1] = e
        /\ \A i \in 1..Len(index) : index'[i] = index[i]
    BY <1>1, <2>1, AppendedFacts
  <2>6. InOrder(index')
    BY <1>1, <2>1, <2>2, <2>3, <2>4, AppendedInOrder DEF OrderInv
  <2> HIDE DEF e
  <2>7. \A i \in 1..Len(index') : i \in 1..Len(index) \/ i = Len(index) + 1
    BY <1>1, <2>5
  <2>8. \A i \in 1..Len(index') : index'[i].step <= step /\ index'[i].step \in Int
    BY <1>1, <2>2, <2>3, <2>5, <2>7
  <2>9. ASSUME halted, NEW i \in 1..Len(index) PROVE index'[i].step < step
    BY <1>1, <2>1, <2>5, <2>9 DEF OrderInv, StepsListed
  <2>10. StepsListed'
    <3>1. CASE ~halted
      <4>1. step' = step + 1 /\ \A i \in 1..Len(index') : index'[i].step < step'
        BY <1>1, <2>1, <2>8, <3>1
      <4>2. \A i \in 1..Len(index') : index'[i].step <= step'
        BY <1>1, <2>8, <4>1
      <4> QED
        BY <4>1, <4>2 DEF StepsListed
    <3>2. CASE halted
      <4>1. step' = step /\ ~(halted' <=> pc'["engine"] # "idle")
        BY <2>1, <3>2
      <4>2. ASSUME NEW i \in 1..Len(index'), NEW j \in 1..Len(index'), i < j
            PROVE  index'[i].step < step'
        <5>1. i \in 1..Len(index)
          BY <1>1, <2>5, <4>2
        <5> QED
          BY <2>9, <3>2, <4>1, <5>1
      <4> QED
        BY <2>8, <4>1, <4>2 DEF StepsListed
    <3> QED
      BY <3>1, <3>2
  <2> QED
    BY <2>1, <2>6, <2>10 DEF OrderInv
<1>3. CASE RenameJanitor
  <2>1. /\ index' = Retained(index, Head(todo)) /\ UNCHANGED runVars /\ newest' = newest
        /\ pc'["engine"] = pc["engine"]
    BY <1>1, <1>3 DEF RenameJanitor, WriteInv, NewIndex, Actor
  <2>2. /\ InOrder(index')
        /\ \A k \in 1..Len(index') : \E i \in 1..Len(index) : index'[k] = index[i]
        /\ \A k, l \in 1..Len(index') : k < l =>
              \E i, j \in 1..Len(index) : i < j /\ index'[k] = index[i] /\ index'[l] = index[j]
    <3>1. InOrder(index) /\ index \in Seq(Info)
      BY <1>1 DEF OrderInv
    <3>2. PICK kept : kept = Retained(index, Head(todo))
      OBVIOUS
    <3>3. InOrder(kept)
      BY <3>1, <3>2, RetainedInOrder
    <3>4. \A k \in 1..Len(kept) : \E i \in 1..Len(index) : kept[k] = index[i]
      BY <3>1, <3>2, RetainedInOrder
    <3>5. \A k, l \in 1..Len(kept) : k < l =>
             \E i, j \in 1..Len(index) : i < j /\ kept[k] = index[i] /\ kept[l] = index[j]
      BY <3>1, <3>2, RetainedInOrder, SMTT(30)
    <3>6. index' = kept
      BY <2>1, <3>2
    <3>7. InOrder(index')
      BY <3>3, <3>6, Zenon
    <3>8. \A k \in 1..Len(index') : \E i \in 1..Len(index) : index'[k] = index[i]
      BY <3>4, <3>6, Zenon
    <3>9. ASSUME NEW k \in 1..Len(index'), NEW l \in 1..Len(index'), k < l
          PROVE  \E i, j \in 1..Len(index) : i < j /\ index'[k] = index[i] /\ index'[l] = index[j]
      <4>1. k \in 1..Len(kept) /\ l \in 1..Len(kept)
        BY <3>6
      <4>2. PICK i \in 1..Len(index), j \in 1..Len(index) :
               i < j /\ kept[k] = index[i] /\ kept[l] = index[j]
        BY <3>5, <3>9, <4>1
      <4>3. index'[k] = index[i] /\ index'[l] = index[j]
        BY <3>6, <4>2
      <4> QED
        BY <4>2, <4>3
    <3> QED
      BY <3>7, <3>8, <3>9
  <2>3. alive => StepsListed'
    <3> SUFFICES ASSUME alive PROVE StepsListed'
      OBVIOUS
    <3>1. StepsListed /\ step' = step /\ halted' = halted
      BY <2>1 DEF OrderInv, runVars
    <3>2. \A k \in 1..Len(index') : index'[k].step <= step'
      BY <2>2, <3>1 DEF StepsListed
    <3>3. ASSUME NEW k \in 1..Len(index'), NEW l \in 1..Len(index'), k < l
          PROVE  index'[k].step < step'
      <4>1. PICK i, j \in 1..Len(index) : i < j /\ index'[k] = index[i]
        BY <2>2, <3>3
      <4> QED
        BY <3>1, <4>1 DEF StepsListed
    <3>4. (halted' <=> pc'["engine"] # "idle") => \A k \in 1..Len(index') : index'[k].step < step'
      BY <2>1, <2>2, <3>1 DEF StepsListed
    <3> QED
      BY <3>2, <3>3, <3>4 DEF StepsListed
  <2>4. index = <<>> => index' = <<>>
    <3>1. index' \in Seq(Info) /\ Len(index') \in Nat
      BY <1>1, <2>1, RetainedFacts, LenProperties
    <3>2. index = <<>> => Len(index') = 0
      <4> SUFFICES ASSUME index = <<>>, Len(index') # 0 PROVE FALSE
        OBVIOUS
      <4>1. 1 \in 1..Len(index') /\ Len(index) = 0
        BY <3>1, EmptySeq
      <4> QED
        BY <2>2, <4>1
    <3> QED
      BY <3>1, <3>2, EmptySeq
  <2> QED
    BY <2>1, <2>2, <2>3, <2>4 DEF OrderInv, runVars
<1>4. CASE StartRun
  <2>1. index = <<>> /\ index' = index /\ newest' = newest /\ started' = 1
    BY <1>1, <1>4, StoreAssumption DEF StartRun, OrderInv, OneRun, diskVars
  <2>2. Len(index') = 0
    BY <2>1, EmptySeq
  <2> QED
    BY <2>1, <2>2 DEF OrderInv, StepsListed, InOrder
<1>5. ASSUME NEW kind \in {"halt", "step"}, BeginCommit(kind) PROVE OrderInv'
  <2>1. UNCHANGED <<index, alive, started, newest, step>> /\ pc'["engine"] # "idle"
    BY <1>1, <1>5 DEF BeginCommit, diskVars, Actor
  <2>2. alive /\ pc["engine"] = "idle" /\ (halted' => ~halted)
    BY <1>1, <1>5 DEF BeginCommit
  <2> QED
    BY <2>1, <2>2 DEF OrderInv, StepsListed
<1>6. CASE UNCHANGED <<index, newest, started>> /\ ~alive'
  BY <1>6 DEF OrderInv
<1>7. CASE LeftFades \/ Crash \/ EndRun
  BY <1>6, <1>7 DEF LeftFades, Crash, EndRun, diskVars
<1>8. CASE CommitFails
  <2>1. /\ UNCHANGED <<index, newest, alive, halted, started>> /\ pc'["engine"] = "idle"
        /\ step' = IF halted THEN step ELSE step + 1
        /\ pc["engine"] # "idle"
    BY <1>1, <1>8 DEF CommitFails, Fails, StepOver, diskVars, Actor
  <2>2. alive => StepsListed'
    <3>1. CASE halted
      BY <1>1, <2>1, <3>1 DEF OrderInv, StepsListed
    <3>2. CASE ~halted
      <4>1. step' = step + 1
        BY <2>1, <3>2
      <4> QED
        BY <1>1, <2>1, <4>1 DEF OrderInv, StepsListed
    <3> QED
      BY <3>1, <3>2
  <2> QED
    BY <2>1, <2>2 DEF OrderInv
<1>9. CASE /\ UNCHANGED <<index, newest, alive, halted, started, step>>
           /\ pc'["engine"] = "idle" <=> pc["engine"] = "idle"
  BY <1>9 DEF OrderInv, StepsListed
<1>10. CASE Work \/ FindParent \/ WriteFile \/ TimeoutRun
  BY <1>1, <1>9, <1>10 DEF Work, FindParent, WriteFile, TimeoutRun, diskVars, runVars, opVars, Actor
<1>11. CASE BeginCleanup \/ SkipMissing \/ RemoveFile \/ CleanupDone \/ CleanupFails
  BY <1>1, <1>9, <1>11 DEF BeginCleanup, SkipMissing, RemoveFile, CleanupDone, CleanupFails, diskVars,
                           runVars, Actor
<1>12. ASSUME NEW a \in Actor, LoadIndex(a) \/ OpenTmp(a) \/ FillTmp(a) PROVE OrderInv'
  <2>1. index' = index
    BY <1>1, <1>12, IndexSteps DEF LoadIndex, OpenTmp, FillTmp, RenameEngine, LeftLands, RenameJanitor, WriteInv,
                                   diskVars
  <2>2. UNCHANGED runVars /\ newest' = newest /\ (pc'["engine"] = "idle" <=> pc["engine"] = "idle")
    BY <1>1, <1>12 DEF LoadIndex, OpenTmp, FillTmp, Actor
  <2> QED
    BY <1>9, <2>1, <2>2 DEF runVars
<1>13. CASE UNCHANGED vars
  BY <1>9, <1>13 DEF vars, diskVars, opVars, runVars
<1>14. CASE LeftLands
  <2>1. InOrder(index')
    BY <1>14, LandedInOrder
  <2>2. ~alive' /\ started' = started /\ started = 1
    BY <1>1, <1>14 DEF LeftLands, TypeInv, Shape, OrderInv
  <2> QED
    BY <2>1, <2>2 DEF OrderInv
<1> QED
  BY <1>2, <1>3, <1>4, <1>5, <1>7, <1>8, <1>10, <1>11, <1>12, <1>13, <1>14 DEF Next, EngineStep, JanitorStep

-----------------------------------------------------------------------------
(* The latest checkpoint is the one saved last, and its file is there.      *)

Latest == LatestId(index)

\* What the latest entry of the index leads to.
Shown == IF index = <<>> THEN NoState
         ELSE [step |-> files[Latest].step, state |-> files[Latest].state]

\* While the run is alive that is what its last save took; a timeout may leave
\* the state of the save that it dropped.
NewestInv ==
  /\ index # <<>> => files[Latest] # Missing
  /\ Shown = newest \/ Shown \in unacked
  /\ alive => Shown = newest
  /\ left # "none" => [step |-> step, state |-> state] \in unacked
  /\ \A r \in DOMAIN todo : index # <<>> /\ todo[r] # Latest

LEMMA NewestInit == Init => NewestInv
  BY DEF Init, NewestInv, Shown

LEMMA SavedIsLatest ==
  ASSUME SoundInv, OrderInv, RenameEngine \/ LeftLands
  PROVE  /\ index' # <<>> /\ Latest' = draftId /\ files' = files /\ files[draftId] = draft
         /\ Shown' = [step |-> draft.step, state |-> draft.state] /\ todo' = <<>>
         /\ draft.step = step /\ draft.state = state /\ alive
<1> DEFINE e == [id |-> draftId, step |-> draft.step]
<1>1. /\ index \in Seq(Info) /\ index' = Append(index, e) /\ draft.step = step /\ alive
      /\ Saving /\ files' = files /\ todo' = <<>> /\ draft.state = state
  BY DEF SoundInv, RenameEngine, LeftLands, WriteInv, NewIndex, DraftInv, Actor, TypeInv, TypeOK, Shape, Saving
<1>2. e \in Info /\ e.step = step /\ e.id = draftId /\ files[draftId] = draft
  BY <1>1 DEF SoundInv, TypeInv, TypeOK, Shape, Checkpoint, Info, DraftInv
<1>3. \A i \in 1..Len(index) : index[i].id < e.id /\ index[i].step <= e.step
  BY <1>1, <1>2 DEF SoundInv, DraftInv, OrderInv, StepsListed
<1>4. InOrder(index) /\ \A i, j \in 1..Len(index) : i < j => index[i].step < e.step
  BY <1>1, <1>2 DEF OrderInv, StepsListed
<1> HIDE DEF e
<1>5. LatestId(Append(index, e)) = e.id
  BY <1>1, <1>2, <1>3, <1>4, AppendedInOrder
<1>6. Append(index, e) # <<>>
  BY <1>1
<1> QED
  BY <1>1, <1>2, <1>5, <1>6 DEF Latest, Shown

LEMMA LatestIsListed ==
  ASSUME SoundInv
  PROVE  /\ Latest \in Id \cup {NoId} /\ Latest <= issued /\ issued \in Nat
         /\ index # <<>> => Latest \in Id
<1>1. index \in Seq(Info) /\ issued \in Nat
  BY DEF SoundInv, WriteInv, TypeInv, TypeOK
<1>2. CASE index = <<>>
  BY <1>1, <1>2 DEF Latest, LatestId, NoId
<1>3. CASE index # <<>>
  BY <1>1, <1>3, LatestFacts DEF Latest, SoundInv, DraftInv
<1> QED
  BY <1>2, <1>3

\* Only the two renames of the engine change what the latest entry leads to.
LEMMA ShownStep ==
  ASSUME SoundInv, OrderInv, NewestInv, OneRun, [Next]_vars, ~RenameEngine, ~LeftLands
  PROVE  /\ Shown' = Shown /\ (index' # <<>> => files'[Latest'] # Missing)
         /\ \A r \in DOMAIN todo' : index' # <<>> /\ todo'[r] # Latest'
<1> DEFINE Goal == /\ Shown' = Shown /\ (index' # <<>> => files'[Latest'] # Missing)
                   /\ \A r \in DOMAIN todo' : index' # <<>> /\ todo'[r] # Latest'
<1> SUFFICES Goal
  OBVIOUS
<1>1. /\ TypeInv /\ WriteInv /\ DraftInv /\ index \in Seq(Info) /\ ~Concurrent
      /\ todo \in Seq(Id) /\ files \in [Id -> Checkpoint \cup {Missing}]
      /\ pc \in [Actor -> {"idle", "list", "file", "remove", "load", "open", "fill", "rename"}]
  BY DEF SoundInv, OneRun, TypeInv, TypeOK, WriteInv
<1>2. Latest <= issued /\ issued \in Nat /\ (index # <<>> => Latest \in Id)
  BY LatestIsListed
<1>3. ASSUME todo # <<>>, todo' = Tail(todo)
      PROVE  \A r \in DOMAIN todo' : \E q \in DOMAIN todo : todo'[r] = todo[q]
  BY <1>1, <1>3
<1>4. todo # <<>> => index # <<>> /\ Head(todo) # Latest /\ Head(todo) \in Id
  <2> SUFFICES ASSUME todo # <<>> PROVE index # <<>> /\ Head(todo) # Latest /\ Head(todo) \in Id
    OBVIOUS
  <2>1. 1 \in DOMAIN todo /\ Head(todo) = todo[1] /\ Head(todo) \in Id
    BY <1>1
  <2> QED
    BY <2>1 DEF NewestInv, Latest, Shown
<1>5. CASE UNCHANGED <<index, files>> /\ (todo' = todo \/ todo' = <<>>)
  BY <1>5 DEF NewestInv, Latest, Shown
<1>7. CASE RenameJanitor
  <2>1. /\ index' = Retained(index, Head(todo)) /\ todo # <<>> /\ todo' = Tail(todo)
        /\ files' = files
    BY <1>1, <1>7 DEF RenameJanitor, WriteInv, NewIndex, Actor, TypeInv, Shape, Removing
  <2>2. index' # <<>> /\ Latest' = Latest
    <3>1. InOrder(index) /\ index # <<>> /\ Head(todo) # LatestId(index)
      BY <1>4, <2>1 DEF OrderInv, Latest
    <3> DEFINE kept == Retained(index, Head(todo))
    <3>2. kept # <<>> /\ LatestId(kept) = LatestId(index)
      BY <1>1, <3>1, RetainedLatest
    <3>3. index' = kept
      BY <2>1
    <3> HIDE DEF kept
    <3> QED
      BY <3>2, <3>3 DEF Latest
  <2> QED
    BY <1>3, <1>4, <2>1, <2>2 DEF NewestInv, Latest, Shown
<1>8. CASE WriteFile
  <2>1. /\ UNCHANGED <<index, todo>> /\ files' = [files EXCEPT ![issued + 1] = draft]
    BY <1>8 DEF WriteFile
  <2>2. Latest' = Latest /\ (index # <<>> => files'[Latest] = files[Latest])
    BY <1>1, <1>2, <2>1 DEF Latest
  <2> QED
    BY <2>1, <2>2 DEF NewestInv, Latest, Shown
<1>9. CASE RemoveFile
  <2>1. /\ UNCHANGED <<index, todo>> /\ files' = [files EXCEPT ![Head(todo)] = Missing]
        /\ todo # <<>>
    BY <1>9 DEF RemoveFile
  <2>2. Latest' = Latest /\ files'[Latest] = files[Latest]
    BY <1>1, <1>2, <1>4, <2>1 DEF Latest
  <2> QED
    BY <2>1, <2>2 DEF NewestInv, Latest, Shown
<1>10. CASE BeginCleanup
  <2>1. UNCHANGED <<index, files>> /\ todo' = Expired(index) /\ Len(index) > MaxCheckpoints
    BY <1>10 DEF BeginCleanup, diskVars
  <2>2. index # <<>> /\ \A r \in DOMAIN Expired(index) : Expired(index)[r] # LatestId(index)
    BY <1>1, <2>1, ExpiredAreOlder DEF OrderInv, OneRun
  <2>3. Latest' = Latest /\ \A r \in DOMAIN todo' : todo'[r] # Latest
    BY <2>1, <2>2 DEF Latest
  <2> QED
    BY <2>1, <2>2, <2>3 DEF NewestInv, Latest, Shown
<1>11. CASE SkipMissing
  <2>1. UNCHANGED <<index, files>> /\ todo # <<>> /\ todo' = Tail(todo)
    BY <1>11 DEF SkipMissing, diskVars
  <2> QED
    BY <1>3, <2>1 DEF NewestInv, Latest, Shown
<1>12. CASE StartRun \/ Work \/ FindParent \/ EndRun \/ CleanupDone \/ CommitFails \/ TimeoutRun
            \/ LeftFades
  BY <1>5, <1>12 DEF StartRun, Work, FindParent, EndRun, CleanupDone, CommitFails, TimeoutRun, LeftFades, LeftLands, diskVars,
                     opVars
<1>13. CASE CleanupFails \/ Crash
  BY <1>5, <1>13 DEF CleanupFails, Crash, diskVars
<1>14. ASSUME NEW kind \in {"halt", "step"}, BeginCommit(kind) PROVE Goal
  BY <1>5, <1>14 DEF BeginCommit, diskVars
<1>15. ASSUME NEW a \in Actor, LoadIndex(a) \/ OpenTmp(a) \/ FillTmp(a) PROVE Goal
  <2>1. index' = index
    BY <1>1, <1>15, IndexSteps DEF LoadIndex, OpenTmp, FillTmp, RenameEngine, LeftLands, RenameJanitor, WriteInv,
                                   diskVars
  <2> QED
    BY <1>5, <1>15, <2>1 DEF LoadIndex, OpenTmp, FillTmp, diskVars
<1>16. CASE UNCHANGED vars
  BY <1>5, <1>16 DEF vars, diskVars, opVars
<1> QED
  BY <1>7, <1>8, <1>9, <1>10, <1>11, <1>12, <1>13, <1>14, <1>15, <1>16
     DEF Next, EngineStep, JanitorStep

LEMMA NewestStep == SoundInv /\ OrderInv /\ NewestInv /\ OneRun /\ [Next]_vars => NewestInv'
<1> SUFFICES ASSUME SoundInv, OrderInv, NewestInv, OneRun, [Next]_vars PROVE NewestInv'
  OBVIOUS
<1>1. /\ pc \in [Actor -> {"idle", "list", "file", "remove", "load", "open", "fill", "rename"}]
      /\ draft # Missing /\ started \in Nat /\ alive \in BOOLEAN
      /\ (pc["engine"] # "idle" => alive /\ draft.step = step /\ draft.state = state)
      /\ (left # "none" => pc["engine"] # "idle")
  BY SentinelAssumption DEF SoundInv, TypeInv, TypeOK, Shape, DraftInv
<1>2. CASE RenameEngine
  <2>1. /\ index' # <<>> /\ Latest' = draftId /\ files' = files /\ files[draftId] = draft
        /\ Shown' = [step |-> draft.step, state |-> draft.state] /\ todo' = <<>>
    BY <1>2, SavedIsLatest
  <2>2. newest' = [step |-> draft.step, state |-> draft.state] /\ left' = "none"
    BY <1>2 DEF RenameEngine, StepOver
  <2> QED
    BY <1>1, <2>1, <2>2 DEF NewestInv
<1>3. CASE LeftLands
  <2>1. /\ index' # <<>> /\ Latest' = draftId /\ files' = files /\ files[draftId] = draft
        /\ Shown' = [step |-> draft.step, state |-> draft.state] /\ todo' = <<>>
        /\ draft.step = step /\ draft.state = state
    BY <1>3, SavedIsLatest
  <2>2. unacked' = unacked /\ ~alive' /\ left = "rename" /\ left' = "none"
    BY <1>3 DEF LeftLands
  <2> QED
    BY <1>1, <2>1, <2>2 DEF NewestInv
<1>4. CASE StartRun
  <2>1. index' = <<>> /\ newest' = NoState /\ todo' = todo /\ left' = left /\ ~alive
    BY <1>1, <1>4, StoreAssumption DEF StartRun, OrderInv, OneRun, diskVars
  <2>2. \A r \in DOMAIN todo' : FALSE
    BY <1>4, <2>1 DEF StartRun, OneRun, SoundInv, WriteInv, TypeInv, TypeOK
  <2> QED
    BY <1>1, <2>1, <2>2 DEF NewestInv, Shown
<1>5. CASE ~RenameEngine /\ ~LeftLands /\ ~StartRun
  <2>1. newest' = newest /\ unacked \subseteq unacked' /\ (alive' => alive)
    BY <1>5 DEF Next, EngineStep, JanitorStep, Work, BeginCommit, FindParent, WriteFile, EndRun,
       BeginCleanup, SkipMissing, RemoveFile, RenameJanitor, CleanupDone, LoadIndex, OpenTmp, FillTmp,
       CommitFails, CleanupFails, TimeoutRun, LeftFades, Crash, StepOver, vars, runVars
  <2>2. left' # "none" => [step |-> step', state |-> state'] \in unacked'
    <3>1. CASE TimeoutRun
      BY <1>1, <3>1 DEF TimeoutRun
    <3>2. CASE ~TimeoutRun
      <4>1. left' # "none" => UNCHANGED <<left, step, state, unacked>>
        BY <1>1, <1>5, <3>2 DEF Next, EngineStep, JanitorStep, Work, BeginCommit, FindParent, WriteFile,
           EndRun, BeginCleanup, SkipMissing, RemoveFile, RenameJanitor, CleanupDone, LoadIndex, OpenTmp,
           FillTmp, CommitFails, CleanupFails, LeftFades, Crash, StepOver, Fails, vars, runVars
      <4> QED
        BY <4>1 DEF NewestInv
    <3> QED
      BY <3>1, <3>2
  <2> QED
    BY <1>5, <2>1, <2>2, ShownStep DEF NewestInv
<1> QED
  BY <1>2, <1>3, <1>4, <1>5

-----------------------------------------------------------------------------
(* The parents of incremental checkpoints.                                  *)

ParentInv ==
  /\ \A i \in Id : files[i] # Missing => i <= issued /\ (~files[i].full => files[i].parent < i)
  /\ (pc["engine"] = "file" \/ Saving) /\ ~draft.full => draft.parent = Latest

LEMMA ParentInit == Init => ParentInv
  BY DEF Init, ParentInv, Saving, Actor

LEMMA ParentStep == SoundInv /\ ParentInv /\ ~Concurrent /\ [Next]_vars => ParentInv'
<1> SUFFICES ASSUME SoundInv, ParentInv, ~Concurrent, [Next]_vars PROVE ParentInv'
  OBVIOUS
<1>1. /\ TypeInv /\ WriteInv /\ index \in Seq(Info) /\ draft \in Checkpoint
      /\ todo \in Seq(Id) /\ files \in [Id -> Checkpoint \cup {Missing}]
      /\ pc \in [Actor -> {"idle", "list", "file", "remove", "load", "open", "fill", "rename"}]
  BY DEF SoundInv, TypeInv, TypeOK, WriteInv
<1>2. Latest \in Int /\ Latest <= issued /\ issued \in Nat /\ \A i \in Id : i \in Nat
  BY LatestIsListed DEF Id, NoId
<1> DEFINE Files == \A i \in Id : files[i] # Missing =>
                      i <= issued /\ (~files[i].full => files[i].parent < i)
<1>3. Files
  BY DEF ParentInv
<1>4. CASE UNCHANGED <<files, issued>> /\ pc'["engine"] \in {"idle", "list"}
  BY <1>3, <1>4 DEF ParentInv, Saving
<1>5. CASE UNCHANGED <<files, issued>> /\ pc'["engine"] = "file" /\ draft'.full
  BY <1>3, <1>5 DEF ParentInv, Saving
<1>6. CASE UNCHANGED <<files, issued, draft, index>> /\ (Saving' => pc["engine"] = "file" \/ Saving)
           /\ (pc'["engine"] = "file" => pc["engine"] = "file")
  BY <1>3, <1>6 DEF ParentInv, Latest
<1>7. CASE RenameEngine \/ EndRun \/ CommitFails \/ LeftFades \/ LeftLands \/ Crash
  BY <1>1, <1>4, <1>7 DEF RenameEngine, EndRun, CommitFails, LeftFades, LeftLands, Crash, StepOver, TypeInv, Shape,
                          diskVars, opVars, Actor
<1>8. CASE RenameJanitor
  BY <1>1, <1>4, <1>8 DEF RenameJanitor, WriteInv, runVars, Actor
<1>9. CASE StartRun
  BY <1>1, <1>5, <1>9 DEF StartRun, NoDraft, diskVars, Actor
<1>10. CASE Work \/ CleanupFails \/ TimeoutRun
  BY <1>1, <1>6, <1>10 DEF Work, CleanupFails, TimeoutRun, diskVars, opVars, runVars, Saving, Actor
<1>11. ASSUME NEW kind \in {"halt", "step"}, BeginCommit(kind) PROVE ParentInv'
  <2>1. /\ UNCHANGED <<files, issued>> /\ draft'.full = IsFull
        /\ pc'["engine"] = IF IsFull THEN "file" ELSE "list"
    BY <1>1, <1>11 DEF BeginCommit, diskVars, Actor
  <2> QED
    BY <1>4, <1>5, <2>1
<1>12. CASE FindParent
  <2>1. /\ UNCHANGED <<files, issued, index>> /\ draft' = [draft EXCEPT !.parent = Latest]
    BY <1>12 DEF FindParent, diskVars, runVars, Latest
  <2>2. draft'.parent = Latest'
    BY <1>1, <2>1 DEF Checkpoint, Latest
  <2> QED
    BY <1>3, <2>1, <2>2 DEF ParentInv
<1>13. CASE WriteFile
  <2>1. /\ UNCHANGED <<index, draft>> /\ files' = [files EXCEPT ![issued + 1] = draft]
        /\ issued' = issued + 1 /\ pc["engine"] = "file"
    BY <1>13 DEF WriteFile
  <2>2. ~draft.full => draft.parent = Latest
    BY <2>1 DEF ParentInv
  <2>3. ASSUME NEW i \in Id, files'[i] # Missing
        PROVE  i <= issued' /\ (~files'[i].full => files'[i].parent < i)
    <3>1. CASE i = issued + 1
      BY <1>1, <1>2, <2>1, <2>2, <3>1
    <3>2. CASE i # issued + 1
      BY <1>1, <1>2, <1>3, <2>1, <2>3, <3>2
    <3> QED
      BY <3>1, <3>2
  <2> QED
    BY <2>1, <2>2, <2>3 DEF ParentInv, Latest
<1>14. CASE RemoveFile
  <2>1. /\ files' = [files EXCEPT ![Head(todo)] = Missing] /\ UNCHANGED <<issued>>
        /\ pc["engine"] = "idle" /\ pc'["engine"] = "idle"
    BY <1>1, <1>14 DEF RemoveFile, WriteInv, runVars, Actor
  <2> QED
    BY <1>1, <1>3, <2>1 DEF ParentInv, Saving
<1>15. CASE BeginCleanup \/ SkipMissing \/ CleanupDone
  BY <1>1, <1>6, <1>15 DEF BeginCleanup, SkipMissing, CleanupDone, diskVars, runVars, Saving, Actor
<1>16. ASSUME NEW a \in Actor, LoadIndex(a) \/ OpenTmp(a) \/ FillTmp(a) PROVE ParentInv'
  <2>1. index' = index
    BY <1>1, <1>16, IndexSteps DEF LoadIndex, OpenTmp, FillTmp, RenameEngine, LeftLands, RenameJanitor, WriteInv,
                                   diskVars
  <2> QED
    BY <1>1, <1>6, <1>16, <2>1 DEF LoadIndex, OpenTmp, FillTmp, diskVars, runVars, Saving, Actor
<1>17. CASE UNCHANGED vars
  BY <1>6, <1>17 DEF vars, diskVars, opVars, runVars, Saving
<1> QED
  BY <1>7, <1>8, <1>9, <1>10, <1>11, <1>12, <1>13, <1>14, <1>15, <1>16, <1>17
     DEF Next, EngineStep, JanitorStep

-----------------------------------------------------------------------------
(* Variables are never forgotten, so an increment hides all of its parents. *)

\* All that is set in lower is set in upper as well.
Covers(upper, lower) == \A k \in Key : lower[k] # Absent => upper[k] # Absent

GrowInv ==
  /\ \A i \in Id : files[i] # Missing /\ ~files[i].full =>
       LET p == files[i].parent
       IN  p \in Id /\ files[p] # Missing => Covers(files[i].state, files[p].state)
  /\ alive => Covers(state, newest.state)

LEMMA GrowInit == Init => GrowInv
  BY DEF Init, GrowInv

LEMMA GrowStep ==
  SoundInv /\ OrderInv /\ NewestInv /\ ParentInv /\ GrowInv /\ OneRun /\ ~MayClear /\ [Next]_vars
    => GrowInv'
<1> SUFFICES ASSUME SoundInv, OrderInv, NewestInv, ParentInv, GrowInv, OneRun, ~MayClear, [Next]_vars
             PROVE  GrowInv'
  OBVIOUS
<1>1. /\ TypeInv /\ WriteInv /\ index \in Seq(Info) /\ draft \in Checkpoint
      /\ files \in [Id -> Checkpoint \cup {Missing}] /\ state \in State
      /\ pc \in [Actor -> {"idle", "list", "file", "remove", "load", "open", "fill", "rename"}]
  BY DEF SoundInv, TypeInv, TypeOK, WriteInv
<1>2. Latest \in Id \cup {NoId} /\ Latest <= issued /\ issued \in Nat /\ \A i \in Id : i \in Nat
  BY LatestIsListed DEF Id
<1> DEFINE Older(i) == LET p == files[i].parent
                       IN  p \in Id /\ files[p] # Missing => Covers(files[i].state, files[p].state)
<1>3. \A i \in Id : files[i] # Missing /\ ~files[i].full => Older(i)
  BY DEF GrowInv
<1>4. CASE UNCHANGED <<files, newest, state>> /\ (alive' => alive)
  BY <1>4 DEF GrowInv
<1>5. CASE StartRun
  <2>1. newest = NoState /\ UNCHANGED <<files, newest>>
    BY <1>5, StoreAssumption DEF StartRun, OrderInv, OneRun, diskVars
  <2>2. Covers(state', newest'.state)
    BY <2>1 DEF Covers, NoState, NoEntries
  <2> QED
    BY <2>1, <2>2 DEF GrowInv
<1>6. CASE Work
  <2>1. /\ UNCHANGED <<files, newest>> /\ alive
        /\ \E k \in Key : \E v \in Val : state' = [state EXCEPT ![k] = v]
    BY <1>6 DEF Work, OneRun, diskVars
  <2>2. \A k \in Key : state[k] # Absent => state'[k] # Absent
    BY <1>1, <2>1, StoreAssumption DEF State
  <2>3. Covers(state', newest'.state)
    BY <2>1, <2>2 DEF GrowInv, Covers
  <2> QED
    BY <2>1, <2>3 DEF GrowInv
<1>7. CASE WriteFile
  <2>1. /\ UNCHANGED <<newest, state, alive>> /\ files' = [files EXCEPT ![issued + 1] = draft]
        /\ pc["engine"] = "file" /\ issued + 1 \in Id
    BY <1>2, <1>7, StoreAssumption DEF WriteFile, Id
  <2>2. alive /\ draft.state = state /\ (~draft.full => draft.parent = Latest)
    BY <1>1, <2>1 DEF SoundInv, TypeInv, Shape, DraftInv, ParentInv
  <2>3. ASSUME NEW i \in Id, files'[i] # Missing, ~files'[i].full,
               files'[i].parent \in Id, files'[files'[i].parent] # Missing
        PROVE  Covers(files'[i].state, files'[files'[i].parent].state)
    <3>1. CASE i = issued + 1
      <4>1. /\ files'[i] = draft /\ files'[i].parent = Latest /\ Latest # issued + 1
            /\ files'[Latest] = files[Latest]
        BY <1>1, <1>2, <2>1, <2>2, <2>3, <3>1
      <4>2. index # <<>>
        BY <2>3, <4>1 DEF Latest, LatestId, Id, NoId
      <4>3. newest.state = files[Latest].state
        BY <2>2, <4>2 DEF NewestInv, Shown
      <4> QED
        BY <2>2, <4>1, <4>3 DEF GrowInv
    <3>2. CASE i # issued + 1
      <4>1. files'[i] = files[i]
        BY <1>1, <2>1, <3>2
      <4>2. i <= issued /\ files[i].parent < i
        BY <2>3, <4>1 DEF ParentInv
      <4>3. files'[files[i].parent] = files[files[i].parent]
        BY <1>1, <1>2, <2>1, <2>3, <4>1, <4>2
      <4> QED
        BY <1>3, <2>3, <4>1, <4>3
    <3> QED
      BY <3>1, <3>2
  <2> QED
    BY <2>1, <2>3 DEF GrowInv
<1>8. CASE RemoveFile
  <2>1. UNCHANGED <<newest, state, alive>> /\ files' = [files EXCEPT ![Head(todo)] = Missing]
    BY <1>8 DEF RemoveFile, runVars
  <2>2. \A i \in Id : files'[i] # Missing => files'[i] = files[i]
    BY <1>1, <2>1
  <2>3. ASSUME NEW i \in Id, files'[i] # Missing, ~files'[i].full,
               files'[i].parent \in Id, files'[files'[i].parent] # Missing
        PROVE  Covers(files'[i].state, files'[files'[i].parent].state)
    <3>1. files'[i] = files[i] /\ files'[files[i].parent] = files[files[i].parent]
      BY <2>2, <2>3
    <3> QED
      BY <1>3, <2>3, <3>1
  <2> QED
    BY <2>1, <2>3 DEF GrowInv
<1>9. CASE RenameEngine
  <2>1. /\ files' = files /\ newest' = [step |-> draft.step, state |-> draft.state]
        /\ draft.state = state /\ state' = state
    BY <1>9, SavedIsLatest DEF RenameEngine, StepOver
  <2>2. Covers(state', newest'.state)
    BY <2>1 DEF Covers
  <2> QED
    BY <2>1, <2>2 DEF GrowInv
<1>10. CASE RenameJanitor \/ FindParent \/ EndRun \/ BeginCleanup \/ SkipMissing \/ CleanupDone
  BY <1>4, <1>10 DEF RenameJanitor, FindParent, EndRun, BeginCleanup, SkipMissing, CleanupDone, diskVars,
                     opVars, runVars
<1>11. CASE CommitFails \/ CleanupFails \/ TimeoutRun \/ LeftFades \/ LeftLands \/ Crash
  BY <1>4, <1>11 DEF opVars, CommitFails, CleanupFails, TimeoutRun, LeftFades, LeftLands, Crash, StepOver, diskVars, runVars
<1>12. ASSUME NEW kind \in {"halt", "step"}, BeginCommit(kind) PROVE GrowInv'
  BY <1>4, <1>12 DEF BeginCommit, diskVars
<1>13. ASSUME NEW a \in Actor, LoadIndex(a) \/ OpenTmp(a) \/ FillTmp(a) PROVE GrowInv'
  BY <1>4, <1>13 DEF LoadIndex, OpenTmp, FillTmp, diskVars, runVars
<1>14. CASE UNCHANGED vars
  BY <1>4, <1>14 DEF vars, diskVars, opVars, runVars
<1> QED
  BY <1>5, <1>6, <1>7, <1>8, <1>9, <1>10, <1>11, <1>12, <1>13, <1>14 DEF Next, EngineStep, JanitorStep

\* What load_full_state puts together is the state map of the checkpoint itself.
LEMMA MergedIsOwn ==
  ASSUME SoundInv, ParentInv, GrowInv, NEW i \in Id, files[i] # Missing
  PROVE  Merged[i] = files[i].state
<1> DEFINE E(h, j) == IF j \notin Id THEN NoEntries
                      ELSE IF files[j] = Missing THEN NoEntries
                      ELSE IF files[j].full THEN files[j].state
                      ELSE Overlay(files[j].state, h[files[j].parent])
           own == [j \in Nat |-> IF j \notin Id THEN NoEntries
                                 ELSE IF files[j] = Missing THEN NoEntries ELSE files[j].state]
<1>1. /\ files \in [Id -> Checkpoint \cup {Missing}]
      /\ \A j \in Id : j \in Nat
      /\ \A j \in Id : files[j] # Missing => files[j] \in Checkpoint /\ files[j].state \in State
                                           /\ files[j].parent \in Nat
  <2>1. files \in [Id -> Checkpoint \cup {Missing}] /\ \A j \in Id : j \in Nat
    BY DEF SoundInv, TypeInv, TypeOK, Id
  <2>2. \A j \in Id : files[j] # Missing => files[j] \in Checkpoint
    BY <2>1
  <2>3. \A c \in Checkpoint : c.state \in State /\ c.parent \in Nat
    BY <2>1 DEF Checkpoint, NoId
  <2> QED
    BY <2>1, <2>2, <2>3
<1>2. \A j \in Id : files[j] # Missing /\ ~files[j].full =>
        Overlay(files[j].state, own[files[j].parent]) = files[j].state
  <2> SUFFICES ASSUME NEW j \in Id, files[j] # Missing, ~files[j].full
               PROVE  Overlay(files[j].state, own[files[j].parent]) = files[j].state
    OBVIOUS
  <2> DEFINE p == files[j].parent
  <2>1. \A k \in Key : files[j].state[k] = Absent => own[p][k] = Absent
    <3>1. CASE p \notin Id \/ files[p] = Missing
      BY <1>1, <3>1 DEF NoEntries
    <3>2. CASE p \in Id /\ files[p] # Missing
      BY <1>1, <3>2 DEF GrowInv, Covers
    <3> QED
      BY <3>1, <3>2
  <2>2. files[j].state \in [Key -> Val \cup {Absent}]
    BY <1>1 DEF State
  <2> HIDE DEF own, p
  <2>3. Overlay(files[j].state, own[p]) = [k \in Key |-> files[j].state[k]]
    BY <2>1 DEF Overlay
  <2> QED
    BY <2>2, <2>3 DEF p
<1>3. own = [j \in Nat |-> E(own, j)]
  <2>1. \A j \in Nat : own[j] = E(own, j)
    BY <1>2
  <2> QED
    BY <2>1
<1>4. Merged = CHOOSE h : h = [j \in Nat |-> E(h, j)]
  BY DEF Merged
<1> HIDE DEF E
<1>5. Merged = [j \in Nat |-> E(Merged, j)]
  BY <1>3, <1>4
<1>6. \A j \in Nat : Merged[j] = E(Merged, j)
  BY <1>5
<1> DEFINE Wrong == {j \in Nat : Merged[j] # own[j]}
<1>7. Wrong = {}
  <2> SUFFICES ASSUME Wrong # {} PROVE FALSE
    OBVIOUS
  <2>1. PICK j \in Wrong : \A l \in Wrong : j <= l
    <3>1. Wrong \in SUBSET Nat
      OBVIOUS
    <3> HIDE DEF Wrong
    <3> QED
      BY <3>1, SmallestOf
  <2>2. j \in Nat /\ Merged[j] # own[j]
    BY <2>1
  <2>3. j \in Id /\ files[j] # Missing /\ ~files[j].full
    BY <1>6, <2>2 DEF E
  <2>4. files[j].parent \in Nat /\ files[j].parent < j
    BY <1>1, <2>3 DEF ParentInv
  <2>5. Merged[files[j].parent] = own[files[j].parent]
    BY <2>1, <2>2, <2>4
  <2>6. Merged[j] = Overlay(files[j].state, own[files[j].parent])
    BY <1>6, <2>2, <2>3, <2>5 DEF E
  <2>7. own[j] = files[j].state
    BY <2>2, <2>3
  <2> QED
    BY <1>2, <2>2, <2>3, <2>6, <2>7
<1>8. Merged[i] = own[i]
  BY <1>1, <1>7
<1> QED
  BY <1>1, <1>8

-----------------------------------------------------------------------------
(* The register.                                                            *)

RegisterInv == SoundInv /\ OrderInv /\ NewestInv /\ ParentInv /\ GrowInv

LEMMA RegisterInit == Init => RegisterInv
  BY SoundInit, OrderInit, NewestInit, ParentInit, GrowInit DEF RegisterInv

LEMMA RegisterStep == RegisterInv /\ OneRun /\ ~MayClear /\ [Next]_vars => RegisterInv'
<1> SUFFICES ASSUME RegisterInv, OneRun, ~MayClear, [Next]_vars PROVE RegisterInv'
  OBVIOUS
<1>1. ~Concurrent /\ SoundInv /\ OrderInv /\ NewestInv /\ ParentInv /\ GrowInv
  BY DEF RegisterInv, OneRun
<1>2. SoundInv' /\ OrderInv' /\ NewestInv' /\ ParentInv' /\ GrowInv'
  BY <1>1, SoundStep, OrderStep, NewestStep, ParentStep, GrowStep
<1> QED
  BY <1>2 DEF RegisterInv

ReadsShown == Recovered = Shown

LEMMA RegisterReads == RegisterInv => ReadsShown /\ RecoversNewest
<1> SUFFICES ASSUME RegisterInv PROVE Recovered = Shown
  BY DEF ReadsShown, RecoversNewest, RegisterInv, NewestInv
<1>1. SoundInv /\ NewestInv /\ ParentInv /\ GrowInv /\ index # Torn /\ (index # <<>> => Latest \in Id)
  BY LatestIsListed DEF RegisterInv, SoundInv, WriteInv
<1>2. CASE index = <<>>
  BY <1>2 DEF Recovered, Readable, Shown
<1>3. CASE index # <<>>
  <2>1. Latest \in Id /\ files[Latest] # Missing
    BY <1>1, <1>3 DEF NewestInv
  <2>2. Merged[Latest] = files[Latest].state
    BY <1>1, <2>1, MergedIsOwn
  <2> QED
    BY <1>1, <1>3, <2>1, <2>2 DEF Recovered, Readable, Latest, Shown
<1> QED
  BY <1>2, <1>3

\* A recovery loads exactly the state of the last save that returned Ok, or that
\* of the one save whose rename outlived a timeout, through crashes, I/O errors
\* and cleanups between any two file operations.
THEOREM RecoveryIsExact == OneRun /\ ~MayClear => (Spec => []RecoversNewest)
<1> SUFFICES ASSUME OneRun, ~MayClear PROVE Spec => []RecoversNewest
  OBVIOUS
<1>1. RegisterInv /\ [Next]_vars => RegisterInv'
  BY RegisterStep
<1> QED
  BY <1>1, RegisterInit, RegisterReads, PTL DEF Spec

\* A save is the only step that changes what a recovery reads, whether it is
\* still awaited or not, and it takes the state the run is in.
LEMMA ShownSteps ==
  ASSUME RegisterInv, OneRun, [Next]_vars
  PROVE  Shown' = Shown \/ Shown' = [step |-> step, state |-> state]
<1>1. CASE RenameEngine \/ LeftLands
  BY <1>1, SavedIsLatest DEF RegisterInv
<1>2. CASE ~RenameEngine /\ ~LeftLands
  BY <1>2, ShownStep DEF RegisterInv
<1> QED
  BY <1>1, <1>2

\* The files, the index and the temporary file implement one register that is
\* written atomically: SavedState, which WorkflowEngine takes for granted.
THEOREM RegisterImplemented == OneRun /\ ~MayClear => (Spec => ImplementsRegister)
<1> SUFFICES ASSUME OneRun, ~MayClear PROVE Spec => Register!Spec
  BY DEF ImplementsRegister
<1>1. RegisterInv /\ [Next]_vars => RegisterInv'
  BY RegisterStep
<1>2. Init => Shown = NoState
  BY DEF Init, Shown
<1>3. ReadsShown /\ Shown = NoState => Register!Init
  BY DEF ReadsShown, Register!Init
<1>4. RegisterInv /\ ReadsShown /\ ReadsShown' /\ [Next]_vars
        => [Register!Next]_<<[step |-> step, state |-> state], Recovered>>
  <2> SUFFICES ASSUME RegisterInv, ReadsShown, ReadsShown', [Next]_vars
               PROVE  [Register!Next]_<<[step |-> step, state |-> state], Recovered>>
    OBVIOUS
  <2>1. Recovered = Shown /\ Recovered' = Shown'
    BY DEF ReadsShown
  <2>2. Recovered' = Recovered \/ Recovered' = [step |-> step, state |-> state]
    BY <2>1, ShownSteps
  <2> QED
    BY <2>2 DEF Register!Next, Register!Work, Register!Save
<1> QED
  BY <1>1, <1>2, <1>3, <1>4, RegisterInit, RegisterReads, PTL DEF Spec, Register!Spec

-----------------------------------------------------------------------------
(* How many increments a recovery reads.                                    *)

DepthIn(fs, h, j) == IF j \notin Id THEN 0
                     ELSE IF fs[j] = Missing \/ fs[j].full THEN 0
                     ELSE 1 + h[fs[j].parent]

DepthOf(fs) == CHOOSE h : h = [j \in Nat |-> DepthIn(fs, h, j)]

\* Files whose parents come before them.
Rooted(fs) ==
  /\ fs \in [Id -> Checkpoint \cup {Missing}]
  /\ \A i \in Id : fs[i] # Missing /\ ~fs[i].full => fs[i].parent < i

LEMMA DepthIs == Depth = DepthOf(files) /\ Depth' = DepthOf(files')
  BY DEF Depth, DepthOf, DepthIn

LEMMA ParentFacts ==
  ASSUME NEW fs, Rooted(fs), NEW i \in Id, fs[i] # Missing, ~fs[i].full
  PROVE  fs[i].parent \in Nat /\ fs[i].parent < i /\ i \in Nat
<1>1. fs[i] \in Checkpoint /\ i \in Nat
  BY DEF Rooted, Id
<1>2. fs[i].parent \in Nat
  BY <1>1 DEF Checkpoint, Id, NoId
<1> QED
  BY <1>1, <1>2 DEF Rooted

\* The recursive function is defined: its values can be filled in from below.
LEMMA DepthFacts ==
  ASSUME NEW fs, Rooted(fs)
  PROVE  /\ DepthOf(fs) \in [Nat -> Nat]
         /\ \A j \in Nat : DepthOf(fs)[j] = DepthIn(fs, DepthOf(fs), j)
<1> DEFINE Filled(h, n) == \A j \in Nat : h[j] = IF j <= n THEN DepthIn(fs, h, j) ELSE 0
           Bad == {n \in Nat : ~\E h \in [Nat -> Nat] : Filled(h, n)}
<1>1. Bad = {}
  <2> SUFFICES ASSUME Bad # {} PROVE FALSE
    OBVIOUS
  <2>1. PICK n \in Bad : \A m \in Bad : n <= m
    <3>1. Bad \in SUBSET Nat
      OBVIOUS
    <3> HIDE DEF Bad
    <3> QED
      BY <3>1, SmallestOf
  <2>2. n \in Nat /\ ~\E h \in [Nat -> Nat] : Filled(h, n)
    BY <2>1
  <2>3. n # 0
    <3> SUFFICES ASSUME n = 0 PROVE FALSE
      OBVIOUS
    <3> DEFINE z == [j \in Nat |-> 0]
    <3>1. z \in [Nat -> Nat] /\ DepthIn(fs, z, 0) = 0
      BY DEF DepthIn, Id
    <3>2. \A j \in Nat : j <= 0 => j = 0
      OBVIOUS
    <3>3. Filled(z, 0)
      BY <3>1, <3>2
    <3> QED
      BY <2>2, <3>1, <3>3
  <2>4. n - 1 \in Nat /\ n - 1 \notin Bad
    BY <2>1, <2>2, <2>3
  <2>5. PICK h \in [Nat -> Nat] : Filled(h, n - 1)
    BY <2>4
  <2> DEFINE g == [h EXCEPT ![n] = DepthIn(fs, h, n)]
  <2>6. DepthIn(fs, h, n) \in Nat
    BY ParentFacts DEF DepthIn
  <2>7. g \in [Nat -> Nat] /\ g[n] = DepthIn(fs, h, n) /\ \A j \in Nat : j # n => g[j] = h[j]
    BY <2>2, <2>5, <2>6
  <2> HIDE DEF g, Filled
  <2>8. \A j \in Nat : j <= n => DepthIn(fs, g, j) = DepthIn(fs, h, j)
    <3> TAKE j \in Nat
    <3> HAVE j <= n
    <3>1. CASE j \in Id /\ fs[j] # Missing /\ ~fs[j].full
      <4>1. fs[j].parent \in Nat /\ fs[j].parent < j
        BY <3>1, ParentFacts
      <4>2. g[fs[j].parent] = h[fs[j].parent]
        BY <2>2, <2>7, <4>1
      <4> QED
        BY <4>2 DEF DepthIn
    <3>2. CASE ~(j \in Id /\ fs[j] # Missing /\ ~fs[j].full)
      BY <3>2 DEF DepthIn
    <3> QED
      BY <3>1, <3>2
  <2>9. Filled(g, n)
    <3> SUFFICES ASSUME NEW j \in Nat PROVE g[j] = IF j <= n THEN DepthIn(fs, g, j) ELSE 0
      BY DEF Filled
    <3>1. h[j] = IF j <= n - 1 THEN DepthIn(fs, h, j) ELSE 0
      BY <2>5 DEF Filled
    <3>2. CASE j = n
      BY <2>7, <2>8, <3>2
    <3>3. CASE j # n
      <4>1. (j <= n - 1) <=> (j <= n)
        BY <2>2, <3>3
      <4> QED
        BY <2>7, <2>8, <3>1, <3>3, <4>1
    <3> QED
      BY <3>2, <3>3
  <2> QED
    BY <2>2, <2>7, <2>9
<1>2. PICK h \in [Nat -> Nat] : Filled(h, MaxId)
  BY <1>1, StoreAssumption
<1>3. h = [j \in Nat |-> DepthIn(fs, h, j)]
  <2>1. \A j \in Nat : ~(j <= MaxId) => j \notin Id
    BY StoreAssumption DEF Id
  <2>2. \A j \in Nat : h[j] = DepthIn(fs, h, j)
    BY <1>2, <2>1 DEF DepthIn
  <2> QED
    BY <2>2
<1> DEFINE d == DepthOf(fs)
<1>4. d = [j \in Nat |-> DepthIn(fs, d, j)]
  BY <1>3 DEF DepthOf
<1> HIDE DEF d
<1>5. \A j \in Nat : d[j] = DepthIn(fs, d, j)
  BY <1>4
<1>6. \A j \in Nat : d[j] \in Nat
  <2> DEFINE Wrong == {j \in Nat : d[j] \notin Nat}
  <2> SUFFICES ASSUME Wrong # {} PROVE FALSE
    OBVIOUS
  <2>1. PICK j \in Wrong : \A l \in Wrong : j <= l
    <3>1. Wrong \in SUBSET Nat
      OBVIOUS
    <3> HIDE DEF Wrong
    <3> QED
      BY <3>1, SmallestOf
  <2>2. j \in Nat /\ d[j] \notin Nat
    BY <2>1
  <2>3. j \in Id /\ fs[j] # Missing /\ ~fs[j].full
    BY <1>5, <2>2 DEF DepthIn
  <2>4. fs[j].parent \in Nat /\ fs[j].parent < j
    BY <2>3, ParentFacts
  <2>5. d[fs[j].parent] \in Nat
    BY <2>1, <2>2, <2>4
  <2> QED
    BY <1>5, <2>2, <2>3, <2>5 DEF DepthIn
<1> QED
  BY <1>4, <1>5, <1>6 DEF d

\* A removed file cuts the chains through it, a new one leaves the older ones.
LEMMA DepthShrinks ==
  ASSUME NEW fs, Rooted(fs), NEW gs, Rooted(gs), NEW n \in Nat,
         \A i \in Id : i <= n => gs[i] = fs[i] \/ gs[i] = Missing
  PROVE  \A j \in Nat : j <= n => DepthOf(gs)[j] <= DepthOf(fs)[j]
<1> DEFINE d == DepthOf(fs)
           e == DepthOf(gs)
<1>1. /\ d \in [Nat -> Nat] /\ \A j \in Nat : d[j] = DepthIn(fs, d, j)
      /\ e \in [Nat -> Nat] /\ \A j \in Nat : e[j] = DepthIn(gs, e, j)
  BY DepthFacts
<1> HIDE DEF d, e
<1> DEFINE Wrong == {j \in Nat : j <= n /\ ~(e[j] <= d[j])}
<1>2. Wrong = {}
  <2> SUFFICES ASSUME Wrong # {} PROVE FALSE
    OBVIOUS
  <2>1. PICK j \in Wrong : \A l \in Wrong : j <= l
    <3>1. Wrong \in SUBSET Nat
      OBVIOUS
    <3> HIDE DEF Wrong
    <3> QED
      BY <3>1, SmallestOf
  <2>2. j \in Nat /\ j <= n /\ ~(e[j] <= d[j]) /\ e[j] \in Nat /\ d[j] \in Nat
    BY <1>1, <2>1
  <2>3. e[j] # 0
    BY <2>2
  <2>4. j \in Id /\ gs[j] # Missing /\ ~gs[j].full
    BY <1>1, <2>2, <2>3 DEF DepthIn
  <2>5. gs[j] = fs[j] /\ gs[j].parent \in Nat /\ gs[j].parent < j
    BY <2>2, <2>4, ParentFacts
  <2>6. e[gs[j].parent] <= d[gs[j].parent]
    BY <2>1, <2>2, <2>5
  <2>7. e[j] = 1 + e[gs[j].parent] /\ d[j] = 1 + d[gs[j].parent]
    BY <1>1, <2>2, <2>4, <2>5 DEF DepthIn
  <2> QED
    BY <1>1, <2>2, <2>5, <2>6, <2>7
<1> QED
  BY <1>2 DEF d, e

\* Increments since the last full snapshot, by the counter of commits.
Bound(c) == IF c = 0 THEN 0 ELSE ((c - 1) % Interval) + 1

LEMMA Remainder ==
  ASSUME NEW n \in Nat, n > 0, NEW q \in Nat, NEW r \in Nat, r < n
  PROVE  (n * q + r) % n = r
  OBVIOUS

LEMMA BoundFacts ==
  ASSUME NEW c \in Nat
  PROVE  /\ Bound(c) \in Nat /\ Bound(c) <= Interval
         /\ ~(c > 0 /\ c % Interval = 0) => Bound(c + 1) = Bound(c) + 1
<1>1. Interval \in Nat /\ Interval > 0
  BY StoreAssumption
<1>2. c > 0 => (c - 1) % Interval \in 0 .. Interval - 1
  BY <1>1
<1>3. Bound(c) \in Nat /\ Bound(c) <= Interval
  BY <1>1, <1>2 DEF Bound
<1>4. CASE c = 0
  <2>1. (c + 1 - 1) % Interval = 0
    BY <1>1, <1>4
  <2> QED
    BY <1>3, <1>4, <2>1 DEF Bound
<1>5. ASSUME c > 0, c % Interval # 0 PROVE Bound(c + 1) = Bound(c) + 1
  <2>1. c % Interval = ((c - 1) % Interval) + 1
    <3> DEFINE q == (c - 1) \div Interval
               r == (c - 1) % Interval
    <3>1. q \in Nat /\ r \in Nat /\ r < Interval /\ c - 1 = Interval * q + r
      BY <1>1, <1>5
    <3> HIDE DEF q, r
    <3>2. CASE r + 1 < Interval
      <4>1. c = Interval * q + (r + 1)
        BY <1>1, <3>1
      <4> QED
        <5>1. r + 1 \in Nat
          BY <3>1
        <5>2. (Interval * q + (r + 1)) % Interval = r + 1
          BY <1>1, <3>1, <3>2, <5>1, Remainder
        <5> QED
          BY <4>1, <5>2 DEF r
    <3>3. CASE r + 1 = Interval
      <4>1. c = Interval * (q + 1) + 0
        BY <1>1, <3>1, <3>3
      <4> QED
        BY <1>1, <1>5, <3>1, <4>1, Remainder
    <3> QED
      BY <1>1, <3>1, <3>2, <3>3
  <2>2. c + 1 - 1 = c /\ c + 1 # 0 /\ c # 0
    BY <1>5
  <2> QED
    BY <2>1, <2>2 DEF Bound
<1> QED
  BY <1>3, <1>4, <1>5

ChainInv ==
  /\ alive => DepthOf(files)[Latest] <= Bound(counter)
  /\ DepthOf(files)[Latest] <= Interval
  /\ alive /\ step = -1 => ~halted /\ pc["engine"] # "idle"
  /\ pc["engine"] # "idle" => (draft.full <=> step = -1 \/ IsFull)
  /\ Saving => DepthOf(files)[draftId] <= IF draft.full THEN 0 ELSE Bound(counter) + 1

ListedInv == SoundInv /\ OrderInv /\ NewestInv /\ ParentInv

LEMMA ListedInit == Init => ListedInv
  BY SoundInit, OrderInit, NewestInit, ParentInit DEF ListedInv

LEMMA ListedStep == ListedInv /\ OneRun /\ [Next]_vars => ListedInv'
<1> SUFFICES ASSUME ListedInv, OneRun, [Next]_vars PROVE ListedInv'
  OBVIOUS
<1>1. ~Concurrent /\ SoundInv /\ OrderInv /\ NewestInv /\ ParentInv
  BY DEF ListedInv, OneRun
<1>2. SoundInv' /\ OrderInv' /\ NewestInv' /\ ParentInv'
  BY <1>1, SoundStep, OrderStep, NewestStep, ParentStep
<1> QED
  BY <1>2 DEF ListedInv

\* When cleanup never overlaps a save, the latest entry of the index can be loaded
\* in every state, whichever file operations of either fail.
THEOREM LatestIsThere == OneRun => (Spec => []LatestLoads)
<1> SUFFICES ASSUME OneRun PROVE Spec => []LatestLoads
  OBVIOUS
<1>1. ListedInv => LatestLoads
  BY DEF ListedInv, NewestInv, LatestLoads, Latest
<1>2. ListedInv /\ [Next]_vars => ListedInv'
  BY ListedStep
<1> QED
  BY <1>1, <1>2, ListedInit, PTL DEF Spec

LEMMA FilesRooted == ListedInv => Rooted(files)
  BY DEF ListedInv, SoundInv, TypeInv, TypeOK, ParentInv, Rooted

LEMMA FilesRootedNext == ListedInv' => Rooted(files')
  BY DEF ListedInv, SoundInv, TypeInv, TypeOK, ParentInv, Rooted

LEMMA NoDepth ==
  ASSUME NEW fs, Rooted(fs)
  PROVE  /\ DepthOf(fs)[NoId] = 0
         /\ \A i \in Id \cup {NoId} : DepthOf(fs)[i] \in Nat
<1>1. DepthOf(fs) \in [Nat -> Nat] /\ \A j \in Nat : DepthOf(fs)[j] = DepthIn(fs, DepthOf(fs), j)
  BY DepthFacts
<1>2. NoId \in Nat /\ NoId \notin Id /\ \A i \in Id : i \in Nat
  BY DEF NoId, Id
<1> QED
  BY <1>1, <1>2 DEF DepthIn

LEMMA ChainInit == Init => ChainInv
<1> SUFFICES ASSUME Init PROVE ChainInv
  OBVIOUS
<1>1. Rooted(files)
  BY ListedInit, FilesRooted
<1>2. ~alive /\ pc["engine"] = "idle" /\ Latest = NoId /\ Interval \in Nat
  BY StoreAssumption DEF Init, Actor, Latest, LatestId
<1>3. DepthOf(files)[Latest] = 0
  BY <1>1, <1>2, NoDepth
<1> QED
  BY <1>2, <1>3 DEF ChainInv, Saving

LEMMA ChainStep == ListedInv /\ ChainInv /\ OneRun /\ [Next]_vars => ChainInv'
<1> SUFFICES ASSUME ListedInv, ChainInv, OneRun, [Next]_vars PROVE ChainInv'
  OBVIOUS
<1>1. /\ SoundInv /\ OrderInv /\ NewestInv /\ ParentInv /\ TypeInv /\ WriteInv /\ index \in Seq(Info)
      /\ ~Concurrent /\ files \in [Id -> Checkpoint \cup {Missing}] /\ todo \in Seq(Id)
      /\ pc \in [Actor -> {"idle", "list", "file", "remove", "load", "open", "fill", "rename"}]
      /\ counter \in Nat /\ step \in Int /\ step >= -1 /\ draft \in Checkpoint
      /\ halted \in BOOLEAN
  BY StoreAssumption DEF ListedInv, OneRun, SoundInv, TypeInv, TypeOK, WriteInv, Step
<1>2. ListedInv' /\ Rooted(files) /\ Rooted(files')
  BY ListedStep, FilesRooted, FilesRootedNext
<1>3. /\ Latest \in Id \cup {NoId} /\ Latest <= issued /\ issued \in Nat
      /\ Latest \in Nat /\ DepthOf(files)[Latest] \in Nat
  BY <1>1, <1>2, LatestIsListed, NoDepth DEF Id, NoId
<1>4. /\ Bound(counter) \in Nat /\ Bound(counter) <= Interval /\ Interval \in Nat
      /\ ~IsFull => Bound(counter + 1) = Bound(counter) + 1
      /\ Bound(counter + 1) \in Nat /\ Bound(counter + 1) <= Interval
  <2>1. counter + 1 \in Nat
    BY <1>1
  <2> QED
    BY <1>1, <2>1, BoundFacts, StoreAssumption DEF IsFull
<1>5. CASE RenameEngine
  <2>1. /\ Latest' = draftId /\ files' = files /\ draft.step = step /\ alive
        /\ counter' = IF step = -1 THEN counter ELSE counter + 1
        /\ pc["engine"] = "rename" /\ Saving /\ pc'["engine"] = "idle" /\ draftId \in Id
        /\ step' = IF halted THEN step ELSE step + 1
    BY <1>1, <1>5, SavedIsLatest DEF RenameEngine, StepOver, Saving, Actor, TypeInv, Shape
  <2>2. /\ DepthOf(files)[draftId] <= IF draft.full THEN 0 ELSE Bound(counter) + 1
        /\ draft.full <=> step = -1 \/ IsFull
        /\ DepthOf(files)[draftId] \in Nat
        /\ step' # -1
    BY <1>1, <1>2, <2>1, NoDepth DEF ChainInv
  <2>3. counter' \in Nat /\ Bound(counter') \in Nat /\ Bound(counter') <= Interval
    BY <1>1, <1>4, <2>1
  <2>4. DepthOf(files)[draftId] <= Bound(counter')
    <3>1. CASE draft.full
      BY <2>2, <2>3, <3>1
    <3>2. CASE ~draft.full
      BY <1>1, <1>4, <2>1, <2>2, <3>2
    <3> QED
      BY <3>1, <3>2
  <2> QED
    BY <1>4, <2>1, <2>2, <2>3, <2>4 DEF ChainInv, Saving
<1>6. ASSUME Latest' = Latest, \A j \in Nat : j <= issued => DepthOf(files')[j] <= DepthOf(files)[j],
             alive' => alive /\ counter' = counter
      PROVE  /\ alive' => DepthOf(files')[Latest'] <= Bound(counter')
             /\ DepthOf(files')[Latest'] <= Interval
  <2>1. DepthOf(files')[Latest] <= DepthOf(files)[Latest] /\ DepthOf(files')[Latest] \in Nat
    BY <1>2, <1>3, <1>6, NoDepth
  <2> QED
    BY <1>3, <1>4, <1>6, <2>1 DEF ChainInv
<1>7. ASSUME files' = files PROVE \A j \in Nat : j <= issued => DepthOf(files')[j] <= DepthOf(files)[j]
  BY <1>2, <1>7, DepthFacts
<1>8. CASE StartRun
  <2>1. /\ index = <<>> /\ index' = <<>> /\ counter' = counter /\ step' = -1 /\ ~halted'
        /\ draft'.full /\ pc'["engine"] = "file"
    BY <1>1, <1>8, StoreAssumption DEF StartRun, OrderInv, OneRun, NoDraft, diskVars, Actor
  <2>2. Latest' = NoId /\ DepthOf(files')[NoId] = 0
    BY <1>2, <2>1, NoDepth DEF Latest, LatestId
  <2> QED
    BY <1>4, <2>1, <2>2 DEF ChainInv, Saving
<1>9. ASSUME NEW kind \in {"halt", "step"}, BeginCommit(kind) PROVE ChainInv'
  <2>1. /\ UNCHANGED <<index, files, counter, alive, step>> /\ alive /\ pc["engine"] = "idle"
        /\ pc'["engine"] \in {"file", "list"} /\ draft'.full = IsFull
    BY <1>1, <1>9 DEF BeginCommit, diskVars, Actor
  <2>2. step # -1 /\ IsFull' = IsFull
    BY <2>1 DEF ChainInv, IsFull
  <2>3. Latest' = Latest
    BY <2>1 DEF Latest
  <2> QED
    BY <1>6, <1>7, <2>1, <2>2, <2>3 DEF ChainInv, Saving
<1>10. CASE WriteFile
  <2>1. /\ UNCHANGED <<index, counter, alive, step, halted, draft>> /\ pc["engine"] = "file"
        /\ files' = [files EXCEPT ![issued + 1] = draft] /\ draftId' = issued + 1
        /\ pc'["engine"] = "load" /\ issued + 1 \in Id
    BY <1>1, <1>3, <1>10, StoreAssumption DEF WriteFile, Actor, Id
  <2>2. \A j \in Nat : j <= issued => DepthOf(files')[j] <= DepthOf(files)[j]
    <3>1. \A i \in Id : i <= issued => files'[i] = files[i] \/ files'[i] = Missing
      BY <1>1, <1>3, <2>1
    <3> QED
      BY <1>2, <1>3, <3>1, DepthShrinks
  <2>3. Latest' = Latest /\ IsFull' = IsFull
    BY <2>1 DEF Latest, IsFull
  <2>4. /\ alive' => DepthOf(files')[Latest'] <= Bound(counter')
        /\ DepthOf(files')[Latest'] <= Interval
    BY <1>6, <2>1, <2>2, <2>3
  <2>5. files'[draftId'] = draft
    BY <1>1, <2>1
  <2>6. DepthOf(files')[draftId'] = DepthIn(files', DepthOf(files'), draftId')
    <3>1. draftId' \in Nat
      BY <1>3, <2>1
    <3> QED
      BY <1>2, <3>1, DepthFacts
  <2>7. DepthOf(files')[draftId'] <= IF draft.full THEN 0 ELSE Bound(counter) + 1
    <3>1. CASE draft.full
      BY <2>1, <2>5, <2>6, <3>1 DEF DepthIn
    <3>2. CASE ~draft.full
      <4>1. draft.parent = Latest /\ draft # Missing
        BY <1>1, <2>1, <3>2, SentinelAssumption DEF ParentInv
      <4>2. DepthOf(files')[draftId'] = 1 + DepthOf(files')[Latest]
        BY <2>1, <2>5, <2>6, <3>2, <4>1 DEF DepthIn
      <4>3. alive /\ DepthOf(files')[Latest] <= Bound(counter) /\ DepthOf(files')[Latest] \in Nat
        BY <1>1, <1>2, <1>3, <2>1, <2>3, <2>4, NoDepth DEF TypeInv, Shape
      <4> QED
        BY <1>4, <3>2, <4>2, <4>3
    <3> QED
      BY <3>1, <3>2
  <2> QED
    BY <2>1, <2>3, <2>4, <2>7 DEF ChainInv
<1>11. CASE RemoveFile
  <2>1. /\ UNCHANGED <<index, counter, alive, step, halted>> /\ pc["engine"] = "idle"
        /\ files' = [files EXCEPT ![Head(todo)] = Missing] /\ pc'["engine"] = "idle"
    BY <1>1, <1>11 DEF RemoveFile, WriteInv, runVars, Actor
  <2>2. \A j \in Nat : j <= issued => DepthOf(files')[j] <= DepthOf(files)[j]
    <3>1. \A i \in Id : i <= issued => files'[i] = files[i] \/ files'[i] = Missing
      BY <1>1, <2>1
    <3> QED
      BY <1>2, <1>3, <3>1, DepthShrinks
  <2>3. Latest' = Latest
    BY <2>1 DEF Latest
  <2> QED
    BY <1>6, <2>1, <2>2, <2>3 DEF ChainInv, Saving
<1>12. CASE RenameJanitor
  <2>1. /\ index' = Retained(index, Head(todo)) /\ todo # <<>> /\ pc["engine"] = "idle"
        /\ UNCHANGED <<files, counter, alive, step, halted>> /\ pc'["engine"] = "idle"
    BY <1>1, <1>12 DEF RenameJanitor, WriteInv, NewIndex, Actor, TypeInv, Shape, Removing, runVars
  <2>2. Latest' = Latest
    <3>1. 1 \in DOMAIN todo /\ Head(todo) = todo[1]
      BY <1>1, <2>1
    <3>2. InOrder(index) /\ index # <<>> /\ Head(todo) # LatestId(index)
      BY <1>1, <3>1 DEF OrderInv, NewestInv, Latest
    <3> DEFINE kept == Retained(index, Head(todo))
    <3>3. LatestId(kept) = LatestId(index)
      BY <1>1, <3>2, RetainedLatest
    <3>4. index' = kept
      BY <2>1
    <3> HIDE DEF kept
    <3> QED
      BY <3>3, <3>4 DEF Latest
  <2> QED
    BY <1>6, <1>7, <2>1, <2>2 DEF ChainInv, Saving
<1>13. CASE CommitFails
  <2>1. UNCHANGED <<index, files, counter>> /\ pc["engine"] # "idle" /\ pc'["engine"] = "idle"
    <3>1. pc["engine"] # "idle"
      BY <1>13 DEF CommitFails, Fails
    <3> QED
      BY <1>1, <1>13, <3>1 DEF CommitFails, diskVars, Actor
  <2>2. (alive' <=> alive) /\ (halted => step' = step) /\ (~halted => step' = step + 1)
    BY <1>13 DEF CommitFails, StepOver
  <2>3. Latest' = Latest
    BY <2>1 DEF Latest
  <2>4. alive' => step' # -1
    <3>1. alive /\ step = -1 => ~halted
      BY DEF ChainInv
    <3> QED
      BY <1>1, <2>2, <3>1
  <2>5. /\ alive' => DepthOf(files')[Latest'] <= Bound(counter')
        /\ DepthOf(files')[Latest'] <= Interval
    BY <1>6, <1>7, <2>1, <2>2, <2>3
  <2>6. ~Saving'
    BY <2>1 DEF Saving
  <2> QED
    BY <2>1, <2>4, <2>5, <2>6 DEF ChainInv
<1>14. CASE LeftFades \/ Crash \/ EndRun
  <2>1. UNCHANGED <<index, files>> /\ ~alive' /\ pc'["engine"] = "idle"
    BY <1>1, <1>14 DEF LeftFades, Crash, EndRun, diskVars, opVars, Actor
  <2>2. Latest' = Latest
    BY <2>1 DEF Latest
  <2> QED
    BY <1>6, <1>7, <2>1, <2>2 DEF ChainInv, Saving
<1>21. CASE LeftLands
  <2>1. /\ Latest' = draftId /\ files' = files /\ draft.step = step /\ ~alive'
        /\ pc["engine"] = "rename" /\ Saving /\ pc'["engine"] = "idle"
    BY <1>1, <1>21, SavedIsLatest DEF LeftLands, Saving, Actor
  <2>2. /\ DepthOf(files)[draftId] <= IF draft.full THEN 0 ELSE Bound(counter) + 1
        /\ draft.full <=> step = -1 \/ IsFull
        /\ DepthOf(files)[draftId] \in Nat
    BY <1>1, <1>2, <2>1, NoDepth DEF ChainInv, TypeInv, Shape
  <2>3. DepthOf(files)[draftId] <= Interval
    BY <1>1, <1>4, <2>2
  <2> QED
    BY <2>1, <2>3 DEF ChainInv, Saving
<1>15. ASSUME UNCHANGED <<index, files, counter, alive, step, halted, draftId>>,
              draft'.full = draft.full, Saving' <=> Saving,
              pc'["engine"] = "idle" <=> pc["engine"] = "idle"
       PROVE  ChainInv'
  <2>1. Latest' = Latest /\ IsFull' = IsFull /\ Bound(counter') = Bound(counter)
    BY <1>15 DEF Latest, IsFull
  <2>2. /\ alive' => DepthOf(files')[Latest'] <= Bound(counter')
        /\ DepthOf(files')[Latest'] <= Interval
    BY <1>6, <1>7, <1>15, <2>1
  <2>3. Saving => DepthOf(files')[draftId'] <= IF draft'.full THEN 0 ELSE Bound(counter') + 1
    BY <1>15, <2>1 DEF ChainInv
  <2> QED
    BY <1>15, <2>1, <2>2, <2>3 DEF ChainInv
<1>16. CASE FindParent
  <2>1. draft' = [draft EXCEPT !.parent = Latest]
    BY <1>16 DEF FindParent, Latest
  <2>2. draft'.full = draft.full
    BY <1>1, <2>1 DEF Checkpoint
  <2> QED
    BY <1>1, <1>15, <1>16, <2>2 DEF FindParent, diskVars, runVars, Saving, Actor
<1>17. CASE Work \/ TimeoutRun
  BY <1>1, <1>15, <1>17 DEF Work, TimeoutRun, diskVars, opVars, Saving
<1>18. CASE BeginCleanup \/ SkipMissing \/ CleanupDone \/ CleanupFails
  BY <1>1, <1>15, <1>18 DEF BeginCleanup, SkipMissing, CleanupDone, CleanupFails, diskVars, runVars, Saving,
                            Actor
<1>19. ASSUME NEW a \in Actor, LoadIndex(a) \/ OpenTmp(a) \/ FillTmp(a) PROVE ChainInv'
  <2>1. index' = index
    BY <1>1, <1>19, IndexSteps DEF LoadIndex, OpenTmp, FillTmp, RenameEngine, LeftLands, RenameJanitor, WriteInv,
                                   diskVars
  <2> QED
    BY <1>1, <1>15, <1>19, <2>1 DEF LoadIndex, OpenTmp, FillTmp, diskVars, runVars, Saving, Actor
<1>20. CASE UNCHANGED vars
  BY <1>15, <1>20 DEF vars, diskVars, opVars, runVars, Saving
<1> QED
  BY <1>5, <1>8, <1>9, <1>10, <1>11, <1>12, <1>13, <1>14, <1>16, <1>17, <1>18, <1>19, <1>20,
     <1>21
     DEF Next, EngineStep, JanitorStep

\* Recovery walks over at most full_snapshot_interval increments, also when saves
\* fail, a process restarts its count of commits or cleanup removes a snapshot.
THEOREM ChainsAreShort == OneRun => (Spec => []ChainBounded)
<1> SUFFICES ASSUME OneRun PROVE Spec => []ChainBounded
  OBVIOUS
<1>1. ListedInv /\ ChainInv => ChainBounded
  BY DepthIs DEF ChainInv, ChainBounded, Latest
<1>2. ListedInv /\ ChainInv /\ [Next]_vars => (ListedInv /\ ChainInv)'
  BY ListedStep, ChainStep
<1> QED
  BY <1>1, <1>2, ListedInit, ChainInit, PTL DEF Spec
===============================================================================
