--------------------------- MODULE NodeListProofs ---------------------------
(***************************************************************************)
(* What the operators of NodeList return, for lists and packets of every   *)
(* length: what they keep, and what one more record changes.               *)
(***************************************************************************)
EXTENDS NodeList, FiniteSetTheorems, NaturalsInduction, TLAPS

-----------------------------------------------------------------------------
(* What the operators of NodeList return, for lists and packets of any      *)
(* length.  First, positions in a sequence.                                 *)

\* The elements of a set of numbers up to a number.
Upto(F, k) == {i \in F : i <= k}

\* A non-empty set of natural numbers has a smallest element.
LEMMA Least ==
    ASSUME NEW F, F # {}, F \subseteq Nat
    PROVE  \E k \in F : \A m \in F : k <= m
<1>1. \A x, y \in Nat : ~ (<<x, y>> \in OpToRel(<, Nat)) => y <= x
  BY DEF OpToRel
<1>2. PICK k \in F : \A m \in F : ~ (<<m, k>> \in OpToRel(<, Nat))
  BY NatLessThanWellFounded, WFMin, Zenon
<1>. QED
  BY <1>1, <1>2

\* Positions of a sequence are numbers within its bounds.
LEMMA PositionBounds ==
    ASSUME NEW L \in Nat, NEW F \in SUBSET (1..L)
    PROVE  \A x \in F : x \in Nat /\ 1 <= x /\ x <= L
<1>1. \A x \in F : x \in 1..L
  OBVIOUS
<1>. QED
  BY <1>1

\* There are finitely many of them.
LEMMA PositionsFinite ==
    ASSUME NEW L \in Nat, NEW F \in SUBSET (1..L)
    PROVE  IsFiniteSet(F) /\ Cardinality(F) \in Nat
<1>1. IsFiniteSet(1..L)
  BY FS_Interval
<1>2. IsFiniteSet(F)
  BY <1>1, FS_Subset
<1>. QED
  BY <1>2, FS_CardinalityType

\* Going from k - 1 to k adds k, when it is there.
LEMMA UptoStep ==
    ASSUME NEW F, \A x \in F : x \in Nat, NEW k \in Nat
    PROVE  /\ k \notin F => Upto(F, k) = Upto(F, k - 1)
           /\ k \in F => /\ Upto(F, k) = Upto(F, k - 1) \cup {k}
                         /\ k \notin Upto(F, k - 1)
<1>1. CASE k \notin F
  BY <1>1 DEF Upto
<1>2. CASE k \in F
  <2>1. \A x \in Upto(F, k) : x \in Upto(F, k - 1) \cup {k}
    BY DEF Upto
  <2>2. \A x \in Upto(F, k - 1) \cup {k} : x \in Upto(F, k)
    BY <1>2 DEF Upto
  <2>3. k \notin Upto(F, k - 1)
    BY DEF Upto
  <2>. QED
    BY <1>2, <2>1, <2>2, <2>3
<1>. QED
  BY <1>1, <1>2

\* All of them at the end, none at the start.
LEMMA UptoEnds ==
    ASSUME NEW L \in Nat, NEW F, \A x \in F : x \in Nat /\ 1 <= x /\ x <= L
    PROVE  Upto(F, L) = F /\ Upto(F, 0) = {}
BY DEF Upto

\* A set of positions has a j-th smallest element for every j up to its size.
LEMMA NthExists ==
    ASSUME NEW L \in Nat, NEW F \in SUBSET (1..L), NEW j \in 1..Cardinality(F)
    PROVE  /\ Nth(F, j) \in F
           /\ Cardinality(Upto(F, Nth(F, j))) = j
<1> DEFINE C(k) == Cardinality(Upto(F, k))
           T == {k \in Nat : j <= C(k)}
<1>1. IsFiniteSet(F) /\ Cardinality(F) \in Nat
  BY PositionsFinite
<1>2. \A x \in F : x \in Nat /\ 1 <= x /\ x <= L
  BY PositionBounds
<1>3. j \in Nat /\ 1 <= j /\ j <= Cardinality(F)
  BY <1>1
<1>4. \A k : IsFiniteSet(Upto(F, k)) /\ C(k) \in Nat
  <2>1. \A k : Upto(F, k) \in SUBSET F
    BY DEF Upto
  <2>2. \A k : IsFiniteSet(Upto(F, k))
    BY <1>1, <2>1, FS_Subset
  <2>. QED
    BY <2>2, FS_CardinalityType
<1>5. C(L) = Cardinality(F) /\ C(0) = 0
  BY <1>2, UptoEnds, FS_EmptySet
<1>6. \A k \in Nat : /\ k \notin F => C(k) = C(k - 1)
                     /\ k \in F => C(k) = C(k - 1) + 1
  <2>1. TAKE k \in Nat
  <2>2. CASE k \notin F
    BY <1>2, <2>2, UptoStep
  <2>3. CASE k \in F
    <3>1. /\ Upto(F, k) = Upto(F, k - 1) \cup {k}
          /\ k \notin Upto(F, k - 1)
      BY <1>2, <2>3, UptoStep
    <3>. QED
      BY <2>3, <3>1, <1>4, FS_AddElement
  <2>. QED
    BY <2>2, <2>3
<1> HIDE DEF C
<1>7. PICK k \in T : \A m \in T : k <= m
  <2>1. L \in T
    BY <1>3, <1>5
  <2>. QED
    BY <2>1, Least
<1>8. k # 0 /\ k \in Nat /\ j <= C(k)
  BY <1>3, <1>5, <1>7
<1>9. k - 1 \in Nat /\ C(k - 1) < j
  <2>1. k - 1 \in Nat /\ k - 1 \notin T
    BY <1>7, <1>8
  <2>. QED
    BY <2>1, <1>3, <1>4
<1>10. k \in F /\ C(k) = j
  BY <1>3, <1>4, <1>6, <1>8, <1>9
<1>. QED
  <2>1. Nth(F, j) = CHOOSE x \in F : C(x) = j
    BY DEF Nth, C, Upto
  <2>2. Nth(F, j) \in F /\ C(Nth(F, j)) = j
    BY <1>10, <2>1
  <2>. QED
    BY <2>2 DEF C

\* The loops that pick some records out of a packet: a sequence again, whose
\* elements stand at different positions of the packet.
LEMMA Picked ==
    ASSUME NEW S, NEW recs \in Seq(S), NEW F \in SUBSET (1..Len(recs))
    PROVE  LET p == [j \in 1..Cardinality(F) |-> recs[Nth(F, j)]] IN
           /\ Cardinality(F) \in Nat
           /\ p \in Seq(S)
           /\ Len(p) = Cardinality(F)
           /\ \A j \in 1..Cardinality(F) : Nth(F, j) \in F
           /\ \A i, j \in 1..Cardinality(F) : i # j => Nth(F, i) # Nth(F, j)
<1>1. Len(recs) \in Nat
  OBVIOUS
<1>2. Cardinality(F) \in Nat
  <2>1. IsFiniteSet(1..Len(recs))
    BY <1>1, FS_Interval
  <2>. QED
    BY <2>1, FS_Subset, FS_CardinalityType
<1>3. \A j \in 1..Cardinality(F) : Nth(F, j) \in F
  BY <1>1, NthExists
<1>4. \A i, j \in 1..Cardinality(F) : i # j => Nth(F, i) # Nth(F, j)
  BY <1>1, NthExists
<1>5. \A j \in 1..Cardinality(F) : recs[Nth(F, j)] \in S
  <2>1. \A k \in F : k \in 1..Len(recs)
    OBVIOUS
  <2>2. \A k \in 1..Len(recs) : recs[k] \in S
    OBVIOUS
  <2>. QED
    BY <1>3, <2>1, <2>2
<1>. QED
  BY <1>2, <1>3, <1>4, <1>5

-----------------------------------------------------------------------------
\* "Storing List" appends: the entries already there stay where they are.
LEMMA StoreNewAppends ==
    ASSUME NEW S, NEW list \in Seq(S), NEW recs \in Seq(S)
    PROVE  /\ StoreNew(list, recs) \in Seq(S)
           /\ Len(list) <= Len(StoreNew(list, recs))
           /\ \A k \in 1..Len(list) : StoreNew(list, recs)[k] = list[k]
<1> DEFINE F == FreshAt(list, recs)
           p == [j \in 1..Cardinality(F) |-> recs[Nth(F, j)]]
<1>1. F \in SUBSET (1..Len(recs))
  BY DEF FreshAt
<1>2. p \in Seq(S) /\ Len(p) \in Nat
  BY <1>1, Picked
<1>3. StoreNew(list, recs) = list \o p
  BY DEF StoreNew
<1> HIDE DEF p
<1>. QED
  BY <1>2, <1>3

\* A non-empty set of positions has the smallest and the greatest element
\* that Min and Max choose.
LEMMA MinMaxExist ==
    ASSUME NEW L \in Nat, NEW F \in SUBSET (1..L), F # {}
    PROVE  /\ Min(F) \in F /\ \A x \in F : Min(F) <= x
           /\ Max(F) \in F /\ \A x \in F : x <= Max(F)
<1>1. \A x \in F : x \in Nat /\ 1 <= x /\ x <= L
  BY PositionBounds
<1>2. \E k \in F : \A m \in F : k <= m
  BY <1>1, Least
<1>3. \E k \in F : \A m \in F : m <= k
  <2> DEFINE D == {L - m : m \in F}
  <2>0. D # {}
    OBVIOUS
  <2>1. D \subseteq Nat
    <3>1. \A m \in F : L - m \in Nat
      BY <1>1
    <3>. QED
      BY <3>1
  <2>2. PICK d \in D : \A e \in D : d <= e
    BY <2>0, <2>1, Least
  <2>3. PICK k \in F : d = L - k
    OBVIOUS
  <2>4. \A m \in F : L - k <= L - m
    BY <2>2, <2>3
  <2>5. \A m \in F : m <= k
    BY <1>1, <2>4
  <2>. QED
    BY <2>5
<1>. QED
  BY <1>2, <1>3 DEF Min, Max

\* NodeResList overwrites an entry only with a record of the same id.
LEMMA LatestKeepsId ==
    ASSUME NEW S, NEW recs \in Seq(S), NEW s \in S
    PROVE  Latest(recs, s) \in S /\ Latest(recs, s).id = s.id
<1> DEFINE at == {k \in 1..Len(recs) : recs[k].id = s.id}
<1>1. CASE at = {}
  BY <1>1 DEF Latest
<1>2. CASE at # {}
  <2>1. at \in SUBSET (1..Len(recs)) /\ Len(recs) \in Nat
    OBVIOUS
  <2>2. Max(at) \in at
    BY <1>2, <2>1, MinMaxExist
  <2>3. Latest(recs, s) = recs[Max(at)]
    BY <1>2 DEF Latest
  <2>. QED
    BY <2>2, <2>3
<1>. QED
  BY <1>1, <1>2

\* NodeResList: the list grows and every entry keeps its id.
LEMMA StoreUpdateKeepsIds ==
    ASSUME NEW S, NEW list \in Seq(S), NEW recs \in Seq(S)
    PROVE  /\ StoreUpdate(list, recs) \in Seq(S)
           /\ Len(StoreUpdate(list, recs)) = Len(StoreNew(list, recs))
           /\ \A k \in 1..Len(StoreNew(list, recs)) :
                 StoreUpdate(list, recs)[k].id = StoreNew(list, recs)[k].id
<1> DEFINE g == StoreNew(list, recs)
<1>1. g \in Seq(S)
  BY StoreNewAppends
<1>2. StoreUpdate(list, recs) = [k \in 1..Len(g) |-> Latest(recs, g[k])]
  BY <1>1 DEF StoreUpdate
<1> HIDE DEF g
<1>3. \A k \in 1..Len(g) : Latest(recs, g[k]) \in S
                           /\ Latest(recs, g[k]).id = g[k].id
  BY <1>1, LatestKeepsId
<1>4. StoreUpdate(list, recs) \in Seq(S)
      /\ Len(StoreUpdate(list, recs)) = Len(g)
  BY <1>1, <1>2, <1>3
<1>. QED
  BY <1>2, <1>3, <1>4 DEF g

\* Where the elements of a concatenation come from.
LEMMA ConcatAt ==
    ASSUME NEW S, NEW a \in Seq(S), NEW b \in Seq(S)
    PROVE  /\ Len(a \o b) = Len(a) + Len(b)
           /\ Len(a) \in Nat /\ Len(b) \in Nat
           /\ \A k \in 1..Len(a) : (a \o b)[k] = a[k]
           /\ \A k \in (Len(a) + 1)..(Len(a) + Len(b)) :
                 (a \o b)[k] = b[k - Len(a)]
OBVIOUS

\* A list that names no node twice.
IdsDistinctIn(list) ==
    \A i, j \in 1..Len(list) : list[i].id = list[j].id => i = j

\* "Storing List" does not push an id that is listed, nor the same id twice.
LEMMA StoreNewDistinct ==
    ASSUME NEW S, NEW list \in Seq(S), NEW recs \in Seq(S), IdsDistinctIn(list)
    PROVE  IdsDistinctIn(StoreNew(list, recs))
<1> DEFINE F == FreshAt(list, recs)
           p == [j \in 1..Cardinality(F) |-> recs[Nth(F, j)]]
           L == Len(list)
           new == StoreNew(list, recs)
<1>1. F \in SUBSET (1..Len(recs))
  BY DEF FreshAt
<1>2. /\ Cardinality(F) \in Nat /\ p \in Seq(S) /\ Len(p) = Cardinality(F)
      /\ \A j \in 1..Cardinality(F) : Nth(F, j) \in F
      /\ \A i, j \in 1..Cardinality(F) : i # j => Nth(F, i) # Nth(F, j)
  BY <1>1, Picked
<1>3. new = list \o p
  BY DEF StoreNew
<1>4. \A j \in 1..Len(p) : p[j] = recs[Nth(F, j)]
  BY <1>2
<1>5. \A a \in F : \A i \in 1..L : list[i].id # recs[a].id
  BY DEF FreshAt, IsListContains
<1>6. \A a, b \in F : recs[a].id = recs[b].id => a = b
  BY DEF FreshAt
<1> HIDE DEF F, p
<1>7. /\ Len(new) = L + Len(p) /\ L \in Nat /\ Len(p) \in Nat
      /\ \A k \in 1..L : new[k] = list[k]
      /\ \A k \in (L + 1)..(L + Len(p)) : new[k] = p[k - L]
  BY <1>2, <1>3, ConcatAt
<1> HIDE DEF L, new
<1>8. ASSUME NEW i \in 1..Len(new), NEW j \in 1..Len(new), i <= L, j > L
      PROVE  new[i].id # new[j].id
  <2>1. i \in 1..L /\ j - L \in 1..Len(p) /\ j \in (L + 1)..(L + Len(p))
    BY <1>7, <1>8
  <2>2. new[j] = recs[Nth(F, j - L)] /\ Nth(F, j - L) \in F
    BY <1>2, <1>4, <1>7, <2>1
  <2>. QED
    BY <1>5, <1>7, <2>1, <2>2
<1>9. ASSUME NEW i \in 1..Len(new), NEW j \in 1..Len(new), i > L, j > L,
             new[i].id = new[j].id
      PROVE  i = j
  <2>1. /\ i - L \in 1..Len(p) /\ j - L \in 1..Len(p)
        /\ i \in (L + 1)..(L + Len(p)) /\ j \in (L + 1)..(L + Len(p))
    BY <1>7, <1>9
  <2>2. recs[Nth(F, i - L)].id = recs[Nth(F, j - L)].id
    BY <1>4, <1>7, <1>9, <2>1
  <2>3. Nth(F, i - L) = Nth(F, j - L)
    BY <1>2, <1>6, <2>1, <2>2
  <2>4. i - L = j - L
    BY <1>2, <2>1, <2>3
  <2>. QED
    BY <1>7, <2>4
<1>10. ASSUME NEW i \in 1..Len(new), NEW j \in 1..Len(new), i <= L, j <= L,
             new[i].id = new[j].id
      PROVE  i = j
  <2>1. i \in 1..L /\ j \in 1..L
    BY <1>7, <1>10
  <2>. QED
    BY <1>7, <1>10, <2>1 DEF IdsDistinctIn, L
<1>11. \A i, j \in 1..Len(new) : new[i].id = new[j].id => i = j
  <2>1. \A i \in 1..Len(new) : i <= L \/ i > L
    BY <1>7
  <2>. QED
    BY <1>8, <1>9, <1>10, <2>1
<1>. QED
  BY <1>11 DEF IdsDistinctIn, new

\* The candidate GetPriorList and GetList find is an entry of the list.
LEMMA CandidateListed ==
    ASSUME NEW S, NEW list \in Seq(S), list # <<>>, NEW layer, NEW except
    PROVE  Candidate(list, layer, except) \in S
<1> DEFINE at == PriorAt(list, layer, except)
<1>1. at \in SUBSET (1..Len(list)) /\ Len(list) \in Nat
  BY DEF PriorAt
<1>2. CASE at = {}
  BY <1>2 DEF Candidate
<1>3. CASE at # {}
  <2>1. Min(at) \in at
    BY <1>1, <1>3, MinMaxExist
  <2>2. Min(at) \in 1..Len(list)
    BY <1>1, <2>1
  <2>3. Candidate(list, layer, except) = list[Min(at)]
    BY <1>3 DEF Candidate
  <2>. QED
    BY <2>2, <2>3
<1>. QED
  BY <1>2, <1>3

-----------------------------------------------------------------------------
(* One more record.                                                         *)

\* A smaller position has fewer of F before it.
LEMMA UptoGrows ==
    ASSUME NEW L \in Nat, NEW F \in SUBSET (1..L), NEW a \in F, NEW b \in F, a < b
    PROVE  Cardinality(Upto(F, a)) < Cardinality(Upto(F, b))
<1>1. IsFiniteSet(F) /\ \A x \in F : x \in Nat
  BY PositionBounds, PositionsFinite
<1>2. /\ IsFiniteSet(Upto(F, a)) /\ IsFiniteSet(Upto(F, b))
  <2>1. Upto(F, a) \in SUBSET F /\ Upto(F, b) \in SUBSET F
    BY DEF Upto
  <2>. QED
    BY <1>1, <2>1, FS_Subset
<1>3. Upto(F, a) \subseteq Upto(F, b) /\ Upto(F, a) # Upto(F, b)
  <2>1. \A x \in Upto(F, a) : x \in Upto(F, b)
    BY <1>1 DEF Upto
  <2>2. b \in Upto(F, b) /\ b \notin Upto(F, a)
    BY <1>1 DEF Upto
  <2>. QED
    BY <2>1, <2>2
<1>. QED
  BY <1>2, <1>3, FS_Subset, FS_CardinalityType

\* Every position of F is one of the j-th smallest.
LEMMA NthUnique ==
    ASSUME NEW L \in Nat, NEW F \in SUBSET (1..L), NEW k \in F
    PROVE  /\ Cardinality(Upto(F, k)) \in 1..Cardinality(F)
           /\ Nth(F, Cardinality(Upto(F, k))) = k
<1> DEFINE j == Cardinality(Upto(F, k))
<1>1. IsFiniteSet(F) /\ Cardinality(F) \in Nat /\ \A x \in F : x \in Nat
  BY PositionBounds, PositionsFinite
<1>2. Upto(F, k) \in SUBSET F /\ k \in Upto(F, k)
  BY <1>1 DEF Upto
<1>3. j \in 1..Cardinality(F)
  <2>1. IsFiniteSet(Upto(F, k)) /\ j \in Nat /\ j <= Cardinality(F)
    BY <1>1, <1>2, FS_Subset, FS_CardinalityType
  <2>2. j # 0
    BY <1>2, <2>1, FS_EmptySet
  <2>. QED
    BY <1>1, <2>1, <2>2
<1> HIDE DEF j
<1>4. Nth(F, j) \in F /\ Cardinality(Upto(F, Nth(F, j))) = j
  BY <1>3, NthExists
<1>5. ~(Nth(F, j) < k)
  <2> SUFFICES ASSUME Nth(F, j) < k PROVE FALSE
    OBVIOUS
  <2>1. Cardinality(Upto(F, Nth(F, j))) < Cardinality(Upto(F, k))
    BY <1>4, UptoGrows
  <2>. QED
    BY <1>3, <1>4, <2>1 DEF j
<1>6. ~(k < Nth(F, j))
  <2> SUFFICES ASSUME k < Nth(F, j) PROVE FALSE
    OBVIOUS
  <2>1. Cardinality(Upto(F, k)) < Cardinality(Upto(F, Nth(F, j)))
    BY <1>4, UptoGrows
  <2>. QED
    BY <1>3, <1>4, <2>1 DEF j
<1>7. Nth(F, j) = k
  <2> DEFINE n == Nth(F, j)
  <2>1. n \in Nat /\ k \in Nat
    BY <1>1, <1>4
  <2>2. ~(n < k) /\ ~(k < n)
    BY <1>5, <1>6
  <2> HIDE DEF n
  <2>3. n = k
    BY <2>1, <2>2
  <2>. QED
    BY <2>3 DEF n
<1>. QED
  BY <1>3, <1>7 DEF j

\* A position beyond the others is the last of them and moves none.
LEMMA NthOneMore ==
    ASSUME NEW L \in Nat, NEW F \in SUBSET (1..L)
    PROVE  LET G == F \cup {L + 1} IN
           /\ Cardinality(G) = Cardinality(F) + 1
           /\ \A j \in 1..Cardinality(F) : Nth(G, j) = Nth(F, j)
           /\ Nth(G, Cardinality(F) + 1) = L + 1
<1> DEFINE G == F \cup {L + 1}
<1>1. /\ IsFiniteSet(F) /\ Cardinality(F) \in Nat
      /\ \A x \in F : x \in Nat /\ 1 <= x /\ x <= L
  BY PositionBounds, PositionsFinite
<1>2. L + 1 \notin F /\ L + 1 \in Nat
  BY <1>1
<1>3. Cardinality(G) = Cardinality(F) + 1
  BY <1>1, <1>2, FS_AddElement
<1>4. G \in SUBSET (1..(L + 1)) /\ L + 1 \in G
  <2>1. \A x \in G : x \in 1..(L + 1)
    BY <1>1, <1>2
  <2>. QED
    BY <2>1
<1>5. \A x \in F : Upto(G, x) = Upto(F, x)
  <2>1. TAKE x \in F
  <2>2. \A y \in Upto(G, x) : y \in Upto(F, x)
    BY <1>1 DEF Upto
  <2>3. \A y \in Upto(F, x) : y \in Upto(G, x)
    BY DEF Upto
  <2>. QED
    BY <2>2, <2>3
<1>6. Upto(G, L + 1) = G
  <2>1. \A y \in G : y <= L + 1
    BY <1>1
  <2>. QED
    BY <2>1 DEF Upto
<1> HIDE DEF G
<1>7. ASSUME NEW j \in 1..Cardinality(F)
      PROVE  Nth(G, j) = Nth(F, j)
  <2>1. Nth(F, j) \in F /\ Cardinality(Upto(F, Nth(F, j))) = j
    BY NthExists
  <2>2. Nth(F, j) \in G /\ Cardinality(Upto(G, Nth(F, j))) = j
    BY <1>5, <2>1 DEF G
  <2>. QED
    BY <1>2, <1>4, <2>2, NthUnique
<1>8. Nth(G, Cardinality(F) + 1) = L + 1
  <2>1. Nth(G, Cardinality(Upto(G, L + 1))) = L + 1
    BY <1>2, <1>4, NthUnique
  <2>. QED
    BY <1>3, <1>6, <2>1
<1>. QED
  BY <1>3, <1>7, <1>8 DEF G

\* What StoreNew appends.
Picks(recs, F) == [j \in 1..Cardinality(F) |-> recs[Nth(F, j)]]

LEMMA StoreNewShape ==
    ASSUME NEW S, NEW list \in Seq(S), NEW recs \in Seq(S)
    PROVE  LET F == FreshAt(list, recs)
               p == Picks(recs, F)
               new == StoreNew(list, recs)
           IN  /\ F \in SUBSET (1..Len(recs)) /\ Cardinality(F) \in Nat
               /\ p \in Seq(S) /\ Len(p) = Cardinality(F)
               /\ \A j \in 1..Cardinality(F) : Nth(F, j) \in F /\ p[j] = recs[Nth(F, j)]
               /\ new = list \o p /\ new \in Seq(S)
<1> DEFINE F == FreshAt(list, recs)
           p == Picks(recs, F)
<1>1. F \in SUBSET (1..Len(recs))
  BY DEF FreshAt
<1>2. /\ Cardinality(F) \in Nat /\ p \in Seq(S) /\ Len(p) = Cardinality(F)
      /\ \A j \in 1..Cardinality(F) : Nth(F, j) \in F
  BY <1>1, Picked DEF Picks
<1>3. \A j \in 1..Cardinality(F) : p[j] = recs[Nth(F, j)]
  BY DEF Picks
<1>4. StoreNew(list, recs) = list \o p
  BY DEF StoreNew, Picks
<1> HIDE DEF F, p
<1>5. list \o p \in Seq(S)
  BY <1>2
<1>. QED
  BY <1>1, <1>2, <1>3, <1>4, <1>5 DEF F, p

\* "Storing List": an id is listed afterwards if it was before or the packet
\* brought it.
LEMMA StoreNewIds ==
    ASSUME NEW S, NEW list \in Seq(S), NEW recs \in Seq(S), NEW id
    PROVE  IsListContains(StoreNew(list, recs), id)
             <=> \/ IsListContains(list, id)
                 \/ \E k \in 1..Len(recs) : recs[k].id = id
<1> DEFINE F == FreshAt(list, recs)
           p == Picks(recs, F)
           new == StoreNew(list, recs)
<1>1. /\ F \in SUBSET (1..Len(recs)) /\ Cardinality(F) \in Nat
      /\ p \in Seq(S) /\ Len(p) = Cardinality(F)
      /\ \A j \in 1..Cardinality(F) : Nth(F, j) \in F /\ p[j] = recs[Nth(F, j)]
      /\ new = list \o p /\ new \in Seq(S)
  BY StoreNewShape
<1>2. Len(recs) \in Nat
  OBVIOUS
<1>3. \A k \in F : k \in 1..Len(recs)
  BY <1>1
<1>4. ASSUME NEW k \in 1..Len(recs), ~IsListContains(list, recs[k].id)
      PROVE  \E m \in F : recs[m].id = recs[k].id
  <2> DEFINE T == {m \in 1..Len(recs) : recs[m].id = recs[k].id}
  <2>1. T # {} /\ T \in SUBSET (1..Len(recs))
    OBVIOUS
  <2>2. T \subseteq Nat
    BY <1>2, <2>1, PositionBounds
  <2>3. PICK m \in T : \A x \in T : m <= x
    BY <2>1, <2>2, Least
  <2>4. \A j \in 1..Len(recs) : j < m => recs[j].id # recs[m].id
    BY <2>2, <2>3
  <2>5. m \in F
    BY <1>4, <2>3, <2>4 DEF FreshAt
  <2>. QED
    BY <2>3, <2>5
<1>5. \A m \in F : \E j \in 1..Cardinality(F) : Nth(F, j) = m
  BY <1>1, <1>2, NthUnique
<1> HIDE DEF F, p, new
<1>6. /\ Len(new) = Len(list) + Len(p) /\ Len(list) \in Nat /\ Len(p) \in Nat
      /\ \A k \in 1..Len(list) : new[k] = list[k]
      /\ \A k \in (Len(list) + 1)..(Len(list) + Len(p)) : new[k] = p[k - Len(list)]
  BY <1>1, ConcatAt
<1>7. DOMAIN new = 1..Len(new) /\ DOMAIN list = 1..Len(list)
  BY <1>1
<1>8. ASSUME NEW k \in 1..Len(new)
      PROVE  \/ k \in 1..Len(list) /\ new[k] = list[k]
             \/ k - Len(list) \in 1..Len(p) /\ new[k] = p[k - Len(list)]
  BY <1>6
<1>9. ASSUME NEW j \in 1..Len(p)
      PROVE  Len(list) + j \in 1..Len(new) /\ new[Len(list) + j] = p[j]
  <2>1. /\ Len(list) + j \in (Len(list) + 1)..(Len(list) + Len(p))
        /\ (Len(list) + j) - Len(list) = j /\ Len(list) + j \in 1..Len(new)
    BY <1>6
  <2>. QED
    BY <1>6, <2>1
<1>10. ASSUME IsListContains(new, id)
       PROVE  IsListContains(list, id) \/ \E k \in 1..Len(recs) : recs[k].id = id
  <2>1. PICK k \in 1..Len(new) : new[k].id = id
    BY <1>7, <1>10 DEF IsListContains
  <2>2. CASE k \in 1..Len(list) /\ new[k] = list[k]
    BY <1>7, <2>1, <2>2 DEF IsListContains
  <2>3. CASE k - Len(list) \in 1..Len(p) /\ new[k] = p[k - Len(list)]
    <3>1. new[k] = recs[Nth(F, k - Len(list))] /\ Nth(F, k - Len(list)) \in F
      BY <1>1, <2>3
    <3>. QED
      BY <1>3, <2>1, <3>1
  <2>. QED
    BY <1>8, <2>2, <2>3
<1>11. ASSUME IsListContains(list, id)
       PROVE  IsListContains(new, id)
  <2>1. PICK k \in 1..Len(list) : list[k].id = id
    BY <1>7, <1>11 DEF IsListContains
  <2>2. k \in 1..Len(new) /\ new[k] = list[k]
    BY <1>6
  <2>. QED
    BY <1>7, <2>1, <2>2 DEF IsListContains
<1>12. ASSUME NEW k \in 1..Len(recs), recs[k].id = id, ~IsListContains(list, id)
       PROVE  IsListContains(new, id)
  <2>1. PICK m \in F : recs[m].id = id
    BY <1>4, <1>12
  <2>2. PICK j \in 1..Cardinality(F) : Nth(F, j) = m
    BY <1>5
  <2>3. j \in 1..Len(p) /\ p[j] = recs[m]
    BY <1>1, <2>2
  <2>. QED
    BY <1>7, <1>9, <2>1, <2>3 DEF IsListContains
<1>. QED
  BY <1>10, <1>11, <1>12 DEF new

\* A packet without records stores nothing.
LEMMA StoreNone ==
    ASSUME NEW S, NEW list \in Seq(S)
    PROVE  StoreNew(list, <<>>) = list /\ StoreUpdate(list, <<>>) = list
<1> DEFINE F == FreshAt(list, <<>>)
           p == Picks(<<>>, F)
<1>1. F = {} /\ Cardinality(F) = 0
  <2>1. F = {}
    BY DEF FreshAt
  <2>. QED
    BY <2>1, FS_EmptySet
<1>2. p = <<>>
  BY <1>1 DEF Picks
<1>3. StoreNew(list, <<>>) = list \o p
  BY DEF StoreNew, Picks
<1> HIDE DEF p
<1>4. StoreNew(list, <<>>) = list
  BY <1>2, <1>3
<1>5. \A s : Latest(<<>>, s) = s
  <2>1. TAKE s
  <2>2. {k \in 1..Len(<<>>) : <<>>[k].id = s.id} = {}
    OBVIOUS
  <2>. QED
    BY <2>2 DEF Latest
<1>6. StoreUpdate(list, <<>>) = [k \in DOMAIN list |-> list[k]]
  BY <1>4, <1>5 DEF StoreUpdate
<1>. QED
  BY <1>4, <1>6

\* "Storing List", one record further: the record is pushed unless its id is
\* listed by then.
LEMMA StoreOneMore ==
    ASSUME NEW S, NEW list \in Seq(S), NEW recs \in Seq(S), NEW r \in S
    PROVE  LET new == StoreNew(list, recs) IN
           StoreNew(list, Append(recs, r)) =
               IF IsListContains(new, r.id) THEN new ELSE ListPush(new, r)
<1> DEFINE L == Len(recs)
           more == Append(recs, r)
           F == FreshAt(list, recs)
           G == FreshAt(list, more)
           p == Picks(recs, F)
           q == Picks(more, G)
           new == StoreNew(list, recs)
<1>1. /\ L \in Nat /\ more \in Seq(S) /\ Len(more) = L + 1 /\ more[L + 1] = r
      /\ \A k \in 1..L : more[k] = recs[k]
  OBVIOUS
<1>2. /\ F \in SUBSET (1..L) /\ Cardinality(F) \in Nat
      /\ p \in Seq(S) /\ Len(p) = Cardinality(F)
      /\ \A j \in 1..Cardinality(F) : Nth(F, j) \in F /\ p[j] = recs[Nth(F, j)]
      /\ new = list \o p /\ new \in Seq(S)
  BY StoreNewShape
<1> HIDE DEF more
<1>3. /\ G \in SUBSET (1..(L + 1)) /\ Cardinality(G) \in Nat
      /\ q \in Seq(S) /\ Len(q) = Cardinality(G)
      /\ \A j \in 1..Cardinality(G) : Nth(G, j) \in G /\ q[j] = more[Nth(G, j)]
      /\ StoreNew(list, more) = list \o q
  BY <1>1, StoreNewShape
<1>4. \A k \in 1..L : k \in 1..(L + 1) /\ k < L + 1 /\ ~(L + 1 < k)
  BY <1>1
<1>5. \A k \in 1..(L + 1) : k \in 1..L \/ k = L + 1
  BY <1>1
<1>6. L + 1 \in 1..(L + 1) /\ ~(L + 1 < L + 1)
  BY <1>1
<1>7. \A k \in 1..L : k \in G <=> k \in F
  BY <1>1, <1>4, <1>5 DEF FreshAt
<1>8. L + 1 \in G <=> ~IsListContains(new, r.id)
  <2>1. IsListContains(new, r.id)
          <=> IsListContains(list, r.id) \/ \E k \in 1..L : recs[k].id = r.id
    BY StoreNewIds
  <2>2. L + 1 \in G <=> ~IsListContains(list, r.id) /\ \A k \in 1..L : recs[k].id # r.id
    BY <1>1, <1>4, <1>5, <1>6 DEF FreshAt
  <2>. QED
    BY <2>1, <2>2
<1>9. \A k \in F : k \in 1..L
  BY <1>2
<1> HIDE DEF F, G, p, q, L, new
<1>10. CASE L + 1 \notin G
  <2>1. G = F
    BY <1>3, <1>5, <1>7, <1>9, <1>10
  <2>2. \A j \in 1..Len(p) : q[j] = p[j]
    BY <1>1, <1>2, <1>3, <1>9, <2>1
  <2>3. q = p
    BY <1>2, <1>3, <2>1, <2>2
  <2>. QED
    BY <1>2, <1>3, <1>8, <1>10, <2>3 DEF more, new
<1>11. CASE L + 1 \in G
  <2>1. G = F \cup {L + 1}
    BY <1>3, <1>5, <1>7, <1>9, <1>11
  <2>2. /\ Cardinality(G) = Cardinality(F) + 1
        /\ \A j \in 1..Cardinality(F) : Nth(G, j) = Nth(F, j)
        /\ Nth(G, Cardinality(F) + 1) = L + 1
    BY <1>1, <1>2, <2>1, NthOneMore
  <2> DEFINE c == Cardinality(F)
  <2>3. c \in Nat /\ Len(p) = c /\ Len(q) = c + 1
    BY <1>2, <1>3, <2>2
  <2>4. \A j \in 1..c : q[j] = p[j]
    <3>1. TAKE j \in 1..c
    <3>2. j \in 1..Cardinality(G)
      BY <2>2, <2>3
    <3>3. q[j] = more[Nth(F, j)] /\ p[j] = recs[Nth(F, j)] /\ Nth(F, j) \in F
      BY <1>2, <1>3, <2>2, <3>2
    <3>. QED
      BY <1>1, <1>9, <3>3
  <2>5. q[c + 1] = r
    <3>1. c + 1 \in 1..Cardinality(G)
      BY <2>2, <2>3
    <3>. QED
      BY <1>1, <1>3, <2>2, <3>1
  <2> HIDE DEF c
  <2>6. q = Append(p, r)
    <3> DEFINE a == Append(p, r)
    <3>1. a \in Seq(S) /\ Len(a) = c + 1 /\ a[c + 1] = r /\ \A j \in 1..c : a[j] = p[j]
      BY <1>2, <2>3
    <3> HIDE DEF a
    <3>2. \A j \in 1..(c + 1) : j \in 1..c \/ j = c + 1
      BY <2>3
    <3>3. q \in Seq(S) /\ Len(q) = Len(a) /\ \A j \in 1..Len(q) : q[j] = a[j]
      BY <1>3, <2>3, <2>4, <2>5, <3>1, <3>2
    <3>4. q = a
      BY <3>1, <3>3
    <3>. QED
      BY <3>4 DEF a
  <2>7. list \o Append(p, r) = Append(list \o p, r)
    BY <1>2
  <2>. QED
    BY <1>2, <1>3, <1>8, <1>11, <2>6, <2>7 DEF more, new, ListPush
<1>. QED
  BY <1>10, <1>11

\* The last record of an id, one record further.
LEMMA LatestOneMore ==
    ASSUME NEW S, NEW recs \in Seq(S), NEW r \in S, NEW s
    PROVE  Latest(Append(recs, r), s) = IF s.id = r.id THEN r ELSE Latest(recs, s)
<1> DEFINE L == Len(recs)
           more == Append(recs, r)
           at == {k \in 1..L : recs[k].id = s.id}
           to == {k \in 1..(L + 1) : more[k].id = s.id}
<1>1. /\ L \in Nat /\ Len(more) = L + 1 /\ more[L + 1] = r
      /\ \A k \in 1..L : more[k] = recs[k]
  OBVIOUS
<1>2. Latest(more, s) = IF to = {} THEN s ELSE more[Max(to)]
  BY <1>1 DEF Latest
<1>3. Latest(recs, s) = IF at = {} THEN s ELSE recs[Max(at)]
  BY DEF Latest
<1> HIDE DEF more
<1>4. CASE s.id = r.id
  <2>1. L + 1 \in Nat /\ L + 1 \in to /\ to \in SUBSET (1..(L + 1)) /\ to # {}
    BY <1>1, <1>4
  <2> HIDE DEF to
  <2>2. Max(to) \in to /\ \A x \in to : x <= Max(to)
    BY <2>1, MinMaxExist
  <2>3. Max(to) \in 1..(L + 1) /\ L + 1 <= Max(to)
    BY <2>1, <2>2
  <2>4. Max(to) = L + 1
    BY <1>1, <2>3
  <2>. QED
    BY <1>1, <1>2, <1>4, <2>1, <2>4 DEF more
<1>5. CASE s.id # r.id
  <2>1. to = at
    <3>1. \A k \in to : k \in 1..L
      BY <1>1, <1>5
    <3>. QED
      BY <1>1, <3>1
  <2>2. CASE at = {}
    BY <1>2, <1>3, <1>5, <2>1, <2>2 DEF more
  <2>3. CASE at # {}
    <3>1. Max(at) \in at /\ at \in SUBSET (1..L)
      BY <1>1, <2>3, MinMaxExist
    <3>2. Max(at) \in 1..L
      BY <3>1
    <3>. QED
      BY <1>1, <1>2, <1>3, <1>5, <2>1, <2>3, <3>2 DEF more
  <2>. QED
    BY <2>2, <2>3
<1>. QED
  BY <1>4, <1>5

\* NodeResList, one record further: the record overwrites the entry of its
\* id, or is pushed.
LEMMA UpdateOneMore ==
    ASSUME NEW S, NEW list \in Seq(S), NEW recs \in Seq(S), NEW r \in S
    PROVE  LET kept == StoreUpdate(list, recs) IN
           StoreUpdate(list, Append(recs, r)) =
               IF IsListContains(kept, r.id) THEN ListUpdate(kept, r) ELSE ListPush(kept, r)
<1> DEFINE more == Append(recs, r)
           new == StoreNew(list, recs)
           kept == StoreUpdate(list, recs)
           n == Len(new)
<1>1. more \in Seq(S)
  OBVIOUS
<1>2. new \in Seq(S) /\ n \in Nat /\ DOMAIN new = 1..n
  BY StoreNewAppends
<1>3. /\ kept \in Seq(S) /\ Len(kept) = n /\ DOMAIN kept = 1..n
      /\ \A k \in 1..n : kept[k].id = new[k].id
  BY StoreUpdateKeepsIds
<1>4. \A k \in 1..n : kept[k] = Latest(recs, new[k])
  BY <1>2 DEF StoreUpdate
<1>5. IsListContains(kept, r.id) <=> IsListContains(new, r.id)
  BY <1>2, <1>3 DEF IsListContains
<1>6. StoreNew(list, more) = IF IsListContains(new, r.id) THEN new ELSE ListPush(new, r)
  BY StoreOneMore
<1>7. \A s : Latest(more, s) = IF s.id = r.id THEN r ELSE Latest(recs, s)
  BY LatestOneMore
<1> DEFINE grown == StoreNew(list, more)
<1>8. StoreUpdate(list, more) = [k \in DOMAIN grown |-> Latest(more, grown[k])]
  BY DEF StoreUpdate
<1> HIDE DEF new, kept, n, more, grown
<1>9. CASE IsListContains(new, r.id)
  <2>1. grown = new
    BY <1>6, <1>9 DEF grown
  <2>2. StoreUpdate(list, more) = [k \in 1..n |-> IF kept[k].id = r.id THEN r ELSE kept[k]]
    BY <1>2, <1>3, <1>4, <1>7, <1>8, <2>1
  <2>. QED
    BY <1>3, <1>5, <1>9, <2>2 DEF ListUpdate, more, kept
<1>10. CASE ~IsListContains(new, r.id)
  <2>1. grown = Append(new, r)
    BY <1>6, <1>10 DEF grown, ListPush
  <2>2. /\ DOMAIN grown = 1..(n + 1) /\ grown[n + 1] = r
        /\ \A k \in 1..n : grown[k] = new[k]
    BY <1>2, <2>1 DEF n
  <2>3. \A k \in 1..n : new[k].id # r.id
    BY <1>2, <1>10 DEF IsListContains
  <2>4. \A k \in 1..(n + 1) : k \in 1..n \/ k = n + 1
    BY <1>2
  <2>5. Latest(more, grown[n + 1]) = r /\ \A k \in 1..n : Latest(more, grown[k]) = kept[k]
    BY <1>4, <1>7, <2>2, <2>3
  <2> DEFINE a == Append(kept, r)
             b == StoreUpdate(list, more)
  <2>6. a \in Seq(S) /\ Len(a) = n + 1 /\ a[n + 1] = r /\ \A k \in 1..n : a[k] = kept[k]
    BY <1>2, <1>3
  <2>7. b \in Seq(S)
    BY <1>1, StoreUpdateKeepsIds
  <2>8. DOMAIN b = 1..(n + 1) /\ \A k \in 1..(n + 1) : b[k] = Latest(more, grown[k])
    BY <1>8, <2>2
  <2> HIDE DEF a, b
  <2>9. Len(b) = n + 1
    BY <1>2, <2>7, <2>8
  <2>10. \A k \in 1..(n + 1) : b[k] = a[k]
    BY <2>4, <2>5, <2>6, <2>8
  <2>11. b = a
    BY <2>6, <2>7, <2>9, <2>10
  <2>. QED
    BY <1>5, <1>10, <2>11 DEF a, b, ListPush, more, kept
<1>. QED
  BY <1>9, <1>10

=============================================================================
