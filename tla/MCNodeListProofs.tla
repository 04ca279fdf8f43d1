-------------------------- MODULE MCNodeListProofs --------------------------
(***************************************************************************)
(* The operators of NodeList are the loops of the source: for every set of *)
(* ids and layers and every bound on packets and on EXCEPT_LIST.           *)
(***************************************************************************)
EXTENDS MCNodeList, NodeListProofs

-----------------------------------------------------------------------------
(* Loops.                                                                   *)

\* Two runs of a loop that start alike, and no pass of which tells them apart.
Alike(n, f, g) ==
    f[0] = g[0] /\ \A i \in 1..n : f[i - 1] = g[i - 1] => f[i] = g[i]

\* They end alike.
LEMMA SameRuns ==
    ASSUME NEW n \in Nat, NEW f, NEW g, Alike(n, f, g)
    PROVE  f[n] = g[n]
<1> DEFINE T == {i \in 0..n : f[i] # g[i]}
<1> SUFFICES ASSUME T # {} PROVE FALSE
  <2>1. n \in 0..n
    OBVIOUS
  <2>. QED
    BY <2>1
<1>1. T \subseteq Nat
  OBVIOUS
<1>2. PICK i \in T : \A j \in T : i <= j
  BY <1>1, Least
<1>3. i \in 0..n /\ f[i] # g[i]
  BY <1>2
<1>4. i \in 1..n /\ i - 1 \in 0..n
  BY <1>3 DEF Alike
<1>5. f[i - 1] = g[i - 1]
  <2>1. ~(i <= i - 1)
    BY <1>4
  <2>. QED
    BY <1>2, <1>4, <2>1
<1>. QED
  BY <1>3, <1>4, <1>5 DEF Alike

\* The records of a packet, up to the i-th.
LEMMA RecordsUpTo ==
    ASSUME NEW S, NEW recs \in Seq(S)
    PROVE  /\ SubSeq(recs, 1, 0) = <<>> /\ SubSeq(recs, 1, Len(recs)) = recs
           /\ \A i \in 1..Len(recs) :
                 /\ SubSeq(recs, 1, i - 1) \in Seq(S) /\ recs[i] \in S
                 /\ SubSeq(recs, 1, i) = Append(SubSeq(recs, 1, i - 1), recs[i])
<1>1. Len(recs) \in Nat
  OBVIOUS
<1>2. SubSeq(recs, 1, 0) = <<>>
  BY <1>1
<1>3. SubSeq(recs, 1, Len(recs)) = recs
  BY <1>1
<1>4. ASSUME NEW i \in 1..Len(recs)
      PROVE  /\ SubSeq(recs, 1, i - 1) \in Seq(S) /\ recs[i] \in S
             /\ SubSeq(recs, 1, i) = Append(SubSeq(recs, 1, i - 1), recs[i])
  BY <1>1
<1>. QED
  BY <1>2, <1>3, <1>4

\* The loop of NodeInitialStatus and NodeAdvertise.
LEMMA StoreLoopIs ==
    ASSUME NEW S, NEW l \in Seq(S), NEW recs \in Seq(S)
    PROVE  StoreLoop(l, recs) = StoreNew(l, recs)
<1> DEFINE n == Len(recs)
           Loop(f) == [i \in 0..n |-> IF i = 0 THEN l ELSE StorePass(f[i - 1], recs[i])]
           w == [i \in 0..n |-> StoreNew(l, SubSeq(recs, 1, i))]
           f == CHOOSE g : g = Loop(g)
<1>1. n \in Nat
  OBVIOUS
<1>2. ASSUME NEW i \in 1..n
      PROVE  w[i] = StorePass(w[i - 1], recs[i])
  <2>1. i \in 0..n /\ i - 1 \in 0..n
    BY <1>1
  <2>2. /\ SubSeq(recs, 1, i - 1) \in Seq(S) /\ recs[i] \in S
        /\ SubSeq(recs, 1, i) = Append(SubSeq(recs, 1, i - 1), recs[i])
    BY RecordsUpTo
  <2>3. StoreNew(l, SubSeq(recs, 1, i)) = StorePass(StoreNew(l, SubSeq(recs, 1, i - 1)), recs[i])
    <3> DEFINE q == SubSeq(recs, 1, i - 1)
               r == recs[i]
    <3>1. q \in Seq(S) /\ r \in S
      BY <2>2
    <3> HIDE DEF q, r
    <3>2. StoreNew(l, Append(q, r)) = StorePass(StoreNew(l, q), r)
      BY <3>1, StoreOneMore DEF StorePass
    <3>. QED
      BY <2>2, <3>2 DEF q, r
  <2>. QED
    BY <2>1, <2>3
<1>3. w[0] = l /\ w[n] = StoreNew(l, recs)
  <2>1. 0 \in 0..n /\ n \in 0..n
    BY <1>1
  <2>2. SubSeq(recs, 1, 0) = <<>> /\ SubSeq(recs, 1, n) = recs
    BY RecordsUpTo
  <2>. QED
    BY <2>1, <2>2, StoreNone
<1>4. w = Loop(w)
  <2>1. \A i \in 0..n : i = 0 \/ i \in 1..n
    BY <1>1
  <2>2. \A i \in 0..n : w[i] = Loop(w)[i]
    <3> HIDE DEF w
    <3>. QED
      BY <1>2, <1>3, <2>1
  <2>. QED
    BY <2>2
<1> HIDE DEF w
<1>5. f = Loop(f)
  BY <1>4
<1>6. StoreLoop(l, recs) = f[n]
  BY DEF StoreLoop
<1> HIDE DEF f
<1>7. f[0] = l /\ \A i \in 1..n : f[i] = StorePass(f[i - 1], recs[i])
  BY <1>1, <1>5
<1> HIDE DEF n, Loop
<1>8. f[n] = w[n]
  <2>1. Alike(n, f, w)
    BY <1>2, <1>3, <1>7 DEF Alike
  <2>2. n \in Nat
    BY <1>1
  <2>. QED
    BY <2>1, <2>2, SameRuns
<1>. QED
  BY <1>3, <1>6, <1>8

\* The loop of NodeResList.
LEMMA UpdateLoopIs ==
    ASSUME NEW S, NEW l \in Seq(S), NEW recs \in Seq(S)
    PROVE  UpdateLoop(l, recs) = StoreUpdate(l, recs)
<1> DEFINE n == Len(recs)
           Loop(f) == [i \in 0..n |-> IF i = 0 THEN l ELSE UpdatePass(f[i - 1], recs[i])]
           w == [i \in 0..n |-> StoreUpdate(l, SubSeq(recs, 1, i))]
           f == CHOOSE g : g = Loop(g)
<1>1. n \in Nat
  OBVIOUS
<1>2. ASSUME NEW i \in 1..n
      PROVE  w[i] = UpdatePass(w[i - 1], recs[i])
  <2>1. i \in 0..n /\ i - 1 \in 0..n
    BY <1>1
  <2>2. /\ SubSeq(recs, 1, i - 1) \in Seq(S) /\ recs[i] \in S
        /\ SubSeq(recs, 1, i) = Append(SubSeq(recs, 1, i - 1), recs[i])
    BY RecordsUpTo
  <2>3. StoreUpdate(l, SubSeq(recs, 1, i)) = UpdatePass(StoreUpdate(l, SubSeq(recs, 1, i - 1)), recs[i])
    <3> DEFINE q == SubSeq(recs, 1, i - 1)
               r == recs[i]
    <3>1. q \in Seq(S) /\ r \in S
      BY <2>2
    <3> HIDE DEF q, r
    <3>2. StoreUpdate(l, Append(q, r)) = UpdatePass(StoreUpdate(l, q), r)
      BY <3>1, UpdateOneMore DEF UpdatePass
    <3>. QED
      BY <2>2, <3>2 DEF q, r
  <2>. QED
    BY <2>1, <2>3
<1>3. w[0] = l /\ w[n] = StoreUpdate(l, recs)
  <2>1. 0 \in 0..n /\ n \in 0..n
    BY <1>1
  <2>2. SubSeq(recs, 1, 0) = <<>> /\ SubSeq(recs, 1, n) = recs
    BY RecordsUpTo
  <2>. QED
    BY <2>1, <2>2, StoreNone
<1>4. w = Loop(w)
  <2>1. \A i \in 0..n : i = 0 \/ i \in 1..n
    BY <1>1
  <2>2. \A i \in 0..n : w[i] = Loop(w)[i]
    <3> HIDE DEF w
    <3>. QED
      BY <1>2, <1>3, <2>1
  <2>. QED
    BY <2>2
<1> HIDE DEF w
<1>5. f = Loop(f)
  BY <1>4
<1>6. UpdateLoop(l, recs) = f[n]
  BY DEF UpdateLoop
<1> HIDE DEF f
<1>7. f[0] = l /\ \A i \in 1..n : f[i] = UpdatePass(f[i - 1], recs[i])
  BY <1>1, <1>5
<1> HIDE DEF n, Loop
<1>8. f[n] = w[n]
  <2>1. Alike(n, f, w)
    BY <1>2, <1>3, <1>7 DEF Alike
  <2>2. n \in Nat
    BY <1>1
  <2>. QED
    BY <2>1, <2>2, SameRuns
<1>. QED
  BY <1>3, <1>6, <1>8

\* GetCloestLayer, whose difference never leaves the range of a u8 again.
LEMMA CloestLoopIs ==
    ASSUME NEW l \in Seq([id : Ids, layer : Layers]), l # <<>>
    PROVE  CloestLoop(l) = GetCloestLayer(l, MyLayer)
<1> DEFINE n == Len(l)
           x == l[n].layer
<1>1. n \in Nat /\ n # 0 /\ n \in 0..n /\ n \in 1..n
  OBVIOUS
<1>2. x \in 0..255 /\ MyLayer \in 0..255
  <2>1. l[n] \in [id : Ids, layer : Layers]
    <3> DEFINE R == [id : Ids, layer : Layers]
    <3>1. l \in Seq(R)
      OBVIOUS
    <3> HIDE DEF R
    <3>2. \A i \in 1..Len(l) : l[i] \in R
      BY <3>1
    <3>. QED
      BY <1>1, <3>2 DEF R
  <2>2. l[n].layer \in Layers
    BY <2>1
  <2>. QED
    BY <2>2, NodeListAssumption
<1> DEFINE d == [i \in 0..n |-> IF i = 0 THEN 0 ELSE l[i].layer - MyLayer]
<1>3. d[n] = x - MyLayer
  BY <1>1
<1>4. CloestLoop(l) = (MyLayer + d[n]) % 256
  BY DEF CloestLoop
<1> HIDE DEF d, x
<1>5. MyLayer + (x - MyLayer) = x /\ x % 256 = x
  BY <1>2
<1>. QED
  BY <1>3, <1>4, <1>5 DEF GetCloestLayer, x

\* The loop of GetPriorList stops at the smallest position it may stop at.
LEMMA PriorLoopIs ==
    ASSUME NEW l \in Seq([id : Ids, layer : Layers]), l # <<>>,
           NEW T, NEW ids \in Seq(T)
    PROVE  LET at == PriorAt(l, MyLayer, ToSet(ids))
           IN  PriorLoop(l, ids) = IF at = {} THEN 0 ELSE Min(at)
<1> DEFINE n == Len(l)
           at == PriorAt(l, MyLayer, ToSet(ids))
           First(F) == IF F = {} THEN 0 ELSE Min(F)
           Loop(f) == [i \in 0..n |-> IF i = 0 THEN 0 ELSE PriorPass(l, ids, f[i - 1], i)]
           w == [i \in 0..n |-> First(Upto(at, i))]
           f == CHOOSE g : g = Loop(g)
<1>1. n \in Nat /\ at \in SUBSET (1..n)
  BY DEF PriorAt
<1>2. \A x \in at : x \in Nat /\ 1 <= x /\ x <= n
  BY <1>1, PositionBounds
<1>3. \A i \in 1..n : i \in at <=> ~Contains(ids, l[i].id) /\ l[i].layer = CloestLoop(l)
  <2>1. CloestLoop(l) = GetCloestLayer(l, MyLayer)
    BY CloestLoopIs
  <2>2. \A k : k \in ToSet(ids) <=> Contains(ids, k)
    BY DEF ToSet, Contains
  <2>. QED
    BY <2>1, <2>2 DEF PriorAt
<1> HIDE DEF at
<1>4. ASSUME NEW i \in 0..n, Upto(at, i) # {}
      PROVE  /\ Min(Upto(at, i)) \in at /\ Min(Upto(at, i)) # 0
             /\ \A x \in Upto(at, i) : Min(Upto(at, i)) <= x
  <2>1. Upto(at, i) \in SUBSET (1..n) /\ Upto(at, i) \subseteq at
    BY <1>1 DEF Upto
  <2>2. /\ Min(Upto(at, i)) \in Upto(at, i)
        /\ \A x \in Upto(at, i) : Min(Upto(at, i)) <= x
    BY <1>1, <1>4, <2>1, MinMaxExist
  <2>. QED
    BY <1>2, <2>1, <2>2
<1>5. ASSUME NEW i \in 1..n
      PROVE  First(Upto(at, i)) = PriorPass(l, ids, First(Upto(at, i - 1)), i)
  <2>1. i \in Nat /\ i - 1 \in 0..n /\ i \in 0..n /\ i # 0
    BY <1>1
  <2>2. i \notin at => Upto(at, i) = Upto(at, i - 1)
    BY <1>2, <2>1, UptoStep
  <2>3. i \in at => Upto(at, i) = Upto(at, i - 1) \cup {i}
    BY <1>2, <2>1, UptoStep
  <2>4. CASE Upto(at, i - 1) # {}
    <3> DEFINE a == Min(Upto(at, i - 1))
               b == Min(Upto(at, i))
    <3>1. /\ a \in at /\ a # 0 /\ \A x \in Upto(at, i - 1) : a <= x
          /\ a \in Upto(at, i - 1)
      <4>1. Upto(at, i - 1) \in SUBSET (1..n)
        BY <1>1 DEF Upto
      <4>2. a \in Upto(at, i - 1)
        BY <1>1, <2>4, <4>1, MinMaxExist
      <4>. QED
        BY <1>4, <2>1, <2>4, <4>2
    <3>2. Upto(at, i) # {} /\ a \in Upto(at, i)
      BY <2>2, <2>3, <3>1
    <3>3. /\ b \in at /\ \A x \in Upto(at, i) : b <= x
          /\ b \in Upto(at, i)
      <4>1. Upto(at, i) \in SUBSET (1..n)
        BY <1>1 DEF Upto
      <4>. QED
        BY <1>1, <1>4, <2>1, <3>2, <4>1, MinMaxExist
    <3>4. a \in Nat /\ b \in Nat /\ a <= i - 1
      BY <1>2, <3>1, <3>3 DEF Upto
    <3> HIDE DEF a, b
    <3>5. b <= a
      BY <3>2, <3>3
    <3>6. b \in Upto(at, i - 1)
      BY <2>1, <3>3, <3>4, <3>5 DEF Upto
    <3>7. a = b
      BY <3>1, <3>4, <3>5, <3>6
    <3>8. First(Upto(at, i)) = b /\ First(Upto(at, i - 1)) = a
      BY <2>4, <3>2 DEF a, b
    <3>. QED
      BY <3>1, <3>7, <3>8 DEF PriorPass
  <2>5. CASE Upto(at, i - 1) = {} /\ i \in at
    <3>1. Upto(at, i) = {i}
      BY <2>3, <2>5
    <3>2. Min({i}) = i
      <4>1. {i} \in SUBSET (1..n) /\ {i} # {}
        OBVIOUS
      <4>2. Min({i}) \in {i}
        BY <1>1, <4>1, MinMaxExist
      <4>. QED
        BY <4>2
    <3>. QED
      BY <1>3, <2>1, <2>5, <3>1, <3>2 DEF PriorPass
  <2>6. CASE Upto(at, i - 1) = {} /\ i \notin at
    BY <1>3, <2>2, <2>6 DEF PriorPass
  <2>. QED
    BY <2>4, <2>5, <2>6
<1>6. w[0] = 0 /\ w[n] = First(at)
  <2>1. Upto(at, 0) = {} /\ Upto(at, n) = at
    BY <1>1, <1>2, UptoEnds
  <2>2. 0 \in 0..n /\ n \in 0..n
    BY <1>1
  <2>. QED
    BY <2>1, <2>2
<1>7. \A i \in 1..n : w[i] = PriorPass(l, ids, w[i - 1], i)
  <2>1. \A i \in 1..n : i \in 0..n /\ i - 1 \in 0..n
    BY <1>1
  <2> HIDE DEF First
  <2>. QED
    BY <1>5, <2>1
<1> HIDE DEF First
<1>8. w = Loop(w)
  <2>1. \A i \in 0..n : i = 0 \/ i \in 1..n
    BY <1>1
  <2>2. \A i \in 0..n : w[i] = Loop(w)[i]
    <3> HIDE DEF w
    <3>. QED
      BY <1>6, <1>7, <2>1
  <2>. QED
    BY <2>2
<1> HIDE DEF w
<1>9. f = Loop(f)
  BY <1>8
<1>10. PriorLoop(l, ids) = f[n]
  BY DEF PriorLoop
<1> HIDE DEF f
<1>11. f[0] = 0 /\ \A i \in 1..n : f[i] = PriorPass(l, ids, f[i - 1], i)
  BY <1>1, <1>9
<1> HIDE DEF n, Loop
<1>12. f[n] = w[n]
  <2>1. Alike(n, f, w)
    BY <1>6, <1>7, <1>11 DEF Alike
  <2>2. n \in Nat
    BY <1>1
  <2>. QED
    BY <2>1, <2>2, SameRuns
<1>. QED
  BY <1>6, <1>10, <1>12 DEF First, at

-----------------------------------------------------------------------------
(* The lists of a node.                                                     *)

Entry == [id : Ids, layer : Layers]

TypeOK == list \in Seq(Entry) /\ pushed \in Seq(Ids \cup {MyId})

\* The lists kept with the operators and with the loops are the same; the
\* first entry is the origin's, and no id is listed twice.
ListsInv ==
    /\ TypeOK
    /\ StoresAgree /\ ExceptAgrees
    /\ list # <<>> /\ list[1].id = 0 /\ IdsDistinctIn(list)

LEMMA RecsAre == \A recs \in Recs : recs \in Seq(Entry)
<1> SUFFICES ASSUME NEW recs \in Recs PROVE recs \in Seq(Entry)
  OBVIOUS
<1>1. PICK m \in 0..MaxRecs : recs \in [1..m -> Entry]
  BY DEF Recs, SeqOf, Entry
<1>2. m \in Nat
  BY <1>1, NodeListAssumption
<1>. QED
  BY <1>1, <1>2

LEMMA ListsInit == Init => ListsInv
<1> SUFFICES ASSUME Init PROVE ListsInv
  OBVIOUS
<1>1. PICK l \in Layers : list = <<[id |-> 0, layer |-> l]>>
  BY DEF Init
<1>2. [id |-> 0, layer |-> l] \in Entry
  BY NodeListAssumption DEF Entry
<1> DEFINE e == [id |-> 0, layer |-> l]
<1>3. e.id = 0
  OBVIOUS
<1> HIDE DEF e
<1>4. list = <<e>> /\ e \in Entry
  BY <1>1, <1>2 DEF e
<1>5. list \in Seq(Entry) /\ list # <<>> /\ Len(list) = 1 /\ list[1] = e
  BY <1>4
<1>6. IdsDistinctIn(list)
  BY <1>5 DEF IdsDistinctIn
<1>7. ref = list /\ except = {} /\ pushed = <<>>
  BY DEF Init
<1>8. ExceptAgrees /\ pushed \in Seq(Ids \cup {MyId})
  BY <1>7 DEF ExceptAgrees, ToSet
<1>. QED
  BY <1>3, <1>5, <1>6, <1>7, <1>8 DEF ListsInv, TypeOK, StoresAgree

\* The store loops of NodeInitialStatus and NodeAdvertise.
LEMMA StoreKeeps ==
    ASSUME ListsInv, NEW recs \in Recs, Store(recs)
    PROVE  ListsInv'
<1>1. recs \in Seq(Entry) /\ list \in Seq(Entry) /\ ref = list
  BY RecsAre DEF ListsInv, TypeOK, StoresAgree
<1>2. list' = StoreNew(list, recs) /\ ref' = list' /\ UNCHANGED <<except, pushed>>
  BY <1>1, StoreLoopIs DEF Store
<1>3. /\ list' \in Seq(Entry) /\ Len(list) <= Len(list')
      /\ \A k \in 1..Len(list) : list'[k] = list[k]
  BY <1>1, <1>2, StoreNewAppends
<1>4. 1 \in 1..Len(list) /\ list' # <<>>
  BY <1>1, <1>3 DEF ListsInv
<1>5. IdsDistinctIn(list')
  BY <1>1, <1>2, StoreNewDistinct DEF ListsInv
<1>. QED
  BY <1>2, <1>3, <1>4, <1>5 DEF ListsInv, TypeOK, StoresAgree, ExceptAgrees

\* The store loop of NodeResList.
LEMMA UpdateKeeps ==
    ASSUME ListsInv, NEW recs \in Recs, Update(recs)
    PROVE  ListsInv'
<1>1. recs \in Seq(Entry) /\ list \in Seq(Entry) /\ ref = list
  BY RecsAre DEF ListsInv, TypeOK, StoresAgree
<1>2. list' = StoreUpdate(list, recs) /\ ref' = list' /\ UNCHANGED <<except, pushed>>
  BY <1>1, UpdateLoopIs DEF Update
<1> DEFINE new == StoreNew(list, recs)
<1>3. /\ new \in Seq(Entry) /\ Len(list) <= Len(new)
      /\ \A k \in 1..Len(list) : new[k] = list[k]
  BY <1>1, StoreNewAppends
<1>4. IdsDistinctIn(new)
  BY <1>1, StoreNewDistinct DEF ListsInv
<1>5. /\ list' \in Seq(Entry) /\ Len(list') = Len(new)
      /\ \A k \in 1..Len(new) : list'[k].id = new[k].id
  BY <1>1, <1>2, StoreUpdateKeepsIds
<1> HIDE DEF new
<1>6. 1 \in 1..Len(list) /\ 1 \in 1..Len(new) /\ list' # <<>>
  BY <1>1, <1>3, <1>5 DEF ListsInv
<1>7. list'[1].id = 0
  BY <1>3, <1>5, <1>6 DEF ListsInv
<1>8. IdsDistinctIn(list')
  BY <1>4, <1>5 DEF IdsDistinctIn
<1>. QED
  BY <1>2, <1>5, <1>6, <1>7, <1>8 DEF ListsInv, TypeOK, StoresAgree, ExceptAgrees

\* Pushing on EXCEPT_LIST adds to its content, and the caller's own id when
\* it was NULL.
LEMMA PushedSet ==
    ASSUME NEW T, NEW ids \in Seq(T), MyId \in T, NEW id \in T
    PROVE  /\ PushLoop(ids, id) \in Seq(T)
           /\ ToSet(PushLoop(ids, id)) = ExceptListPush(ToSet(ids), MyId, id)
<1> DEFINE b == IF ids = <<>> THEN <<MyId>> ELSE ids
           p == Append(b, id)
           n == Len(b)
<1>1. b \in Seq(T) /\ ToSet(b) = ToSet(ids) \cup (IF ToSet(ids) = {} THEN {MyId} ELSE {})
  <2>1. CASE ids = <<>>
    <3>1. ToSet(<<MyId>>) = {MyId} /\ ToSet(ids) = {} /\ <<MyId>> \in Seq(T)
      BY <2>1 DEF ToSet
    <3>. QED
      BY <2>1, <3>1
  <2>2. CASE ids # <<>>
    <3>1. 1 \in DOMAIN ids
      BY <2>2
    <3>2. ToSet(ids) # {}
      BY <3>1 DEF ToSet
    <3>. QED
      BY <2>2, <3>2
  <2>. QED
    BY <2>1, <2>2
<1>2. PushLoop(ids, id) = b \o <<id>>
  BY DEF PushLoop
<1> HIDE DEF b
<1>3. PushLoop(ids, id) = p
  BY <1>1, <1>2
<1>4. /\ p \in Seq(T) /\ n \in Nat /\ DOMAIN p = 1..(n + 1) /\ p[n + 1] = id
      /\ DOMAIN b = 1..n /\ \A k \in 1..n : p[k] = b[k]
  BY <1>1
<1> HIDE DEF p, n
<1>5. \A k \in 1..(n + 1) : k \in 1..n \/ k = n + 1
  BY <1>4
<1>6. n + 1 \in 1..(n + 1) /\ \A k \in 1..n : k \in 1..(n + 1)
  BY <1>4
<1>7. \A x \in ToSet(p) : x \in ToSet(b) \cup {id}
  BY <1>4, <1>5 DEF ToSet
<1>8. \A x \in ToSet(b) \cup {id} : x \in ToSet(p)
  BY <1>4, <1>6 DEF ToSet
<1>9. ToSet(p) = ToSet(b) \cup {id}
  BY <1>7, <1>8
<1>. QED
  BY <1>1, <1>3, <1>4, <1>9 DEF ExceptListPush

\* NodeUnaccept and NodeRetry.
LEMMA RefusedKeeps ==
    ASSUME ListsInv, NEW id \in Ids, Refused(id)
    PROVE  ListsInv'
<1> DEFINE T == Ids \cup {MyId}
           e == ExceptListPush(except, MyId, id)
           p == PushLoop(pushed, id)
           at == PriorAt(list, MyLayer, e)
<1>1. list \in Seq(Entry) /\ list # <<>> /\ ref = list /\ pushed \in Seq(T)
  BY DEF ListsInv, TypeOK, StoresAgree
<1>2. MyId \in T /\ id \in T /\ except = ToSet(pushed)
  BY DEF ListsInv, ExceptAgrees
<1>3. p \in Seq(T) /\ ToSet(p) = e
  <2> HIDE DEF T
  <2>. QED
    BY <1>1, <1>2, PushedSet
<1>4. /\ except' = IF at = {} THEN {} ELSE e
      /\ pushed' = IF PriorLoop(ref, p) = 0 THEN <<>> ELSE p
      /\ UNCHANGED <<list, ref>>
  BY DEF Refused
<1> HIDE DEF e, p
<1>5. PriorLoop(list, p) = IF at = {} THEN 0 ELSE Min(at)
  BY <1>1, <1>3, PriorLoopIs DEF Entry
<1>6. at # {} => Min(at) # 0
  <2>1. at \in SUBSET (1..Len(list)) /\ Len(list) \in Nat
    BY <1>1 DEF PriorAt
  <2> HIDE DEF at
  <2>2. at # {} => Min(at) \in at
    BY <2>1, MinMaxExist
  <2>3. \A x \in at : x # 0
    BY <2>1, PositionBounds
  <2>. QED
    BY <2>2, <2>3
<1> HIDE DEF at
<1>7. PriorLoop(ref, p) = 0 <=> at = {}
  BY <1>1, <1>5, <1>6
<1>8. pushed' \in Seq(T) /\ except' = ToSet(pushed')
  <2>1. ToSet(<<>>) = {} /\ <<>> \in Seq(T)
    BY DEF ToSet
  <2>. QED
    BY <1>3, <1>4, <1>7, <2>1
<1>. QED
  BY <1>4, <1>8 DEF ListsInv, TypeOK, StoresAgree, ExceptAgrees

\* NodeAccept.
LEMMA AcceptedKeeps ==
    ASSUME ListsInv, Accepted
    PROVE  ListsInv'
<1>1. ToSet(<<>>) = {} /\ <<>> \in Seq(Ids \cup {MyId})
  BY DEF ToSet
<1>. QED
  BY <1>1 DEF Accepted, ListsInv, TypeOK, StoresAgree, ExceptAgrees

LEMMA ListsNext == ListsInv /\ [Next]_vars => ListsInv'
<1> SUFFICES ASSUME ListsInv, [Next]_vars PROVE ListsInv'
  OBVIOUS
<1>1. CASE UNCHANGED vars
  BY <1>1 DEF vars, ListsInv, TypeOK, StoresAgree, ExceptAgrees
<1>2. CASE Next
  BY <1>2, StoreKeeps, UpdateKeeps, RefusedKeeps, AcceptedKeeps DEF Next
<1>. QED
  BY <1>1, <1>2

\* StoresAgree: "Storing List" of NodeInitialStatus and NodeAdvertise and the
\* loop of NodeResList leave what StoreNew and StoreUpdate say, for packets of
\* every length with any repeated, known and unknown ids.
THEOREM StoresAgreeHolds == Spec => []StoresAgree
<1>1. ListsInv => StoresAgree
  BY DEF ListsInv
<1>. QED
  BY <1>1, ListsInit, ListsNext, PTL DEF Spec

\* ExceptAgrees: what NodeUnaccept and NodeRetry push is the set of excepted
\* ids, empty exactly when EXCEPT_LIST is NULL.
THEOREM ExceptAgreesHolds == Spec => []ExceptAgrees
<1>1. ListsInv => ExceptAgrees
  BY DEF ListsInv
<1>. QED
  BY <1>1, ListsInit, ListsNext, PTL DEF Spec

\* PriorAgrees: GetPriorList stops at the candidate of the model, and the
\* layer of GetCloestLayer survives its int difference and its u8 result.
THEOREM PriorAgreesHolds == Spec => []PriorAgrees
<1>1. ASSUME ListsInv
      PROVE  PriorAgrees
  <2> DEFINE at == PriorAt(list, MyLayer, except)
  <2>1. /\ list \in Seq(Entry) /\ list # <<>> /\ ref = list
        /\ pushed \in Seq(Ids \cup {MyId}) /\ except = ToSet(pushed)
    BY <1>1 DEF ListsInv, TypeOK, StoresAgree, ExceptAgrees
  <2>2. PriorLoop(ref, pushed) = IF at = {} THEN 0 ELSE Min(at)
    BY <2>1, PriorLoopIs DEF Entry
  <2>3. at # {} => Min(at) # 0
    <3>1. at \in SUBSET (1..Len(list)) /\ Len(list) \in Nat
      BY <2>1 DEF PriorAt
    <3> HIDE DEF at
    <3>2. at # {} => Min(at) \in at
      BY <3>1, MinMaxExist
    <3>3. \A x \in at : x # 0
      BY <3>1, PositionBounds
    <3>. QED
      BY <3>2, <3>3
  <2>4. Candidate(list, MyLayer, except) = IF at = {} THEN list[1] ELSE list[Min(at)]
    BY DEF Candidate
  <2> HIDE DEF at
  <2>5. PriorLoop(ref, pushed) = 0 <=> at = {}
    BY <2>2, <2>3
  <2>. QED
    BY <2>1, <2>2, <2>4, <2>5 DEF PriorAgrees
<1>. QED
  BY <1>1, ListsInit, ListsNext, PTL DEF Spec

\* OriginFirstOnce: the first entry stays the origin's, so GetList returns,
\* and no id is listed twice.
THEOREM OriginFirstOnceHolds == Spec => []OriginFirstOnce
<1>1. ListsInv => OriginFirstOnce
  BY DEF ListsInv, TypeOK, OriginFirstOnce, GetListReturns, IdsDistinctIn
<1>. QED
  BY <1>1, ListsInit, ListsNext, PTL DEF Spec

=============================================================================
