---------------------------- MODULE StreamProofs ----------------------------
(***************************************************************************)
(* Types and cluster headers of BlockStream, whatever fails; when nothing   *)
(* fails, what is sent and written; and, whatever is lost and whoever ends, *)
(* the order of what is written.  For every tree, every number and size of  *)
(* clusters and every order of steps.                                       *)
(***************************************************************************)
EXTENDS BlockStream, SequenceTheorems, FiniteSetTheorems, TLAPS

-----------------------------------------------------------------------------
(* Types.                                                                   *)

Infos == [cluster : Nat, seq : Nat]
Data == (Nat \X Nat) \cup {Empty, Junk}
Clusters == [seq : Nat, data : Seq(Data), size : Nat]
NodeStates ==
    [file : Seq(Clusters), first : Nat, isFirst : BOOLEAN,
     prevSeq : Nat, curSeq : Nat, latest : Nat, block : Infos,
     total : Nat, playing : BOOLEAN, pending : Nat,
     reading : BOOLEAN, stuck : BOOLEAN, sigints : Nat, up : BOOLEAN]
Blocks == [type : {"BLOCK"}, cluster : Nat, seq : Nat, data : Data]
Messages == Blocks
            \cup [type : {"INITIAL_STATUS"}, cluster : Nat]
            \cup [type : {"HEADER", "END"}]

TypeOK ==
    /\ node \in [Nodes -> NodeStates]
    /\ server \in [Peers -> Nodes \cup {Nobody}]
    /\ sent \in [Peers -> Infos]
    /\ net \in [Peers -> Seq(Messages)]
    /\ budget \in [{"loss", "dup", "reorder", "sigint"} -> Nat]

\* A cluster, and a file, with d blocks more in its (last) header.
Bigger(cl, d) == [cl EXCEPT !.size = @ + d]
Counting(file, d) ==
    [j \in 1..Len(file) |-> IF j = Len(file) THEN Bigger(file[j], d) ELSE file[j]]

LEMMA BiggerCluster ==
    ASSUME NEW cl \in Clusters, NEW d \in Nat
    PROVE  /\ Bigger(cl, d) \in Clusters
           /\ Bigger(cl, d).seq = cl.seq /\ Bigger(cl, d).data = cl.data
           /\ Bigger(cl, d).size = cl.size + d
BY DEF Bigger, Clusters

LEMMA CountingFile ==
    ASSUME NEW file \in Seq(Clusters), NEW d \in Nat
    PROVE  /\ Counting(file, d) \in Seq(Clusters)
           /\ Len(Counting(file, d)) = Len(file)
           /\ \A j \in 1..Len(file) :
                Counting(file, d)[j] =
                  IF j = Len(file) THEN Bigger(file[j], d) ELSE file[j]
<1>1. Len(file) \in Nat /\ \A j \in 1..Len(file) : file[j] \in Clusters
  OBVIOUS
<1>2. \A j \in 1..Len(file) :
         (IF j = Len(file) THEN Bigger(file[j], d) ELSE file[j]) \in Clusters
  BY <1>1, BiggerCluster
<1>. QED
  BY <1>1, <1>2 DEF Counting

LEMMA UpdateFields ==
    ASSUME NEW st \in NodeStates
    PROVE  /\ UpdateClusterToWebM(st) =
                [st EXCEPT !.file = Counting(st.file, st.pending), !.pending = 0]
           /\ UpdateClusterToWebM(st) \in NodeStates
<1> DEFINE L == Len(st.file)
           f == [st.file EXCEPT ![L].size = @ + st.pending]
<1>1. st.file \in Seq(Clusters) /\ st.pending \in Nat /\ L \in Nat
  BY DEF NodeStates
<1>2. f = Counting(st.file, st.pending)
  <2>1. DOMAIN f = 1..L /\ st.file = [j \in 1..L |-> st.file[j]]
    BY <1>1
  <2>2. \A j \in 1..L : f[j] = Counting(st.file, st.pending)[j]
    BY <1>1, <2>1 DEF Counting, Bigger, Clusters
  <2>. QED
    BY <2>1, <2>2 DEF Counting
<1>3. UpdateClusterToWebM(st) = [st EXCEPT !.file = f, !.pending = 0]
  BY DEF UpdateClusterToWebM, NodeStates
<1>4. f \in Seq(Clusters)
  BY <1>1, <1>2, CountingFile
<1> HIDE DEF f
<1>5. [st EXCEPT !.file = f, !.pending = 0] \in NodeStates
  BY <1>4 DEF NodeStates
<1>. QED
  BY <1>2, <1>3, <1>5

\* The clusters of the file after a block, and the block's own bytes.
Bytes(m) == IF m.data = Empty THEN <<>> ELSE <<m.data>>
Closed(st) == Counting(st.file, st.pending)
Longer(cl, d) == [cl EXCEPT !.data = @ \o d]
FileWith(st, m) ==
    IF st.block.cluster # m.cluster
    THEN Append(Closed(st), Cluster(m.cluster, Bytes(m), 0))
    ELSE [Closed(st) EXCEPT ![Len(st.file)] = Longer(@, Bytes(m))]

LEMMA BytesOf ==
    ASSUME NEW m \in Blocks
    PROVE  Bytes(m) \in Seq(Data) /\ Len(Bytes(m)) \in {0, 1}
  BY DEF Blocks, Bytes

LEMMA LongerCluster ==
    ASSUME NEW cl \in Clusters, NEW d \in Seq(Data)
    PROVE  /\ Longer(cl, d) \in Clusters
           /\ Longer(cl, d).seq = cl.seq /\ Longer(cl, d).size = cl.size
           /\ Longer(cl, d).data = cl.data \o d
<1> DEFINE q == cl.data \o d
<1>1. q \in Seq(Data)
  BY DEF Clusters
<1>2. Longer(cl, d) = [cl EXCEPT !.data = q]
  BY DEF Longer
<1> HIDE DEF q
<1>3. [cl EXCEPT !.data = q] \in Clusters /\ [cl EXCEPT !.data = q].data = q
      /\ [cl EXCEPT !.data = q].seq = cl.seq /\ [cl EXCEPT !.data = q].size = cl.size
  BY <1>1 DEF Clusters
<1>. QED
  BY <1>2, <1>3 DEF q

LEMMA SeqForm ==
    ASSUME NEW S, NEW q \in Seq(S)
    PROVE  Len(q) \in Nat /\ DOMAIN q = 1..Len(q) /\ q = [j \in 1..Len(q) |-> q[j]]
  OBVIOUS

LEMMA EditAppended ==
    ASSUME NEW f \in Seq(Clusters), NEW x \in Clusters, NEW y \in Clusters
    PROVE  /\ [Append(f, x) EXCEPT ![Len(f) + 1] = y] = Append(f, y)
           /\ Append(f, x)[Len(f) + 1] = x /\ Len(Append(f, x)) = Len(f) + 1
           /\ Append(f, y) \in Seq(Clusters)
<1> DEFINE a == Append(f, x)
           b == Append(f, y)
           n == Len(f)
<1>1. /\ n \in Nat /\ a \in Seq(Clusters) /\ b \in Seq(Clusters)
      /\ Len(a) = n + 1 /\ Len(b) = n + 1 /\ a[n + 1] = x /\ b[n + 1] = y
      /\ \A j \in 1..n : a[j] = f[j] /\ b[j] = f[j]
  OBVIOUS
<1> HIDE DEF a, b, n
<1>2. /\ DOMAIN a = 1..(n + 1)
      /\ b = [j \in 1..(n + 1) |-> b[j]]
  BY <1>1, SeqForm
<1>3. [a EXCEPT ![n + 1] = y] = [j \in 1..(n + 1) |-> b[j]]
  <2>1. \A j \in 1..(n + 1) : j \in 1..n \/ j = n + 1
    BY <1>1
  <2>2. \A j \in 1..(n + 1) : [a EXCEPT ![n + 1] = y][j] = b[j]
    BY <1>1, <1>2, <2>1
  <2>3. [a EXCEPT ![n + 1] = y] = [j \in DOMAIN a |-> [a EXCEPT ![n + 1] = y][j]]
    OBVIOUS
  <2>. QED
    BY <1>2, <2>2, <2>3
<1>. QED
  BY <1>1, <1>2, <1>3 DEF a, b, n

LEMMA CountBlock ==
    ASSUME NEW st \in NodeStates
    PROVE  [st EXCEPT !.total = @ + 1] \in NodeStates
  BY DEF NodeStates

\* Assembled as one update of the state.
LEMMA AssembledFields ==
    ASSUME NEW st \in NodeStates, NEW m \in Blocks, st.file # <<>>
    PROVE  LET new == st.block.cluster # m.cluster IN
           /\ FileWith(st, m) \in Seq(Clusters)
           /\ Assembled(st, m) =
               [st EXCEPT
                  !.file = FileWith(st, m),
                  !.pending = Len(Bytes(m)),
                  !.prevSeq = IF new THEN st.curSeq ELSE @,
                  !.curSeq = IF new THEN m.cluster ELSE @,
                  !.first = IF st.isFirst THEN m.cluster ELSE @,
                  !.isFirst = FALSE,
                  !.latest = m.seq,
                  !.block = [cluster |-> m.cluster, seq |-> m.seq],
                  !.total = @ + 1]
           /\ Assembled(st, m) \in NodeStates
<1> DEFINE u == UpdateClusterToWebM(st)
           f == Closed(st)
           d == Bytes(m)
           new == st.block.cluster # m.cluster
<1>1. /\ st.file \in Seq(Clusters) /\ st.pending \in Nat /\ Len(st.file) \in Nat
      /\ m.cluster \in Nat /\ m.seq \in Nat /\ m.data \in Data /\ st.curSeq \in Nat
  BY DEF NodeStates, Blocks
<1>2. /\ f \in Seq(Clusters) /\ Len(f) = Len(st.file) /\ f # <<>>
  BY <1>1, CountingFile DEF Closed
<1>3. d \in Seq(Data) /\ Len(d) \in Nat
  BY BytesOf
<1>4. u = [st EXCEPT !.file = f, !.pending = 0] /\ u \in NodeStates
  BY UpdateFields DEF Closed
<1>5. UpdateClusterToWebM(u) = u
  <2>1. Counting(f, 0) = f
    <3>1. \A j \in 1..Len(f) : f[j] \in Clusters
      BY <1>2
    <3>2. \A cl \in Clusters : Bigger(cl, 0) = cl
      BY DEF Bigger, Clusters
    <3>3. f = [j \in 1..Len(f) |-> f[j]]
      BY <1>2
    <3>. QED
      BY <3>1, <3>2, <3>3 DEF Counting
  <2>2. u.file = f /\ u.pending = 0
    BY <1>4 DEF NodeStates
  <2>3. UpdateClusterToWebM(u) = [u EXCEPT !.file = f, !.pending = 0]
    BY <1>4, <2>1, <2>2, UpdateFields
  <2> HIDE DEF u, f
  <2>. QED
    BY <1>4, <2>2, <2>3 DEF NodeStates
<1> DEFINE k == Len(f) + 1
           open == [u EXCEPT !.prevSeq = st.curSeq, !.curSeq = m.cluster,
                             !.file = Append(f, Cluster(m.cluster, <<>>, 0))]
           last == [cluster |-> m.cluster, seq |-> m.seq]
<1> DEFINE ps == IF new THEN st.curSeq ELSE st.prevSeq
           cs == IF new THEN m.cluster ELSE st.curSeq
           fs == IF st.isFirst THEN m.cluster ELSE st.first
           file == FileWith(st, m)
           w == [st EXCEPT !.file = file, !.pending = Len(d),
                           !.prevSeq = ps, !.curSeq = cs,
                           !.first = fs, !.isFirst = FALSE,
                           !.latest = m.seq, !.block = last, !.total = @ + 1]
<1>6. u.file = f /\ u.block = st.block /\ u.curSeq = st.curSeq
  BY <1>4 DEF NodeStates
<1>7. ASSUME new
      PROVE  Assembled(st, m) = w /\ FileWith(st, m) \in Seq(Clusters)
  <2>1. InsertBlockToCluster(u, m) =
          [open EXCEPT !.file[Len(open.file)].data = @ \o d, !.pending = Len(d)]
    <3>1. open = RenewClusterForWrite(ShiftToPreCluster(UpdateClusterToWebM(u)), m.cluster)
      BY <1>4, <1>5, <1>6 DEF RenewClusterForWrite, ShiftToPreCluster, NodeStates
    <3>2. CheckClusterSeq(u, m)
      BY <1>6, <1>7 DEF CheckClusterSeq
    <3>. QED
      BY <3>1, <3>2 DEF InsertBlockToCluster, Bytes
  <2>2. open.file = Append(f, Cluster(m.cluster, <<>>, 0))
    BY <1>4 DEF NodeStates
  <2>3. /\ Cluster(m.cluster, <<>>, 0) \in Clusters /\ Cluster(m.cluster, d, 0) \in Clusters
        /\ [Cluster(m.cluster, <<>>, 0) EXCEPT !.data = @ \o d] = Cluster(m.cluster, d, 0)
    <3>1. <<>> \o d = d /\ <<>> \in Seq(Data)
      BY <1>3
    <3>2. [Cluster(m.cluster, <<>>, 0) EXCEPT !.data = @ \o d] =
            [Cluster(m.cluster, <<>>, 0) EXCEPT !.data = d]
      BY <3>1 DEF Cluster
    <3> HIDE DEF d
    <3>. QED
      BY <1>1, <1>3, <3>1, <3>2 DEF Cluster, Clusters
  <2>4. /\ Append(f, Cluster(m.cluster, d, 0)) \in Seq(Clusters)
        /\ [open.file EXCEPT ![Len(open.file)].data = @ \o d]
             = Append(f, Cluster(m.cluster, d, 0))
    <3> DEFINE x == Cluster(m.cluster, <<>>, 0)
               y == Cluster(m.cluster, d, 0)
               a == Append(f, x)
    <3>1. /\ Len(a) = k /\ a[k] = x /\ [a EXCEPT ![k] = y] = Append(f, y)
          /\ Append(f, y) \in Seq(Clusters)
      <4> HIDE DEF f, x, y
      <4>. QED
        BY <1>2, <2>3, EditAppended DEF x, y
    <3>2. [a EXCEPT ![k].data = @ \o d] = [a EXCEPT ![k] = [x EXCEPT !.data = @ \o d]]
      BY <3>1
    <3>. QED
      BY <2>2, <2>3, <3>1, <3>2
  <2>5. InsertBlockToCluster(u, m) =
          [open EXCEPT !.file = Append(f, Cluster(m.cluster, d, 0)), !.pending = Len(d)]
    <3> HIDE DEF open, u, f, d
    <3>. QED
      BY <2>1, <2>4
  <2>6. FileWith(st, m) = Append(f, Cluster(m.cluster, d, 0))
    BY <1>7 DEF FileWith
  <2>7. Assembled(st, m) =
          [st EXCEPT !.file = FileWith(st, m), !.pending = Len(d),
                     !.prevSeq = st.curSeq, !.curSeq = m.cluster,
                     !.first = IF st.isFirst THEN m.cluster ELSE @, !.isFirst = FALSE,
                     !.latest = m.seq, !.block = last, !.total = @ + 1]
    <3>1. InsertBlockToCluster(u, m) =
            [st EXCEPT !.file = FileWith(st, m), !.pending = Len(d),
                       !.prevSeq = st.curSeq, !.curSeq = m.cluster]
      <4> HIDE DEF f, u, d
      <4>. QED
        BY <1>4, <2>5, <2>6 DEF NodeStates
    <3> DEFINE v == [st EXCEPT !.file = FileWith(st, m), !.pending = Len(d),
                               !.prevSeq = st.curSeq, !.curSeq = m.cluster]
    <3>2. Assembled(st, m) =
            [v EXCEPT !.first = IF st.isFirst THEN m.cluster ELSE @, !.isFirst = FALSE,
                      !.latest = m.seq, !.block = last, !.total = @ + 1]
      BY <3>1, Zenon DEF Assembled
    <3>. QED
      <4> HIDE DEF last, d
      <4>1. v.first = st.first /\ v.total = st.total
        BY DEF NodeStates
      <4>. QED
        BY <3>2, <4>1 DEF NodeStates
  <2>8. FileWith(st, m) \in Seq(Clusters)
    BY <2>4, <2>6
  <2>. QED
    BY <1>7, <2>7, <2>8
<1>8. ASSUME ~new
      PROVE  Assembled(st, m) = w /\ FileWith(st, m) \in Seq(Clusters)
  <2>1. InsertBlockToCluster(u, m) =
          [u EXCEPT !.file[Len(u.file)].data = @ \o d, !.pending = Len(d)]
    BY <1>6, <1>8 DEF InsertBlockToCluster, CheckClusterSeq, Bytes
  <2>2. /\ FileWith(st, m) = [f EXCEPT ![Len(f)].data = @ \o d]
        /\ FileWith(st, m) \in Seq(Clusters)
    <3>1. Len(f) \in 1..Len(f) /\ f[Len(f)] \in Clusters
      <4> HIDE DEF f
      <4>. QED
        BY <1>2
    <3>2. FileWith(st, m) = [f EXCEPT ![Len(f)] = Longer(f[Len(f)], d)]
      <4> HIDE DEF d
      <4>. QED
        BY <1>2, <1>8, <3>1 DEF FileWith, d
    <3>3. Longer(f[Len(f)], d) \in Clusters
      BY <1>3, <3>1, LongerCluster
    <3> HIDE DEF f, d
    <3>4. [f EXCEPT ![Len(f)] = Longer(f[Len(f)], d)] \in Seq(Clusters)
      BY <1>2, <3>1, <3>3
    <3>. QED
      BY <3>1, <3>2, <3>4 DEF Longer
  <2>3. Assembled(st, m) =
          [st EXCEPT !.file = FileWith(st, m), !.pending = Len(d),
                     !.first = IF st.isFirst THEN m.cluster ELSE @, !.isFirst = FALSE,
                     !.latest = m.seq, !.block = last, !.total = @ + 1]
    <3> DEFINE v == [st EXCEPT !.file = FileWith(st, m), !.pending = Len(d)]
    <3>1. InsertBlockToCluster(u, m) = v
      <4> HIDE DEF f, u, d
      <4>. QED
        BY <1>4, <1>6, <2>1, <2>2 DEF NodeStates
    <3>2. Assembled(st, m) =
            [v EXCEPT !.first = IF st.isFirst THEN m.cluster ELSE @, !.isFirst = FALSE,
                      !.latest = m.seq, !.block = last, !.total = @ + 1]
      BY <3>1, Zenon DEF Assembled
    <3> HIDE DEF last, d
    <3>3. v.first = st.first /\ v.total = st.total
      BY DEF NodeStates
    <3>. QED
      BY <3>2, <3>3 DEF NodeStates
  <2>4. ps = st.prevSeq /\ cs = st.curSeq
    BY <1>8
  <2> HIDE DEF d, last, file, ps, cs, new
  <2>5. w = [st EXCEPT !.file = file, !.pending = Len(d), !.first = fs, !.isFirst = FALSE,
                       !.latest = m.seq, !.block = last, !.total = @ + 1]
    BY <2>4 DEF NodeStates
  <2>. QED
    BY <2>2, <2>3, <2>5 DEF file
<1>9. FileWith(st, m) \in Seq(Clusters) /\ Assembled(st, m) = w
  BY <1>7, <1>8
<1>10. last \in Infos /\ ps \in Nat /\ cs \in Nat /\ fs \in Nat /\ Len(d) \in Nat
  <2>1. st.prevSeq \in Nat /\ st.first \in Nat
    BY DEF NodeStates
  <2>. QED
    BY <1>1, <1>3, <2>1 DEF Infos
<1>11. w \in NodeStates
  <2>1. file \in Seq(Clusters) /\ m.seq \in Nat
    BY <1>1, <1>9
  <2> DEFINE n == Len(d)
             v == [st EXCEPT !.file = file, !.pending = n, !.prevSeq = ps, !.curSeq = cs]
  <2> HIDE DEF last, ps, cs, fs, file, n
  <2>2. v \in NodeStates
    BY <1>10, <2>1 DEF NodeStates, n
  <2> DEFINE v2 == [v EXCEPT !.first = fs, !.latest = m.seq, !.block = last]
             v3 == [v2 EXCEPT !.isFirst = FALSE]
  <2>3. w = [v3 EXCEPT !.total = @ + 1]
    BY DEF NodeStates, n
  <2> HIDE DEF v, w
  <2>4. v2 \in NodeStates
    BY <1>10, <2>1, <2>2 DEF NodeStates
  <2> HIDE DEF v2
  <2>5. v3 \in NodeStates
    BY <2>4 DEF NodeStates
  <2> HIDE DEF v3
  <2>6. [v3 EXCEPT !.total = @ + 1] \in NodeStates
    BY <2>5, CountBlock
  <2>. QED
    BY <2>3, <2>6
<1>. QED
  BY <1>9, <1>11

-----------------------------------------------------------------------------
(* Every step keeps the types.                                              *)

LEMMA RecordedFile ==
    /\ Recorded \in Seq(Clusters) /\ Len(Recorded) = Len(Sizes)
    /\ \A k \in 0..Len(Sizes) :
         SubSeq(Recorded, 1, k) \in Seq(Clusters) /\ Len(SubSeq(Recorded, 1, k)) = k
<1>1. Len(Sizes) \in Nat /\ \A c \in 1..Len(Sizes) : Sizes[c] \in Nat \ {0}
  BY SizesAssumption
<1>2. \A c \in 1..Len(Sizes) :
        Cluster(c - 1, [s \in 1..Sizes[c] |-> <<c - 1, s>>], Sizes[c]) \in Clusters
  <2> TAKE c \in 1..Len(Sizes)
  <2> DEFINE d == [s \in 1..Sizes[c] |-> <<c - 1, s>>]
  <2>1. d \in Seq(Data)
    BY <1>1 DEF Data
  <2> HIDE DEF d
  <2>2. Cluster(c - 1, d, Sizes[c]) \in Clusters
    BY <1>1, <2>1 DEF Cluster, Clusters
  <2>. QED
    BY <2>2 DEF d
<1>3. Recorded \in Seq(Clusters) /\ Len(Recorded) = Len(Sizes)
  BY <1>1, <1>2 DEF Recorded
<1>. QED
  BY <1>1, <1>3

\* What lies behind a block it can reach is data, and so a block to send.
LEMMA BlockToSend ==
    ASSUME NEW n, NEW st \in NodeStates, NEW info \in Infos,
           Reachable(st, info.cluster)
    PROVE  CacheBlock(n, st, info) \in Blocks /\ After(n, st, info) \in Infos
<1> DEFINE j == info.cluster - st.first + 1
           s == info.seq + 1
<1>1. /\ info.cluster \in Nat /\ info.seq \in Nat /\ st.first \in Nat
      /\ j \in Nat /\ j > 0 /\ s \in Nat /\ s > 0 /\ st.file \in Seq(Clusters)
  BY DEF Infos, NodeStates, Reachable
<1> DEFINE last == Len(st.file[j].data)
<1>2. j <= Len(st.file) => st.file[j].data \in Seq(Data) /\ last \in Nat
  <2>1. j <= Len(st.file) => st.file[j] \in Clusters
    BY <1>1
  <2>. QED
    BY <2>1 DEF Clusters
<1>3. NextInFile(n, st, info).data \in Data
  <2>1. j <= Len(st.file) /\ (s < last \/ s = last) => st.file[j].data[s] \in Data
    BY <1>1, <1>2
  <2>2. Empty \in Data /\ Junk \in Data
    BY DEF Data
  <2>. QED
    BY <1>1, <2>1, <2>2 DEF NextInFile
<1>4. CacheBlock(n, st, info) \in Blocks
  BY <1>1, <1>3 DEF CacheBlock, Blocks
<1>5. After(n, st, info) \in Infos
  BY <1>1 DEF After, RenewBlock, ShiftToPreBlock, Infos
<1>. QED
  BY <1>4, <1>5

\* What SendMulStream does: n is in its new state, stuck or not, and whoever it
\* serves may have been sent one block.
Sends(n, st, queues) ==
    /\ node' \in [Nodes -> NodeStates]
    /\ sent' \in [Peers -> Infos]
    /\ net' \in [Peers -> Seq(Messages)]
    /\ \A x \in Nodes : x # n => node'[x] = node[x]
    /\ \E b \in BOOLEAN : node'[n] = [st EXCEPT !.stuck = b]
    /\ \A c \in Peers :
         \/ net'[c] = queues[c]
         \/ /\ node[c].up /\ server[c] = n
            /\ \E m \in Blocks : net'[c] = Append(queues[c], m)

LEMMA SendStep ==
    ASSUME TypeOK, NEW n \in Nodes, NEW st \in NodeStates,
           NEW queues \in [Peers -> Seq(Messages)],
           SendMulStream(n, st, queues)
    PROVE  Sends(n, st, queues)
<1> DEFINE due == {c \in Peers : server[c] = n /\ IsOldBlockSeq(st, sent[c])}
           far == {c \in due : ~Reachable(st, sent[c].cluster)}
<1>1. PICK C \in IF far = {} THEN {due} ELSE SUBSET (due \ far) :
          /\ node' = [node EXCEPT ![n] = [st EXCEPT !.stuck = far # {}]]
          /\ sent' = [c \in Peers |-> IF c \in C THEN After(n, st, sent[c])
                                      ELSE sent[c]]
          /\ net' = [c \in Peers |->
                       IF c \in C /\ node[c].up
                       THEN Append(queues[c], CacheBlock(n, st, sent[c]))
                       ELSE queues[c]]
  BY Zenon DEF SendMulStream
<1>2. \A c \in C : c \in Peers /\ server[c] = n /\ Reachable(st, sent[c].cluster)
  OBVIOUS
<1>3. \A c \in C : /\ CacheBlock(n, st, sent[c]) \in Blocks
                   /\ After(n, st, sent[c]) \in Infos
  BY <1>2, BlockToSend DEF TypeOK
<1>4. (far # {}) \in BOOLEAN
  OBVIOUS
<1> HIDE DEF due, far
<1>5. \E b \in BOOLEAN : node'[n] = [st EXCEPT !.stuck = b]
  BY <1>1, <1>4 DEF TypeOK
<1>6. \A b \in BOOLEAN : [st EXCEPT !.stuck = b] \in NodeStates
  BY DEF NodeStates
<1>7. /\ node' \in [Nodes -> NodeStates]
      /\ \A x \in Nodes : x # n => node'[x] = node[x]
  BY <1>1, <1>4, <1>6 DEF TypeOK
<1>8. sent' \in [Peers -> Infos]
  BY <1>1, <1>3 DEF TypeOK
<1>9. \A c \in Peers :
        \/ net'[c] = queues[c]
        \/ /\ node[c].up /\ server[c] = n
           /\ \E m \in Blocks : net'[c] = Append(queues[c], m)
  BY <1>1, <1>2, <1>3
<1>10. net' \in [Peers -> Seq(Messages)]
  <2>1. \A q \in Seq(Messages), m \in Blocks : Append(q, m) \in Seq(Messages)
    BY DEF Messages
  <2>2. \A c \in Peers : net'[c] \in Seq(Messages)
    BY <1>9, <2>1
  <2>. QED
    BY <1>1, <2>2
<1>. QED
  BY <1>5, <1>7, <1>8, <1>9, <1>10 DEF Sends

-----------------------------------------------------------------------------
(* A peer's file and the packets on their way to it.                        *)

\* From the k-th packet on there is nothing but blocks and END.
Quiet(q, k) == \A i \in k..Len(q) : q[i].type \in {"BLOCK", "END"}

\* The header comes first, or INITIAL_STATUS and then the header.
Opens(q) ==
    \/ Len(q) >= 1 /\ q[1].type = "HEADER" /\ Quiet(q, 2)
    \/ /\ Len(q) >= 2 /\ q[1].type = "INITIAL_STATUS" /\ q[2].type = "HEADER"
       /\ Quiet(q, 3)

\* The headers count all blocks but the one that is pending.
Counted(file, pending) ==
    /\ file = <<>> => pending = 0
    /\ \A j \in 1..Len(file) :
          Len(file[j].data) = file[j].size + (IF j = Len(file) THEN pending ELSE 0)

\* st is the state of a peer, srv its server and q the packets it has to read:
\* the file is opened before the first block can be read, once, and a peer that
\* has ended itself has no block pending.
PeerOK(st, srv, q) ==
    /\ Counted(st.file, st.pending) /\ st.pending \in {0, 1}
    /\ srv = Nobody => q = <<>> /\ st.file = <<>>
    /\ ~st.up => q = <<>> /\ (st.sigints = 0 => st.pending = 0)
    /\ st.file # <<>> => Quiet(q, 1)
    /\ st.up /\ srv # Nobody /\ st.file = <<>> => Opens(q)

StreamInv == TypeOK /\ \A p \in Peers : PeerOK(node[p], server[p], net[p])

LEMMA AppendQuiet ==
    ASSUME NEW q \in Seq(Messages), NEW m \in Messages, m.type \in {"BLOCK", "END"}
    PROVE  /\ Append(q, m) \in Seq(Messages)
           /\ \A k \in 1..3 : Quiet(q, k) => Quiet(Append(q, m), k)
           /\ Opens(q) => Opens(Append(q, m))
<1>1. /\ Append(q, m) \in Seq(Messages) /\ Len(q) \in Nat /\ Len(Append(q, m)) = Len(q) + 1
      /\ \A i \in 1..Len(q) : Append(q, m)[i] = q[i]
      /\ Append(q, m)[Len(q) + 1] = m
  OBVIOUS
<1> DEFINE r == Append(q, m)
<1> HIDE DEF r
<1>2. \A k \in 1..3 : Quiet(q, k) => Quiet(r, k)
  BY <1>1 DEF Quiet, r
<1>3. Opens(q) => Opens(r)
  BY <1>1, <1>2 DEF Opens, r
<1>. QED
  BY <1>1, <1>2, <1>3 DEF r

LEMMA TailQuiet ==
    ASSUME NEW q \in Seq(Messages), q # <<>>
    PROVE  /\ Tail(q) \in Seq(Messages) /\ Head(q) = q[1] /\ q[1] \in Messages
           /\ Len(Tail(q)) = Len(q) - 1 /\ \A i \in 1..Len(Tail(q)) : Tail(q)[i] = q[i + 1]
           /\ Quiet(q, 1) => Quiet(Tail(q), 1)
           /\ Opens(q) /\ q[1].type = "HEADER" => Quiet(Tail(q), 1)
           /\ Opens(q) /\ q[1].type = "INITIAL_STATUS" => Opens(Tail(q))
           /\ Opens(q) => q[1].type \in {"HEADER", "INITIAL_STATUS"}
<1> DEFINE r == Tail(q)
<1>1. /\ Tail(q) \in Seq(Messages) /\ Head(q) = q[1] /\ q[1] \in Messages
      /\ Len(q) \in Nat /\ Len(q) > 0
      /\ Len(Tail(q)) = Len(q) - 1 /\ \A i \in 1..Len(Tail(q)) : Tail(q)[i] = q[i + 1]
  OBVIOUS
<1> HIDE DEF r
<1>2. Quiet(q, 1) => Quiet(r, 1)
  BY <1>1 DEF Quiet, r
<1>3. Quiet(q, 2) => Quiet(r, 1)
  BY <1>1 DEF Quiet, r
<1>4. Quiet(q, 3) => Quiet(r, 2)
  BY <1>1 DEF Quiet, r
<1>5. Len(q) >= 2 => r[1] = q[2]
  BY <1>1 DEF r
<1>6. Opens(q) /\ q[1].type = "INITIAL_STATUS" => Opens(r)
  BY <1>1, <1>4, <1>5 DEF Opens, r
<1>. QED
  BY <1>1, <1>2, <1>3, <1>6 DEF Opens, r

\* One more block, or END, for a peer that is there and is served.
LEMMA PeerSent ==
    ASSUME NEW st \in NodeStates, NEW srv, NEW q \in Seq(Messages), NEW m \in Messages,
           PeerOK(st, srv, q), m.type \in {"BLOCK", "END"}, srv # Nobody, st.up
    PROVE  PeerOK(st, srv, Append(q, m))
  BY AppendQuiet DEF PeerOK

\* A step of n that ends with SendMulStream: n's own packets and file are as
\* they should be before it.
LEMMA SendKeeps ==
    ASSUME TypeOK, NEW n \in Nodes, NEW st \in NodeStates,
           NEW queues \in [Peers -> Seq(Messages)],
           SendMulStream(n, st, queues),
           UNCHANGED <<server, budget>>,
           st.up = node[n].up,
           \A p \in Peers : p # n => PeerOK(node[p], server[p], queues[p]),
           n \in Peers => PeerOK(st, server[n], queues[n])
    PROVE  StreamInv'
<1>1. /\ node' \in [Nodes -> NodeStates]
      /\ sent' \in [Peers -> Infos]
      /\ net' \in [Peers -> Seq(Messages)]
      /\ \A x \in Nodes : x # n => node'[x] = node[x]
      /\ \E b \in BOOLEAN : node'[n] = [st EXCEPT !.stuck = b]
      /\ \A c \in Peers :
           \/ net'[c] = queues[c]
           \/ /\ node[c].up /\ server[c] = n
              /\ \E m \in Blocks : net'[c] = Append(queues[c], m)
  <2>1. Sends(n, st, queues)
    BY SendStep
  <2>. QED
    BY <2>1, Zenon DEF Sends
<1>2. TypeOK'
  BY <1>1 DEF TypeOK
<1>3. Nobody \notin Nodes /\ Peers \subseteq Nodes /\ server \in [Peers -> Nodes \cup {Nobody}]
  BY TreeAssumption DEF TypeOK, Nodes
<1>4. \A p \in Peers : PeerOK(node'[p], server[p], queues[p])
  <2>1. PICK b \in BOOLEAN : node'[n] = [st EXCEPT !.stuck = b]
    BY <1>1
  <2>2. /\ node'[n].file = st.file /\ node'[n].pending = st.pending
        /\ node'[n].up = st.up /\ node'[n].sigints = st.sigints
    BY <2>1 DEF NodeStates
  <2>3. \A p \in Peers : p # n => node'[p] = node[p]
    BY <1>1, <1>3
  <2>4. n \in Peers => PeerOK(node'[n], server[n], queues[n])
    BY <2>2 DEF PeerOK
  <2>. QED
    BY <2>3, <2>4
<1>5. ASSUME NEW p \in Peers
      PROVE  PeerOK(node'[p], server'[p], net'[p])
  <2>1. CASE net'[p] = queues[p]
    BY <1>4, <2>1
  <2>2. ASSUME node[p].up, server[p] = n, NEW m \in Blocks,
               net'[p] = Append(queues[p], m)
        PROVE  PeerOK(node'[p], server'[p], net'[p])
    <3>1. node'[p].up /\ node'[p] \in NodeStates
      <4>1. node'[n].up = node[n].up
        BY <1>1 DEF NodeStates
      <4>. QED
        BY <1>1, <1>3, <2>2, <4>1
    <3>2. server[p] # Nobody /\ queues[p] \in Seq(Messages)
      BY <1>3, <2>2
    <3>3. m \in Messages /\ m.type = "BLOCK"
      BY DEF Messages, Blocks
    <3>4. PeerOK(node'[p], server[p], queues[p])
      BY <1>4
    <3>. QED
      BY <2>2, <3>1, <3>2, <3>3, <3>4, PeerSent
  <2>. QED
    BY <1>1, <2>1, <2>2
<1>. QED
  BY <1>2, <1>5 DEF StreamInv

\* Only the states of nodes change, and not what a peer's file depends on.
LEMMA NodeKeeps ==
    ASSUME StreamInv, NEW n \in Nodes, NEW st \in NodeStates,
           node' = [node EXCEPT ![n] = st], UNCHANGED <<server, sent, net, budget>>,
           n \in Peers => /\ st.file = node[n].file /\ st.pending = node[n].pending
                          /\ st.up = node[n].up /\ st.sigints = node[n].sigints
    PROVE  StreamInv'
<1>1. TypeOK'
  BY DEF StreamInv, TypeOK
<1>2. ASSUME NEW p \in Peers
      PROVE  PeerOK(node'[p], server'[p], net'[p])
  <2>1. PeerOK(node[p], server[p], net[p]) /\ p \in Nodes
    BY DEF StreamInv, Nodes
  <2>2. p # n => node'[p] = node[p]
    BY <2>1 DEF StreamInv, TypeOK
  <2>3. p = n => node'[p] = st
    BY <2>1 DEF StreamInv, TypeOK
  <2>. QED
    BY <2>1, <2>2, <2>3 DEF PeerOK
<1>. QED
  BY <1>1, <1>2 DEF StreamInv

LEMMA StreamInit == Init => StreamInv
<1> SUFFICES ASSUME Init PROVE StreamInv
  OBVIOUS
<1>1. PICK z \in Fresh :
          node = [n \in Nodes |->
                    IF n = Origin
                    THEN [Blank EXCEPT !.file = SubSeq(Recorded, 1, Lead), !.prevSeq = z]
                    ELSE Blank]
  BY DEF Init
<1>2. Blank \in NodeStates
  BY DEF Blank, NodeStates, Infos
<1>3. [Blank EXCEPT !.file = SubSeq(Recorded, 1, Lead), !.prevSeq = z] \in NodeStates
  <2>1. SubSeq(Recorded, 1, Lead) \in Seq(Clusters) /\ z \in Nat
    BY RecordedFile, SizesAssumption, FreshAssumption
  <2>. QED
    BY <1>2, <2>1 DEF NodeStates
<1>4. TypeOK
  BY <1>1, <1>2, <1>3, BudgetAssumption DEF Init, TypeOK, Infos, Nodes
<1>5. \A p \in Peers : node[p] = Blank /\ server[p] = Nobody /\ net[p] = <<>>
  BY <1>1, TreeAssumption DEF Init, Nodes
<1>6. PeerOK(Blank, Nobody, <<>>)
  BY DEF PeerOK, Counted, Quiet, Blank
<1>. QED
  BY <1>4, <1>5, <1>6 DEF StreamInv

-----------------------------------------------------------------------------
(* The headers.                                                             *)

LEMMA ClosedCounted ==
    ASSUME NEW file \in Seq(Clusters), NEW d \in Nat, Counted(file, d)
    PROVE  Counted(Counting(file, d), 0) /\ (file # <<>> <=> Counting(file, d) # <<>>)
<1> DEFINE f == Counting(file, d)
<1>1. f \in Seq(Clusters) /\ Len(f) = Len(file) /\ Len(file) \in Nat
  BY CountingFile
<1>2. \A j \in 1..Len(file) : file[j] \in Clusters
  OBVIOUS
<1>3. ASSUME NEW j \in 1..Len(file)
      PROVE  Len(f[j].data) = f[j].size
  <2>1. f[j] = IF j = Len(file) THEN Bigger(file[j], d) ELSE file[j]
    BY CountingFile
  <2>2. /\ Bigger(file[j], d).data = file[j].data
        /\ Bigger(file[j], d).size = file[j].size + d
    BY <1>2, BiggerCluster
  <2>3. Len(file[j].data) = file[j].size + (IF j = Len(file) THEN d ELSE 0)
    BY DEF Counted
  <2>4. file[j].size \in Nat
    BY <1>2 DEF Clusters
  <2> HIDE DEF f
  <2>. QED
    BY <2>1, <2>2, <2>3, <2>4
<1>4. \A j \in 1..Len(f) : f[j].size \in Nat
  <2>1. \A j \in 1..Len(f) : f[j] \in Clusters
    BY <1>1
  <2>. QED
    BY <2>1 DEF Clusters
<1>5. file # <<>> <=> f # <<>>
  <2> HIDE DEF f
  <2>. QED
    BY <1>1
<1> HIDE DEF f
<1>6. Counted(f, 0)
  BY <1>1, <1>3, <1>4 DEF Counted
<1>. QED
  BY <1>5, <1>6 DEF f

\* A new cluster, and the bytes of a block in it, behind counted ones.
LEMMA OpenedCounted ==
    ASSUME NEW f \in Seq(Clusters), Counted(f, 0), NEW c \in Nat, NEW d \in Seq(Data)
    PROVE  Counted(Append(f, Cluster(c, d, 0)), Len(d))
<1> DEFINE x == Cluster(c, d, 0)
           g == Append(f, x)
<1>1. x \in Clusters /\ x.data = d /\ x.size = 0 /\ Len(d) \in Nat
  BY DEF Cluster, Clusters
<1> HIDE DEF x
<1>2. /\ Len(f) \in Nat /\ Len(g) = Len(f) + 1 /\ g[Len(f) + 1] = x
      /\ \A j \in 1..Len(f) : g[j] = f[j]
      /\ g # <<>>
  BY <1>1
<1>3. \A j \in 1..Len(f) : f[j].size \in Nat
  <2>1. \A j \in 1..Len(f) : f[j] \in Clusters
    OBVIOUS
  <2>. QED
    BY <2>1 DEF Clusters
<1> HIDE DEF g
<1>4. ASSUME NEW j \in 1..Len(g)
      PROVE  Len(g[j].data) = g[j].size + (IF j = Len(g) THEN Len(d) ELSE 0)
  <2>1. CASE j = Len(g)
    BY <1>1, <1>2, <2>1
  <2>2. CASE j # Len(g)
    <3>1. j \in 1..Len(f) /\ j # Len(g)
      BY <1>2, <2>2
    <3>2. Len(f[j].data) = f[j].size
      BY <1>3, <3>1 DEF Counted
    <3>. QED
      BY <1>2, <1>3, <3>1, <3>2
  <2>. QED
    BY <2>1, <2>2
<1>. QED
  BY <1>2, <1>4 DEF Counted, g, x

LEMMA AssembledCounted ==
    ASSUME NEW st \in NodeStates, NEW m \in Blocks, st.file # <<>>,
           Counted(st.file, st.pending)
    PROVE  FileWith(st, m) # <<>> /\ Counted(FileWith(st, m), Len(Bytes(m)))
<1> DEFINE f == Closed(st)
           d == Bytes(m)
           L == Len(f)
<1>1. st.file \in Seq(Clusters) /\ st.pending \in Nat /\ m.cluster \in Nat
  BY DEF NodeStates, Blocks
<1>2. f \in Seq(Clusters) /\ f # <<>> /\ Counted(f, 0) /\ L = Len(st.file) /\ L \in Nat
  BY <1>1, CountingFile, ClosedCounted DEF Closed
<1>3. d \in Seq(Data) /\ Len(d) \in Nat
  BY BytesOf
<1>4. CASE st.block.cluster # m.cluster
  <2>1. FileWith(st, m) = Append(f, Cluster(m.cluster, d, 0))
    BY <1>4 DEF FileWith
  <2> HIDE DEF f, d
  <2>. QED
    BY <1>1, <1>2, <1>3, <2>1, OpenedCounted DEF d
<1>5. CASE st.block.cluster = m.cluster
  <2> DEFINE x == Longer(f[L], d)
             g == FileWith(st, m)
  <2>1. L \in 1..L /\ f[L] \in Clusters
    <3> HIDE DEF f
    <3>. QED
      BY <1>2
  <2>2. g = [f EXCEPT ![L] = x]
    <3> HIDE DEF f, d
    <3>. QED
      BY <1>2, <1>5 DEF FileWith, d, f
  <2>3. /\ x.size = f[L].size /\ x.data = f[L].data \o d /\ x.size \in Nat
        /\ f[L].data \in Seq(Data)
    <3>1. x.size = f[L].size /\ x.data = f[L].data \o d
      BY <1>3, <2>1, LongerCluster
    <3>. QED
      BY <2>1, <3>1 DEF Clusters
  <2>4. Len(x.data) = x.size + Len(d)
    <3>1. Len(f[L].data) = f[L].size + 0
      BY <1>2, <2>1 DEF Counted
    <3>2. Len(f[L].data \o d) = Len(f[L].data) + Len(d)
      BY <1>3, <2>3
    <3>. QED
      BY <1>3, <2>3, <3>1, <3>2
  <2>5. DOMAIN f = 1..L /\ \A j \in 1..L : f[j] \in Clusters
    BY <1>2, SeqForm
  <2> HIDE DEF f, d, x, g, L
  <2>6. /\ DOMAIN g = 1..L /\ g[L] = x
        /\ \A j \in 1..L : j # L => g[j] = f[j]
    BY <2>1, <2>2, <2>5
  <2>7. g \in Seq(Clusters) /\ Len(g) = L /\ g # <<>>
    <3>1. FileWith(st, m) \in Seq(Clusters)
      BY AssembledFields
    <3>. QED
      BY <1>2, <2>1, <2>6, <3>1 DEF g
  <2>8. \A j \in 1..L : j # L => Len(f[j].data) = f[j].size + 0
    BY <1>2 DEF Counted, L
  <2>9. Counted(g, Len(d))
    BY <2>4, <2>6, <2>7, <2>8 DEF Counted
  <2>. QED
    BY <2>7, <2>9 DEF g, d
<1>. QED
  BY <1>4, <1>5

-----------------------------------------------------------------------------
(* StreamInv, one lemma for each handler that touches a file or a queue.    *)

\* The packets to everyone but p stay; those to p, p's file and who serves it
\* are as they should be.
LEMMA PeerStep ==
    ASSUME StreamInv, NEW p \in Peers, TypeOK',
           \A x \in Peers : x # p => /\ node'[x] = node[x] /\ server'[x] = server[x]
                                     /\ net'[x] = net[x],
           PeerOK(node'[p], server'[p], net'[p])
    PROVE  StreamInv'
  BY DEF StreamInv

\* A packet has arrived at a peer that is there and is served.
LEMMA ArrivedAt ==
    ASSUME StreamInv, NEW n \in Peers, NEW type, Arrived(n, type)
    PROVE  /\ net[n] \in Seq(Messages) /\ net[n] # <<>> /\ Head(net[n]) \in Messages
           /\ Head(net[n]).type = type /\ Head(net[n]) = net[n][1]
           /\ node[n].up /\ ~node[n].stuck /\ server[n] # Nobody
           /\ node[n] \in NodeStates /\ n \in Nodes
           /\ Taken(n) \in [Peers -> Seq(Messages)]
           /\ Taken(n)[n] = Tail(net[n])
           /\ \A x \in Peers : x # n => Taken(n)[x] = net[x]
<1>1. /\ net \in [Peers -> Seq(Messages)] /\ net[n] \in Seq(Messages) /\ net[n] # <<>>
      /\ n \in Nodes /\ node[n] \in NodeStates /\ Head(net[n]).type = type
      /\ node[n].up /\ ~node[n].stuck
  BY DEF StreamInv, TypeOK, Arrived, Runs, Nodes
<1>2. /\ Head(net[n]) = net[n][1] /\ Head(net[n]) \in Messages
      /\ Tail(net[n]) \in Seq(Messages)
  BY <1>1, TailQuiet
<1>3. server[n] # Nobody
  BY <1>1 DEF StreamInv, PeerOK
<1>. QED
  BY <1>1, <1>2, <1>3 DEF Taken

LEMMA JoinKeeps ==
    ASSUME StreamInv, NEW c \in Peers, Join(c)
    PROVE  StreamInv'
<1> DEFINE p == Parent[c]
           q == <<[type |-> "INITIAL_STATUS", cluster |-> JoinAt(node[p]).cluster],
                  [type |-> "HEADER"]>>
<1>1. /\ server[c] = Nobody /\ p \in Nodes /\ server' = [server EXCEPT ![c] = p]
      /\ net' = [net EXCEPT ![c] = @ \o q] /\ UNCHANGED <<node, budget>>
      /\ sent' = [sent EXCEPT ![c] = JoinAt(node[p])]
  BY TreeAssumption DEF Join
<1>2. JoinAt(node[p]) \in Infos
  BY <1>1 DEF StreamInv, TypeOK, JoinAt, Infos, NodeStates
<1>3. /\ net[c] = <<>> /\ node[c].file = <<>> /\ node[c].up
      /\ Counted(node[c].file, node[c].pending) /\ node[c].pending \in {0, 1}
  BY <1>1 DEF StreamInv, PeerOK, Join
<1>4. q \in Seq(Messages) /\ Opens(q)
  BY <1>2 DEF Messages, Infos, Opens, Quiet
<1>5. net[c] \o q = q
  BY <1>3, <1>4
<1> HIDE DEF q, p
<1>6. TypeOK'
  BY <1>1, <1>2, <1>4, <1>5 DEF StreamInv, TypeOK
<1>7. /\ net'[c] = q /\ server'[c] = p /\ node'[c] = node[c]
      /\ \A x \in Peers : x # c => /\ node'[x] = node[x] /\ server'[x] = server[x]
                                   /\ net'[x] = net[x]
  BY <1>1, <1>5 DEF StreamInv, TypeOK
<1>8. p # Nobody
  BY <1>1, TreeAssumption
<1>9. PeerOK(node'[c], server'[c], net'[c])
  BY <1>3, <1>4, <1>7, <1>8 DEF PeerOK
<1>. QED
  BY <1>6, <1>7, <1>9, PeerStep

LEMMA ReconnectKeeps ==
    ASSUME StreamInv, NEW c \in Peers, Reconnect(c)
    PROVE  StreamInv'
<1>1. PICK p \in {Origin} \cup {q \in Peers \ {c} : server[q] # c} :
          server' = [server EXCEPT ![c] = p]
  BY DEF Reconnect
<1>2. /\ server[c] # Nobody /\ UNCHANGED <<node, net, budget>>
      /\ sent' = [sent EXCEPT ![c] = RetryAt(node[c])]
  BY DEF Reconnect
<1>3. RetryAt(node[c]) \in Infos
  <2>1. node[c] \in NodeStates
    BY DEF StreamInv, TypeOK, Nodes
  <2>2. node[c].curSeq \in Nat
    BY <2>1 DEF NodeStates
  <2>. QED
    BY <2>2 DEF RetryAt, RenewBlock, Infos
<1>4. p \in Nodes /\ p # Nobody
  BY TreeAssumption DEF Nodes
<1>5. TypeOK'
  BY <1>1, <1>2, <1>3, <1>4 DEF StreamInv, TypeOK
<1>6. /\ server'[c] = p /\ \A x \in Peers : x # c => server'[x] = server[x]
  BY <1>1 DEF StreamInv, TypeOK
<1>7. PeerOK(node[c], server[c], net[c])
  BY DEF StreamInv
<1>8. PeerOK(node[c], p, net[c])
  BY <1>2, <1>4, <1>7 DEF PeerOK
<1>. QED
  BY <1>2, <1>5, <1>6, <1>8, PeerStep

LEMMA BlockStarted ==
    ASSUME NEW st \in NodeStates, NEW z \in Nat, NEW b \in Infos
    PROVE  LET u == [st EXCEPT !.prevSeq = z, !.block = b] IN
           /\ u \in NodeStates
           /\ u.file = st.file /\ u.pending = st.pending /\ u.up = st.up
  BY DEF NodeStates

LEMMA InitialStatusKeeps ==
    ASSUME StreamInv, NEW n \in Peers, NodeInitialStatus(n)
    PROVE  StreamInv'
<1> DEFINE m == Head(net[n])
<1>0. Arrived(n, "INITIAL_STATUS")
  BY DEF NodeInitialStatus
<1>1. PICK z \in Fresh :
          node' = [node EXCEPT ![n] =
                     [@ EXCEPT !.prevSeq = z,
                               !.block = [cluster |-> m.cluster, seq |-> 0]]]
  BY DEF NodeInitialStatus
<1>2. net' = Taken(n) /\ UNCHANGED <<server, sent, budget>>
  BY DEF NodeInitialStatus
<1> DEFINE b == [cluster |-> m.cluster, seq |-> 0]
           st == [node[n] EXCEPT !.prevSeq = z, !.block = b]
<1>3. b \in Infos /\ z \in Nat
  BY <1>0, ArrivedAt, FreshAssumption DEF Messages, Blocks, Infos
<1>4. /\ st \in NodeStates /\ st.file = node[n].file /\ st.pending = node[n].pending
      /\ st.up = node[n].up
  <2>1. node[n] \in NodeStates
    BY <1>0, ArrivedAt
  <2> HIDE DEF b
  <2>. QED
    BY <1>3, <2>1, BlockStarted
<1>5. node' = [node EXCEPT ![n] = st]
  BY <1>1
<1> HIDE DEF st
<1>6. TypeOK'
  BY <1>0, <1>2, <1>4, <1>5, ArrivedAt DEF StreamInv, TypeOK
<1>7. /\ node'[n] = st /\ net'[n] = Tail(net[n]) /\ server'[n] = server[n]
      /\ \A x \in Peers : x # n => /\ node'[x] = node[x] /\ server'[x] = server[x]
                                   /\ net'[x] = net[x]
  BY <1>0, <1>2, <1>5, ArrivedAt DEF StreamInv, TypeOK, Nodes
<1>8. PeerOK(st, server[n], Tail(net[n]))
  <2>1. PeerOK(node[n], server[n], net[n])
    BY DEF StreamInv
  <2>2. node[n].file = <<>>
    <3>1. Quiet(net[n], 1) => net[n][1].type \in {"BLOCK", "END"}
      BY <1>0, ArrivedAt DEF Quiet
    <3>. QED
      BY <1>0, <2>1, <3>1, ArrivedAt DEF PeerOK
  <2>3. Opens(net[n]) /\ node[n].up /\ server[n] # Nobody
    BY <1>0, <2>1, <2>2, ArrivedAt DEF PeerOK
  <2>4. Opens(Tail(net[n]))
    <3>1. net[n] \in Seq(Messages) /\ net[n] # <<>> /\ net[n][1].type = "INITIAL_STATUS"
      BY <1>0, ArrivedAt
    <3>. QED
      BY <2>3, <3>1, TailQuiet
  <2>. QED
    BY <1>4, <2>1, <2>2, <2>3, <2>4 DEF PeerOK
<1>. QED
  BY <1>6, <1>7, <1>8, PeerStep

LEMMA ClusterOpened ==
    ASSUME NEW st \in NodeStates, NEW c \in Nat
    PROVE  LET u == RenewClusterForWrite(st, c) IN
           /\ u \in NodeStates
           /\ u.file = Append(st.file, Cluster(c, <<>>, 0))
           /\ u.pending = st.pending /\ u.up = st.up
<1> DEFINE f == Append(st.file, Cluster(c, <<>>, 0))
<1>1. st.file \in Seq(Clusters)
  BY DEF NodeStates
<1>2. Cluster(c, <<>>, 0) \in Clusters
  BY DEF Cluster, Clusters
<1>3. f \in Seq(Clusters)
  BY <1>1, <1>2
<1>4. RenewClusterForWrite(st, c) = [st EXCEPT !.curSeq = c, !.file = f]
  BY DEF RenewClusterForWrite
<1> HIDE DEF f
<1>. QED
  BY <1>3, <1>4 DEF NodeStates, f

LEMMA HeaderKeeps ==
    ASSUME StreamInv, NEW n \in Peers, AssembleHeader(n)
    PROVE  StreamInv'
<1> DEFINE c == node[n].block.cluster
           st == RenewClusterForWrite(node[n], c)
<1>0. Arrived(n, "HEADER")
  BY DEF AssembleHeader
<1>1. /\ node' = [node EXCEPT ![n] = st] /\ net' = Taken(n)
      /\ UNCHANGED <<server, sent, budget>>
  BY DEF AssembleHeader
<1>2. c \in Nat /\ node[n] \in NodeStates
  BY <1>0, ArrivedAt DEF NodeStates, Infos
<1>3. /\ st \in NodeStates /\ st.up = node[n].up /\ st.pending = node[n].pending
      /\ st.file = Append(node[n].file, Cluster(c, <<>>, 0))
  <2> HIDE DEF c
  <2>. QED
    BY <1>2, ClusterOpened
<1> HIDE DEF st, c
<1>4. TypeOK'
  BY <1>0, <1>1, <1>3, ArrivedAt DEF StreamInv, TypeOK
<1>5. /\ node'[n] = st /\ net'[n] = Tail(net[n]) /\ server'[n] = server[n]
      /\ \A x \in Peers : x # n => /\ node'[x] = node[x] /\ server'[x] = server[x]
                                   /\ net'[x] = net[x]
  BY <1>0, <1>1, ArrivedAt DEF StreamInv, TypeOK, Nodes
<1>6. PeerOK(st, server[n], Tail(net[n]))
  <2>1. PeerOK(node[n], server[n], net[n])
    BY DEF StreamInv
  <2>2. node[n].file = <<>>
    <3>1. Quiet(net[n], 1) => net[n][1].type \in {"BLOCK", "END"}
      BY <1>0, ArrivedAt DEF Quiet
    <3>. QED
      BY <1>0, <2>1, <3>1, ArrivedAt DEF PeerOK
  <2>3. /\ Opens(net[n]) /\ node[n].up /\ server[n] # Nobody /\ node[n].pending = 0
        /\ Counted(node[n].file, 0)
    BY <1>0, <2>1, <2>2, ArrivedAt DEF PeerOK, Counted
  <2>4. Quiet(Tail(net[n]), 1)
    BY <1>0, <2>3, ArrivedAt, TailQuiet
  <2>5. Counted(st.file, 0) /\ st.file # <<>>
    <3>1. node[n].file \in Seq(Clusters) /\ <<>> \in Seq(Data) /\ Len(<<>>) = 0
      BY <1>2 DEF NodeStates
    <3>2. Counted(Append(node[n].file, Cluster(c, <<>>, 0)), Len(<<>>))
      BY <1>2, <2>3, <3>1, OpenedCounted
    <3>3. Append(node[n].file, Cluster(c, <<>>, 0)) # <<>>
      BY <3>1
    <3>. QED
      BY <1>3, <3>1, <3>2, <3>3
  <2>. QED
    BY <1>3, <2>3, <2>4, <2>5 DEF PeerOK
<1>. QED
  BY <1>4, <1>5, <1>6, PeerStep

\* What AssembleBlock makes of the packet, before it sends.
Taking(st, m) == IF IsOldBlockSeq(st, m) THEN st ELSE Assembled(st, m)

LEMMA TakingBlock ==
    ASSUME StreamInv, NEW n \in Peers, Arrived(n, "BLOCK")
    PROVE  LET u == Taking(node[n], Head(net[n])) IN
           /\ Head(net[n]) \in Blocks /\ node[n].file # <<>>
           /\ u \in NodeStates /\ u.up = node[n].up /\ u.playing = node[n].playing
           /\ PeerOK(u, server[n], Tail(net[n]))
<1> DEFINE st == node[n]
           m == Head(net[n])
           w == Assembled(st, m)
<1>1. m \in Blocks
  BY ArrivedAt DEF Messages, Blocks
<1>2. PeerOK(st, server[n], net[n]) /\ st \in NodeStates /\ st.up /\ server[n] # Nobody
  BY ArrivedAt DEF StreamInv
<1>3. st.file # <<>>
  <2>1. Opens(net[n]) => net[n][1].type \in {"HEADER", "INITIAL_STATUS"}
    BY ArrivedAt, TailQuiet
  <2>. QED
    BY <1>2, <2>1, ArrivedAt DEF PeerOK
<1>4. Quiet(Tail(net[n]), 1)
  BY <1>2, <1>3, ArrivedAt, TailQuiet DEF PeerOK
<1>5. /\ w \in NodeStates /\ w.file = FileWith(st, m) /\ w.pending = Len(Bytes(m))
      /\ w.up = st.up /\ w.playing = st.playing
  <2> HIDE DEF st, m
  <2>1. w \in NodeStates
    BY <1>1, <1>2, <1>3, AssembledFields
  <2>2. w = [st EXCEPT
                  !.file = FileWith(st, m),
                  !.pending = Len(Bytes(m)),
                  !.prevSeq = IF st.block.cluster # m.cluster THEN st.curSeq ELSE @,
                  !.curSeq = IF st.block.cluster # m.cluster THEN m.cluster ELSE @,
                  !.first = IF st.isFirst THEN m.cluster ELSE @,
                  !.isFirst = FALSE,
                  !.latest = m.seq,
                  !.block = [cluster |-> m.cluster, seq |-> m.seq],
                  !.total = @ + 1]
    BY <1>1, <1>2, <1>3, AssembledFields, Zenon
  <2> HIDE DEF w
  <2>3. w.file = FileWith(st, m) /\ w.pending = Len(Bytes(m))
    BY <1>2, <2>2 DEF NodeStates
  <2>4. w.up = st.up
    BY <1>2, <2>2 DEF NodeStates
  <2>5. w.playing = st.playing
    BY <1>2, <2>2 DEF NodeStates
  <2>. QED
    BY <2>1, <2>3, <2>4, <2>5
<1>6. w.file # <<>> /\ Counted(w.file, w.pending) /\ w.pending \in {0, 1}
  BY <1>1, <1>2, <1>3, <1>5, AssembledCounted, BytesOf DEF PeerOK
<1> HIDE DEF w
<1>7. PeerOK(w, server[n], Tail(net[n]))
  BY <1>2, <1>4, <1>5, <1>6 DEF PeerOK
<1>8. PeerOK(st, server[n], Tail(net[n]))
  BY <1>2, <1>3, <1>4 DEF PeerOK
<1>9. CASE IsOldBlockSeq(st, m)
  <2>1. Taking(st, m) = st
    BY <1>9 DEF Taking
  <2>. QED
    BY <1>1, <1>2, <1>3, <1>8, <2>1
<1>10. CASE ~IsOldBlockSeq(st, m)
  <2>1. Taking(st, m) = w
    BY <1>10 DEF Taking, w
  <2>. QED
    BY <1>1, <1>2, <1>3, <1>5, <1>7, <2>1
<1>. QED
  BY <1>9, <1>10

LEMMA BlockKeeps ==
    ASSUME StreamInv, NEW n \in Peers, AssembleBlock(n)
    PROVE  StreamInv'
<1> DEFINE u == Taking(node[n], Head(net[n]))
<1>0. Arrived(n, "BLOCK")
  BY DEF AssembleBlock
<1>1. /\ IF u.playing THEN SendMulStream(n, u, Taken(n))
         ELSE /\ node' = [node EXCEPT ![n] = u]
              /\ net' = Taken(n)
              /\ UNCHANGED sent
      /\ UNCHANGED <<server, budget>>
  BY DEF AssembleBlock, Taking
<1>2. /\ u \in NodeStates /\ u.up = node[n].up
      /\ PeerOK(u, server[n], Tail(net[n]))
  BY <1>0, TakingBlock
<1> HIDE DEF u
<1>3. /\ Taken(n) \in [Peers -> Seq(Messages)] /\ Taken(n)[n] = Tail(net[n]) /\ n \in Nodes
      /\ \A x \in Peers : x # n => Taken(n)[x] = net[x]
  BY <1>0, ArrivedAt
<1>4. CASE u.playing
  <2>1. SendMulStream(n, u, Taken(n))
    BY <1>1, <1>4
  <2>2. \A p \in Peers : p # n => PeerOK(node[p], server[p], Taken(n)[p])
    BY <1>3 DEF StreamInv
  <2>. QED
    BY <1>1, <1>2, <1>3, <2>1, <2>2, SendKeeps DEF StreamInv
<1>5. CASE ~u.playing
  <2>1. node' = [node EXCEPT ![n] = u] /\ net' = Taken(n) /\ UNCHANGED <<sent, server, budget>>
    BY <1>1, <1>5
  <2>2. TypeOK'
    BY <1>2, <1>3, <2>1 DEF StreamInv, TypeOK
  <2>3. /\ node'[n] = u /\ net'[n] = Tail(net[n]) /\ server'[n] = server[n]
        /\ \A x \in Peers : x # n => /\ node'[x] = node[x] /\ server'[x] = server[x]
                                     /\ net'[x] = net[x]
    BY <1>3, <2>1 DEF StreamInv, TypeOK, Nodes
  <2>. QED
    BY <1>2, <2>2, <2>3, PeerStep
<1>. QED
  BY <1>4, <1>5

\* A peer that ends leaves no packet to read; if it ends itself, no block is
\* pending.
LEMMA ExitKeeps ==
    ASSUME StreamInv, NEW n \in Peers, NEW st \in NodeStates, Exits(n, st),
           budget' \in [{"loss", "dup", "reorder", "sigint"} -> Nat],
           Counted(st.file, st.pending), st.pending \in {0, 1},
           st.file # <<>> => node[n].file # <<>>,
           st.sigints = 0 => st.pending = 0
    PROVE  StreamInv'
<1> DEFINE w == [st EXCEPT !.up = FALSE]
<1>1. node' = [node EXCEPT ![n] = w] /\ net' = [net EXCEPT ![n] = <<>>]
      /\ UNCHANGED <<server, sent>>
  BY DEF Exits
<1>2. /\ w \in NodeStates /\ w.file = st.file /\ w.pending = st.pending
      /\ w.sigints = st.sigints /\ ~w.up
  BY DEF NodeStates
<1> HIDE DEF w
<1>3. TypeOK'
  <2>1. node' \in [Nodes -> NodeStates]
    BY <1>1, <1>2 DEF StreamInv, TypeOK
  <2>2. net' \in [Peers -> Seq(Messages)]
    <3>1. <<>> \in Seq(Messages)
      OBVIOUS
    <3>. QED
      BY <1>1, <3>1 DEF StreamInv, TypeOK
  <2>. QED
    BY <1>1, <2>1, <2>2 DEF StreamInv, TypeOK
<1>4. /\ node'[n] = w /\ net'[n] = <<>> /\ server'[n] = server[n]
      /\ \A x \in Peers : x # n => /\ node'[x] = node[x] /\ server'[x] = server[x]
                                   /\ net'[x] = net[x]
  BY <1>1 DEF StreamInv, TypeOK, Nodes
<1>5. server[n] = Nobody => st.file = <<>>
  BY DEF StreamInv, PeerOK
<1>6. PeerOK(w, server[n], <<>>)
  BY <1>2, <1>5 DEF PeerOK, Quiet
<1>. QED
  BY <1>3, <1>4, <1>6, PeerStep

\* END, and a first block without a Timecode, once the pending block is counted.
LEMMA CountedExit ==
    ASSUME StreamInv, NEW n \in Peers, Exits(n, UpdateClusterToWebM(node[n])),
           UNCHANGED budget
    PROVE  StreamInv'
<1> DEFINE u == UpdateClusterToWebM(node[n])
<1>2. /\ node[n] \in NodeStates /\ PeerOK(node[n], server[n], net[n])
      /\ node[n].file \in Seq(Clusters) /\ node[n].pending \in Nat
  BY DEF StreamInv, TypeOK, NodeStates, Nodes
<1>3. /\ u = [node[n] EXCEPT !.file = Counting(node[n].file, node[n].pending), !.pending = 0]
      /\ u \in NodeStates
  BY <1>2, UpdateFields
<1>4. u.file = Counting(node[n].file, node[n].pending) /\ u.pending = 0
  BY <1>2, <1>3 DEF NodeStates
<1> HIDE DEF u
<1>5. Counted(u.file, 0) /\ (u.file # <<>> <=> node[n].file # <<>>)
  BY <1>2, <1>4, ClosedCounted DEF PeerOK
<1>6. budget' \in [{"loss", "dup", "reorder", "sigint"} -> Nat]
  BY DEF StreamInv, TypeOK
<1>. QED
  BY <1>3, <1>4, <1>5, <1>6, ExitKeeps DEF u

LEMMA EndKeeps ==
    ASSUME StreamInv, NEW n \in Peers, AssembleEnd(n) \/ ChangeTimecode(n)
    PROVE  StreamInv'
  BY CountedExit DEF AssembleEnd, ChangeTimecode

\* SIGINT leaves the pending block as it is.
LEMMA InterruptKeeps ==
    ASSUME StreamInv, NEW n \in Peers, Interrupt(n)
    PROVE  StreamInv'
<1> DEFINE st == [node[n] EXCEPT !.sigints = 1]
<1>1. node[n] \in NodeStates /\ PeerOK(node[n], server[n], net[n])
  BY DEF StreamInv, TypeOK, Nodes
<1>2. /\ st \in NodeStates /\ st.file = node[n].file /\ st.pending = node[n].pending
      /\ st.sigints = 1
  BY <1>1 DEF NodeStates
<1>3. budget' \in [{"loss", "dup", "reorder", "sigint"} -> Nat]
  <2>1. budget["sigint"] > 0 /\ budget' = [budget EXCEPT !["sigint"] = @ - 1]
    BY DEF Interrupt, Spend
  <2>. QED
    BY <2>1 DEF StreamInv, TypeOK
<1>4. Exits(n, st)
  BY DEF Interrupt
<1> HIDE DEF st
<1>. QED
  BY <1>1, <1>2, <1>3, <1>4, ExitKeeps DEF PeerOK

LEMMA TwoBefore ==
    ASSUME NEW a \in Seq(Messages), NEW b \in Seq(Messages), Len(a) = 2
    PROVE  /\ a \o b \in Seq(Messages) /\ Len(a \o b) = 2 + Len(b)
           /\ \A i \in 1..2 : (a \o b)[i] = a[i]
           /\ \A i \in 3..(2 + Len(b)) : (a \o b)[i] = b[i - 2]
<1>1. Len(b) \in Nat
  OBVIOUS
<1> DEFINE w == a \o b
<1>2. /\ w \in Seq(Messages) /\ Len(w) = Len(a) + Len(b)
      /\ \A i \in 1..(Len(a) + Len(b)) : w[i] = IF i <= Len(a) THEN a[i] ELSE b[i - Len(a)]
  BY ConcatProperties, Zenon
<1> HIDE DEF w
<1>. QED
  BY <1>1, <1>2 DEF w

\* The network loses, repeats and swaps only blocks and END.
LEMMA NetworkKeeps ==
    ASSUME StreamInv, NEW n \in Peers, Lose(n) \/ Duplicate(n) \/ Reorder(n)
    PROVE  StreamInv'
<1> DEFINE q == net[n]
           r == net'[n]
<1>1. /\ q \in Seq(Messages) /\ IsBlock(n, 1) /\ Len(q) \in Nat /\ Len(q) >= 1
      /\ PeerOK(node[n], server[n], q)
  BY DEF StreamInv, TypeOK, Lose, Duplicate, Reorder, IsBlock
<1>2. UNCHANGED <<node, server, sent>>
  BY DEF Lose, Duplicate, Reorder
<1>3. budget' \in [{"loss", "dup", "reorder", "sigint"} -> Nat]
  <2>1. \E k \in {"loss", "dup", "reorder"} :
           budget[k] > 0 /\ budget' = [budget EXCEPT ![k] = @ - 1]
    BY DEF Lose, Duplicate, Reorder, Spend
  <2>. QED
    BY <2>1 DEF StreamInv, TypeOK
<1>4. node[n].up /\ server[n] # Nobody
  <2>1. q # <<>>
    BY <1>1
  <2>. QED
    BY <1>1, <2>1 DEF PeerOK
<1>5. ~Opens(q)
  BY <1>1 DEF IsBlock, Opens
<1>6. Quiet(q, 1)
  BY <1>1, <1>4, <1>5 DEF PeerOK
<1>7. /\ net' \in [Peers -> Seq(Messages)] /\ Quiet(r, 1)
      /\ \A x \in Peers : x # n => net'[x] = net[x]
  <2>1. CASE Lose(n)
    <3>1. net' = [net EXCEPT ![n] = Tail(q)]
      BY <2>1 DEF Lose, Taken
    <3>2. Tail(q) \in Seq(Messages) /\ Quiet(Tail(q), 1)
      BY <1>1, <1>6, TailQuiet
    <3>. QED
      BY <3>1, <3>2 DEF StreamInv, TypeOK
  <2>2. CASE Duplicate(n)
    <3>1. net' = [net EXCEPT ![n] = <<Head(q)>> \o q]
      BY <2>2 DEF Duplicate
    <3> DEFINE w == <<Head(q)>> \o q
    <3>2. /\ w \in Seq(Messages) /\ Len(w) = Len(q) + 1 /\ w[1] = q[1]
          /\ \A i \in 2..Len(w) : i - 1 \in 1..Len(q) /\ w[i] = q[i - 1]
      <4>1. Head(q) \in Messages /\ Head(q) = q[1]
        BY <1>1, TailQuiet
      <4> HIDE DEF q
      <4>2. <<Head(q)>> \in Seq(Messages) /\ Len(<<Head(q)>>) = 1
        BY <4>1
      <4>. QED
        BY <1>1, <4>1, <4>2
    <3> HIDE DEF w
    <3>3. Quiet(w, 1)
      BY <1>1, <1>6, <3>2 DEF Quiet
    <3>. QED
      BY <3>1, <3>2, <3>3 DEF StreamInv, TypeOK, w
  <2>3. CASE Reorder(n)
    <3>1. /\ net' = [net EXCEPT ![n] = <<q[2], q[1]>> \o SubSeq(q, 3, Len(q))]
          /\ Len(q) >= 2
      BY <2>3 DEF Reorder, IsBlock
    <3> DEFINE a == <<q[2], q[1]>>
               b == SubSeq(q, 3, Len(q))
               w == a \o b
    <3>2. a \in Seq(Messages) /\ Len(a) = 2 /\ a[1] = q[2] /\ a[2] = q[1]
      BY <1>1, <3>1
    <3>3. /\ b \in Seq(Messages) /\ Len(b) = Len(q) - 2
          /\ \A i \in 1..Len(b) : b[i] = q[i + 2] /\ i + 2 \in 1..Len(q)
      <4> HIDE DEF q
      <4>. QED
        BY <1>1, <3>1
    <3> HIDE DEF a, b
    <3>4. /\ w \in Seq(Messages) /\ Len(w) = Len(q)
          /\ \A i \in 1..2 : w[i] = a[i]
          /\ \A i \in 3..Len(w) : i - 2 \in 1..Len(b) /\ w[i] = b[i - 2]
      <4>1. Len(b) \in Nat
        BY <3>3
      <4>2. \A i \in 3..Len(q) : i - 2 \in 1..Len(b)
        BY <1>1, <3>3, <4>1
      <4>. QED
        BY <1>1, <3>1, <3>2, <3>3, <4>1, <4>2, TwoBefore
    <3> HIDE DEF w
    <3>5. \A i \in 1..Len(w) : \E k \in 1..Len(q) : w[i] = q[k]
      <4>1. w[1] = q[2] /\ w[2] = q[1] /\ 1 \in 1..Len(q) /\ 2 \in 1..Len(q)
        BY <1>1, <3>1, <3>2, <3>4
      <4>2. \A i \in 3..Len(w) : i \in 1..Len(q) /\ w[i] = q[i]
        BY <1>1, <3>3, <3>4
      <4>3. \A i \in 1..Len(w) : i = 1 \/ i = 2 \/ i \in 3..Len(w)
        BY <1>1, <3>4
      <4>. QED
        BY <4>1, <4>2, <4>3
    <3>6. Quiet(w, 1)
      BY <1>6, <3>5 DEF Quiet
    <3>. QED
      BY <3>1, <3>4, <3>6 DEF StreamInv, TypeOK, w, a, b
  <2>. QED
    BY <2>1, <2>2, <2>3
<1>8. TypeOK'
  BY <1>2, <1>3, <1>7 DEF StreamInv, TypeOK
<1> HIDE DEF q, r
<1>9. PeerOK(node[n], server[n], r)
  BY <1>1, <1>4, <1>5, <1>7 DEF PeerOK
<1>. QED
  BY <1>2, <1>7, <1>8, <1>9, PeerStep DEF r

LEMMA SignalCounted ==
    ASSUME NEW st \in NodeStates
    PROVE  [st EXCEPT !.sigints = @ + 1] \in NodeStates
  BY DEF NodeStates

LEMMA SignalKeeps ==
    ASSUME StreamInv, SignalHandler
    PROVE  StreamInv'
<1> DEFINE n == Origin
           st == [node[n] EXCEPT !.sigints = @ + 1]
<1>1. /\ node' = [node EXCEPT ![n] = st]
      /\ net' = [c \in Peers |->
                   IF /\ node[n].sigints = 0 /\ node[c].up
                      /\ server[c] = n
                   THEN Append(net[c], [type |-> "END"]) ELSE net[c]]
      /\ UNCHANGED <<server, sent>>
  BY DEF SignalHandler
<1>2. budget' \in [{"loss", "dup", "reorder", "sigint"} -> Nat]
  <2>1. budget["sigint"] > 0 /\ budget' = [budget EXCEPT !["sigint"] = @ - 1]
    BY DEF SignalHandler, Spend
  <2>. QED
    BY <2>1 DEF StreamInv, TypeOK
<1>3. node[n] \in NodeStates /\ Nobody \notin Nodes /\ n \in Nodes /\ n \notin Peers
  BY TreeAssumption DEF StreamInv, TypeOK, Nodes
<1>4. st \in NodeStates
  BY <1>3, SignalCounted
<1> HIDE DEF st
<1>5. [type |-> "END"] \in Messages /\ [type |-> "END"].type \in {"BLOCK", "END"}
  BY DEF Messages
<1>6. \A c \in Peers : /\ net[c] \in Seq(Messages) /\ net'[c] \in Seq(Messages)
                       /\ \/ net'[c] = net[c]
                          \/ /\ node[c].up /\ server[c] # Nobody
                             /\ net'[c] = Append(net[c], [type |-> "END"])
  BY <1>1, <1>3, <1>5, AppendQuiet DEF StreamInv, TypeOK
<1>7. TypeOK'
  BY <1>1, <1>2, <1>4, <1>6 DEF StreamInv, TypeOK
<1>8. ASSUME NEW c \in Peers
      PROVE  PeerOK(node'[c], server'[c], net'[c])
  <2>1. PeerOK(node[c], server[c], net[c]) /\ c \in Nodes /\ node[c] \in NodeStates
    BY DEF StreamInv, TypeOK, Nodes
  <2>2. PeerOK(node[c], server[c], net'[c])
    BY <1>5, <1>6, <2>1, PeerSent
  <2>3. node'[c] = node[c]
    BY <1>1, <1>3, <2>1 DEF StreamInv, TypeOK
  <2>. QED
    BY <1>1, <2>2, <2>3 DEF PeerOK
<1>. QED
  BY <1>7, <1>8 DEF StreamInv

LEMMA StreamKeeps ==
    ASSUME StreamInv, NEW n \in Nodes, Stream(n)
    PROVE  StreamInv'
<1>1. SendMulStream(n, node[n], net) /\ UNCHANGED <<server, budget>>
  BY DEF Stream
<1>2. node[n] \in NodeStates /\ net \in [Peers -> Seq(Messages)]
  BY DEF StreamInv, TypeOK
<1>. QED
  BY <1>1, <1>2, SendKeeps DEF StreamInv

LEMMA PlayKeeps ==
    ASSUME StreamInv, NEW n \in Peers, StartPlaying(n)
    PROVE  StreamInv'
<1> DEFINE st == [node[n] EXCEPT !.playing = TRUE]
<1>1. n \in Nodes /\ node[n] \in NodeStates
  BY DEF StreamInv, TypeOK, Nodes
<1>2. /\ st \in NodeStates /\ st.file = node[n].file /\ st.pending = node[n].pending
      /\ st.up = node[n].up /\ st.sigints = node[n].sigints
  BY <1>1 DEF NodeStates
<1>3. node' = [node EXCEPT ![n] = st] /\ UNCHANGED <<server, sent, net, budget>>
  BY DEF StartPlaying
<1> HIDE DEF st
<1>. QED
  BY <1>1, <1>2, <1>3, NodeKeeps

LEMMA RecordKeeps ==
    ASSUME StreamInv, Record
    PROVE  StreamInv'
<1> DEFINE f == Append(node[Origin].file, Recorded[Len(node[Origin].file) + 1])
           st == [node[Origin] EXCEPT !.file = f]
<1>1. Origin \in Nodes /\ Origin \notin Peers /\ node[Origin] \in NodeStates
  BY TreeAssumption DEF StreamInv, TypeOK, Nodes
<1>2. f \in Seq(Clusters)
  <2>1. node[Origin].file \in Seq(Clusters) /\ Len(node[Origin].file) < Len(Recorded)
    BY <1>1 DEF Record, NodeStates
  <2>2. Recorded[Len(node[Origin].file) + 1] \in Clusters
    BY <2>1, RecordedFile
  <2>. QED
    BY <2>1, <2>2
<1>3. node' = [node EXCEPT ![Origin] = st] /\ UNCHANGED <<server, sent, net, budget>>
  BY DEF Record
<1> HIDE DEF f
<1>4. st \in NodeStates
  BY <1>1, <1>2 DEF NodeStates
<1> HIDE DEF st
<1>. QED
  BY <1>1, <1>3, <1>4, NodeKeeps

LEMMA ReadKeeps ==
    ASSUME StreamInv, ReadThrough
    PROVE  StreamInv'
<1> DEFINE st == node[Origin]
<1>1. Origin \in Nodes /\ Origin \notin Peers /\ st \in NodeStates
  BY TreeAssumption DEF StreamInv, TypeOK, Nodes
<1>2. /\ st.prevSeq \in Nat /\ st.block \in Infos /\ NextSeq \in Nat /\ st.curSeq \in Nat
      /\ ShiftToPreBlock(st.block) \in Infos /\ RenewBlock(st.block) \in Infos
  <2>1. st.prevSeq \in Nat /\ st.block \in Infos /\ st.curSeq \in Nat
    BY <1>1 DEF NodeStates
  <2>. QED
    BY <2>1 DEF NextSeq, ShiftToPreBlock, RenewBlock, Infos
<1>3. CASE ReadCluster
  <2> DEFINE z == IF st.isFirst THEN 0 ELSE st.prevSeq + 1
             u == [st EXCEPT !.curSeq = z, !.isFirst = FALSE, !.reading = TRUE]
  <2>1. z \in Nat
    BY <1>2
  <2>2. node' = [node EXCEPT ![Origin] = u] /\ UNCHANGED <<server, sent, net, budget>>
    BY <1>3 DEF ReadCluster
  <2> HIDE DEF z
  <2>3. u \in NodeStates
    BY <1>1, <2>1 DEF NodeStates
  <2> HIDE DEF u
  <2>. QED
    BY <1>1, <2>2, <2>3, NodeKeeps
<1>4. CASE ReadBlock
  <2> DEFINE u == [st EXCEPT !.latest = NextSeq, !.block = ShiftToPreBlock(@)]
  <2>1. SendMulStream(Origin, u, net) /\ UNCHANGED <<server, budget>>
    BY <1>4 DEF ReadBlock
  <2>2. u \in NodeStates /\ u.up = st.up
    BY <1>1, <1>2 DEF NodeStates
  <2> HIDE DEF u
  <2>. QED
    BY <1>1, <2>1, <2>2, SendKeeps DEF StreamInv, TypeOK
<1>5. CASE ReadClusterEnd
  <2> DEFINE v == [st EXCEPT !.latest = NextSeq, !.block = RenewBlock(@), !.reading = FALSE]
             u == ShiftToPreCluster(v)
  <2>1. node' = [node EXCEPT ![Origin] = u] /\ UNCHANGED <<server, sent, net, budget>>
    BY <1>5 DEF ReadClusterEnd
  <2>2. v \in NodeStates
    BY <1>1, <1>2 DEF NodeStates
  <2> HIDE DEF v
  <2>3. u \in NodeStates
    BY <2>2 DEF NodeStates, ShiftToPreCluster
  <2> HIDE DEF u
  <2>. QED
    BY <1>1, <2>1, <2>3, NodeKeeps
<1>. QED
  BY <1>3, <1>4, <1>5 DEF ReadThrough

LEMMA StreamNext == StreamInv /\ [Next]_vars => StreamInv'
<1> SUFFICES ASSUME StreamInv, [Next]_vars PROVE StreamInv'
  OBVIOUS
<1>1. CASE Next
  BY <1>1, RecordKeeps, ReadKeeps, StreamKeeps, SignalKeeps, JoinKeeps, ReconnectKeeps,
     InitialStatusKeeps, HeaderKeeps, BlockKeeps, EndKeeps, InterruptKeeps, PlayKeeps,
     NetworkKeeps
     DEF Next, Receive
<1>2. CASE UNCHANGED vars
  BY <1>2 DEF vars, StreamInv, TypeOK
<1>. QED
  BY <1>1, <1>2

\* TypeOK: whatever fails, a handler finds the fields it reads, and no block is
\* assembled before the header has opened the file.
THEOREM TypeCorrect == Spec => []TypeOK
<1>1. StreamInv => TypeOK
  BY DEF StreamInv
<1>. QED
  BY <1>1, StreamInit, StreamNext, PTL DEF Spec

\* HeadersCount: whatever is lost, repeated or overtaken, the header of a cluster
\* counts all its blocks once another has begun or the peer has ended itself,
\* and all but the last one at most before that, SIGINT or not.
THEOREM HeadersAreCounted == Spec => []HeadersCount
<1>1. StreamInv => HeadersCount
  <2> SUFFICES ASSUME StreamInv, NEW n \in Peers, NEW j \in DOMAIN node[n].file
               PROVE  LET uncounted == Len(node[n].file[j].data) - node[n].file[j].size
                          closed == \/ j < Len(node[n].file)
                                    \/ ~node[n].up /\ node[n].sigints = 0
                      IN  uncounted = 0 \/ (uncounted = 1 /\ ~closed)
    BY DEF HeadersCount
  <2>1. PeerOK(node[n], server[n], net[n]) /\ node[n].file \in Seq(Clusters)
    BY DEF StreamInv, TypeOK, NodeStates, Nodes
  <2>2. /\ j \in 1..Len(node[n].file) /\ Len(node[n].file) \in Nat
        /\ node[n].file[j].size \in Nat
    <3>1. j \in 1..Len(node[n].file) /\ node[n].file[j] \in Clusters
      BY <2>1
    <3>. QED
      BY <2>1, <3>1 DEF Clusters
  <2>3. /\ Len(node[n].file[j].data)
             = node[n].file[j].size
               + (IF j = Len(node[n].file) THEN node[n].pending ELSE 0)
        /\ node[n].pending \in {0, 1}
        /\ ~node[n].up /\ node[n].sigints = 0 => node[n].pending = 0
    BY <2>1, <2>2 DEF PeerOK, Counted
  <2>. QED
    BY <2>2, <2>3
<1>. QED
  BY <1>1, StreamInit, StreamNext, PTL DEF Spec

-----------------------------------------------------------------------------
(* When nothing fails: every block is sent once and in turn, from a file    *)
(* that holds it.                                                           *)

\* No fault, memory that malloc returns is zero, the recorder is a cluster
\* ahead, and a full cache is more than a cluster.
Steady ==
    /\ Faults = 0 /\ Fresh = {0} /\ Lead > 0
    /\ \A k \in 1..Len(Sizes) : Sizes[k] < DefaultCache

\* A block <<c, s>> that the recorder writes, and the block a node is at.
IsRecorded(c, s) == c \in Nat /\ c < Len(Sizes) /\ s \in 1..Sizes[c + 1]
At(m) == [cluster |-> m.cluster, seq |-> m.seq]

\* The block after which the next one comes: the last of a cluster is before
\* the first of the next.
Upcoming(info) ==
    IF info.cluster < Len(Sizes) /\ info.seq = Sizes[info.cluster + 1]
    THEN RenewBlock(info) ELSE info

\* The packets of q from the k-th on are the blocks behind info, one after
\* the other, and the last one is where the sender is.
InTurn(q, k, info, last) ==
    /\ \A i \in k..Len(q) :
          /\ q[i].type = "BLOCK" /\ IsRecorded(q[i].cluster, q[i].seq)
          /\ q[i].data = <<q[i].cluster, q[i].seq>>
          /\ [cluster |-> q[i].cluster, seq |-> q[i].seq - 1] =
               Upcoming(IF i = k THEN info ELSE At(q[i - 1]))
    /\ last = Upcoming(IF Len(q) < k THEN info ELSE At(q[Len(q)]))

\* The file of the origin is what has been recorded, and it reads no further.
OriginTrue(st) ==
    /\ st.up /\ ~st.stuck /\ st.first = 0
    /\ Len(st.file) \in 1..Len(Sizes)
    /\ \A j \in 1..Len(st.file) : st.file[j] = Recorded[j]
    /\ st.prevSeq < Len(st.file)
    /\ st.reading => st.curSeq < Len(st.file)

\* Consecutive clusters from number `base` on, whole but for the last, which
\* holds the first s blocks.
Section(file, base, s) ==
    \A j \in 1..Len(file) :
        /\ file[j].seq = base + j - 1 /\ file[j].seq < Len(Sizes)
        /\ Len(file[j].data) = IF j = Len(file) THEN s ELSE Sizes[file[j].seq + 1]
        /\ \A i \in 1..Len(file[j].data) : file[j].data[i] = <<file[j].seq, i>>

\* A file that has been opened is written up to the block the peer is at.
FileTrue(st) ==
    LET L == Len(st.file) base == st.file[1].seq IN
    /\ Section(st.file, base, st.block.seq)
    /\ st.block.cluster = st.curSeq /\ st.curSeq = base + L - 1
    /\ st.block.seq <= Sizes[st.curSeq + 1] /\ (L > 1 => st.block.seq > 0)
    /\ st.prevSeq = IF L = 1 THEN 0 ELSE st.curSeq - 1
    /\ st.isFirst <=> L = 1 /\ st.block.seq = 0
    /\ IF st.isFirst THEN st.latest = 0
       ELSE st.first = base /\ st.latest = st.block.seq
    /\ L = 1 => st.total = st.block.seq

\* A peer whose file has not been opened has not taken anything.
Empties(st) ==
    /\ st.isFirst /\ st.prevSeq = 0 /\ st.latest = 0 /\ st.total = 0

\* A peer, the packets to it, and where its server is.
PeerTrue(st, srv, q, last) ==
    /\ st.up /\ ~st.stuck
    /\ IF st.file = <<>> THEN Empties(st) ELSE FileTrue(st)
    /\ srv # Nobody =>
         IF st.file # <<>> THEN InTurn(q, 1, st.block, last)
         ELSE IF q[1].type = "HEADER"
         THEN /\ st.block.cluster < Len(Sizes) /\ st.block.seq = 0
              /\ InTurn(q, 2, st.block, last)
         ELSE /\ q[1].cluster < Len(Sizes)
              /\ InTurn(q, 3, [cluster |-> q[1].cluster, seq |-> 0], last)

\* A peer that serves another has a complete cluster and begins no later than
\* what it is to send.
ServesFrom(st, last) == Len(st.file) >= 2 /\ last.cluster >= st.file[1].seq

Undisturbed ==
    /\ budget = Budget /\ OriginTrue(node[Origin])
    /\ \A c \in Peers : PeerTrue(node[c], server[c], net[c], sent[c])
    /\ \A c \in Peers : server[c] \in Peers => ServesFrom(node[server[c]], sent[c])

SteadyInv == StreamInv /\ Undisturbed

\* A place to send the next block from.
Legal(info) ==
    /\ info \in Infos
    /\ info.cluster < Len(Sizes) => info.seq < Sizes[info.cluster + 1]

LEMMA SizesOf ==
    /\ Len(Sizes) \in Nat
    /\ \A k \in 1..Len(Sizes) : Sizes[k] \in Nat /\ Sizes[k] > 0
    /\ \A c \in Nat : c < Len(Sizes) => /\ c + 1 \in 1..Len(Sizes)
                                        /\ Sizes[c + 1] \in Nat /\ Sizes[c + 1] > 0
<1>1. Len(Sizes) \in Nat /\ \A k \in 1..Len(Sizes) : Sizes[k] \in Nat \ {0}
  BY SizesAssumption
<1>2. \A c \in Nat : c < Len(Sizes) => c + 1 \in 1..Len(Sizes)
  BY <1>1
<1>. QED
  BY <1>1, <1>2

LEMMA UpcomingLegal ==
    ASSUME NEW info \in Infos,
           info.cluster < Len(Sizes) => info.seq <= Sizes[info.cluster + 1]
    PROVE  Legal(Upcoming(info)) /\ (Legal(info) => Upcoming(info) = info)
<1>1. info.cluster \in Nat /\ info.seq \in Nat
  BY DEF Infos
<1>2. info.cluster < Len(Sizes) => Sizes[info.cluster + 1] \in Nat
  BY <1>1, SizesOf
<1>3. CASE info.cluster < Len(Sizes) /\ info.seq = Sizes[info.cluster + 1]
  <2>1. Upcoming(info) = RenewBlock(info)
    BY <1>3 DEF Upcoming
  <2>2. RenewBlock(info) \in Infos /\ RenewBlock(info).seq = 0
    BY <1>1 DEF RenewBlock, Infos
  <2>3. RenewBlock(info).cluster \in Nat
    BY <2>2 DEF Infos
  <2>4. Legal(RenewBlock(info))
    BY <2>2, <2>3, SizesOf DEF Legal
  <2>. QED
    BY <1>2, <1>3, <2>1, <2>4 DEF Legal
<1>4. CASE ~(info.cluster < Len(Sizes) /\ info.seq = Sizes[info.cluster + 1])
  <2>1. Upcoming(info) = info
    BY <1>4 DEF Upcoming
  <2>. QED
    BY <1>1, <1>2, <1>4, <2>1 DEF Legal
<1>. QED
  BY <1>3, <1>4

\* One of the blocks that are sent in turn.
IsBlockAt(m, info) ==
    /\ m \in Blocks /\ m.type = "BLOCK" /\ IsRecorded(m.cluster, m.seq)
    /\ m.data = <<m.cluster, m.seq>>
    /\ [cluster |-> m.cluster, seq |-> m.seq - 1] = info

\* At m is a place to go on from.
LEMMA BlockAt ==
    ASSUME NEW m \in Blocks, IsRecorded(m.cluster, m.seq)
    PROVE  At(m) \in Infos /\ Legal(Upcoming(At(m)))
<1>1. At(m) \in Infos /\ At(m).cluster = m.cluster /\ At(m).seq = m.seq
  BY DEF At, Infos, Blocks
<1>2. m.cluster < Len(Sizes) => m.seq <= Sizes[m.cluster + 1]
  BY SizesOf DEF IsRecorded
<1>. QED
  BY <1>1, <1>2, UpcomingLegal

LEMMA InTurnAppend ==
    ASSUME NEW q \in Seq(Messages), NEW k \in 1..3, NEW info, NEW last, NEW m,
           k <= Len(q) + 1, InTurn(q, k, info, last), IsBlockAt(m, last)
    PROVE  InTurn(Append(q, m), k, info, Upcoming(At(m)))
<1> DEFINE r == Append(q, m)
           L == Len(q)
<1>1. m \in Messages
  BY DEF IsBlockAt, Messages
<1>2. /\ L \in Nat /\ Len(r) = L + 1 /\ r[L + 1] = m /\ \A i \in 1..L : r[i] = q[i]
  BY <1>1
<1> HIDE DEF r
<1>3. ASSUME NEW i \in k..Len(r)
      PROVE  /\ r[i].type = "BLOCK" /\ IsRecorded(r[i].cluster, r[i].seq)
             /\ r[i].data = <<r[i].cluster, r[i].seq>>
             /\ [cluster |-> r[i].cluster, seq |-> r[i].seq - 1] =
                  Upcoming(IF i = k THEN info ELSE At(r[i - 1]))
  <2>1. CASE i = L + 1
    <3>1. r[i] = m
      BY <1>2, <2>1
    <3>2. last = Upcoming(IF i = k THEN info ELSE At(r[i - 1]))
      <4>1. CASE i = k
        <5>1. Len(q) < k
          BY <1>2, <2>1, <4>1
        <5>. QED
          BY <4>1, <5>1 DEF InTurn
      <4>2. CASE i # k
        <5>1. ~(L < k) /\ i - 1 = L /\ L \in 1..L
          BY <1>2, <2>1, <4>2
        <5>2. r[i - 1] = q[L]
          BY <1>2, <5>1
        <5>. QED
          BY <4>2, <5>1, <5>2 DEF InTurn
      <4>. QED
        BY <4>1, <4>2
    <3>. QED
      BY <3>1, <3>2 DEF IsBlockAt
  <2>2. CASE i # L + 1
    <3>1. i \in k..L /\ i \in 1..L /\ r[i] = q[i]
      BY <1>2, <2>2
    <3>2. i # k => i - 1 \in 1..L /\ r[i - 1] = q[i - 1]
      BY <1>2, <3>1
    <3>3. /\ q[i].type = "BLOCK" /\ IsRecorded(q[i].cluster, q[i].seq)
          /\ q[i].data = <<q[i].cluster, q[i].seq>>
          /\ [cluster |-> q[i].cluster, seq |-> q[i].seq - 1] =
               Upcoming(IF i = k THEN info ELSE At(q[i - 1]))
      BY <3>1 DEF InTurn
    <3>. QED
      BY <3>1, <3>2, <3>3
  <2>. QED
    BY <2>1, <2>2
<1>4. Upcoming(At(m)) = Upcoming(IF Len(r) < k THEN info ELSE At(r[Len(r)]))
  BY <1>2
<1>. QED
  BY <1>3, <1>4 DEF InTurn, r

\* A packet that is no block is read, and then the first block.
LEMMA InTurnTail ==
    ASSUME NEW q \in Seq(Messages), q # <<>>, NEW k \in 2..3, NEW info, NEW last,
           InTurn(q, k, info, last), k <= Len(q) + 1
    PROVE  InTurn(Tail(q), k - 1, info, last)
<1> DEFINE r == Tail(q)
<1>1. Len(q) \in Nat /\ Len(q) > 0 /\ Len(r) = Len(q) - 1 /\ \A i \in 1..Len(r) : r[i] = q[i + 1]
  BY TailQuiet
<1> HIDE DEF r
<1>2. ASSUME NEW i \in (k - 1)..Len(r)
      PROVE  /\ r[i].type = "BLOCK" /\ IsRecorded(r[i].cluster, r[i].seq)
             /\ r[i].data = <<r[i].cluster, r[i].seq>>
             /\ [cluster |-> r[i].cluster, seq |-> r[i].seq - 1] =
                  Upcoming(IF i = k - 1 THEN info ELSE At(r[i - 1]))
  <2>1. i + 1 \in k..Len(q) /\ r[i] = q[i + 1] /\ (i = k - 1 <=> i + 1 = k)
    BY <1>1
  <2>2. i # k - 1 => r[i - 1] = q[(i + 1) - 1]
    BY <1>1
  <2>3. /\ q[i + 1].type = "BLOCK" /\ IsRecorded(q[i + 1].cluster, q[i + 1].seq)
        /\ q[i + 1].data = <<q[i + 1].cluster, q[i + 1].seq>>
        /\ [cluster |-> q[i + 1].cluster, seq |-> q[i + 1].seq - 1] =
             Upcoming(IF i + 1 = k THEN info ELSE At(q[(i + 1) - 1]))
    BY <2>1 DEF InTurn
  <2>. QED
    BY <2>1, <2>2, <2>3
<1>3. last = Upcoming(IF Len(r) < k - 1 THEN info ELSE At(r[Len(r)]))
  <2>1. Len(r) < k - 1 <=> Len(q) < k
    BY <1>1
  <2>2. ~(Len(r) < k - 1) => r[Len(r)] = q[Len(q)]
    BY <1>1
  <2>. QED
    BY <2>1, <2>2 DEF InTurn
<1>. QED
  BY <1>2, <1>3 DEF InTurn, r

LEMMA InTurnTaken ==
    ASSUME NEW q \in Seq(Messages), q # <<>>, NEW info, NEW last,
           InTurn(q, 1, info, last)
    PROVE  IsBlockAt(q[1], Upcoming(info)) /\ InTurn(Tail(q), 1, At(q[1]), last)
<1> DEFINE r == Tail(q)
<1>1. /\ Len(q) \in Nat /\ Len(q) > 0 /\ Len(r) = Len(q) - 1 /\ q[1] \in Messages
      /\ \A i \in 1..Len(r) : r[i] = q[i + 1]
  BY TailQuiet
<1> HIDE DEF r
<1>2. IsBlockAt(q[1], Upcoming(info))
  <2>1. 1 \in 1..Len(q)
    BY <1>1
  <2>2. q[1].type = "BLOCK" => q[1] \in Blocks
    BY <1>1 DEF Messages, Blocks
  <2>. QED
    BY <2>1, <2>2 DEF InTurn, IsBlockAt
<1>3. ASSUME NEW i \in 1..Len(r)
      PROVE  /\ r[i].type = "BLOCK" /\ IsRecorded(r[i].cluster, r[i].seq)
             /\ r[i].data = <<r[i].cluster, r[i].seq>>
             /\ [cluster |-> r[i].cluster, seq |-> r[i].seq - 1] =
                  Upcoming(IF i = 1 THEN At(q[1]) ELSE At(r[i - 1]))
  <2>1. i + 1 \in 1..Len(q) /\ r[i] = q[i + 1] /\ i + 1 # 1
    BY <1>1
  <2>2. (IF i = 1 THEN At(q[1]) ELSE At(r[i - 1])) = At(q[(i + 1) - 1])
    BY <1>1
  <2>3. /\ q[i + 1].type = "BLOCK" /\ IsRecorded(q[i + 1].cluster, q[i + 1].seq)
        /\ q[i + 1].data = <<q[i + 1].cluster, q[i + 1].seq>>
        /\ [cluster |-> q[i + 1].cluster, seq |-> q[i + 1].seq - 1] =
             Upcoming(IF i + 1 = 1 THEN info ELSE At(q[(i + 1) - 1]))
    BY <2>1 DEF InTurn
  <2>. QED
    BY <2>1, <2>2, <2>3
<1>4. last = Upcoming(IF Len(r) < 1 THEN At(q[1]) ELSE At(r[Len(r)]))
  <2>1. last = Upcoming(At(q[Len(q)]))
    BY <1>1 DEF InTurn
  <2>2. IF Len(r) < 1 THEN Len(q) = 1 ELSE r[Len(r)] = q[Len(q)]
    BY <1>1
  <2>. QED
    BY <2>1, <2>2
<1>. QED
  BY <1>2, <1>3, <1>4 DEF InTurn, r

\* The cluster with a number, as the recorder writes it.
LEMMA RecordedCluster ==
    ASSUME NEW c \in Nat, c < Len(Sizes)
    PROVE  /\ Recorded[c + 1].seq = c /\ Len(Recorded[c + 1].data) = Sizes[c + 1]
           /\ \A i \in 1..Sizes[c + 1] : Recorded[c + 1].data[i] = <<c, i>>
<1>1. c + 1 \in 1..Len(Sizes) /\ (c + 1) - 1 = c /\ Sizes[c + 1] \in Nat
  BY SizesOf
<1> DEFINE d == [s \in 1..Sizes[c + 1] |-> <<c, s>>]
<1>2. Recorded[c + 1] = Cluster(c, d, Sizes[c + 1])
  <2>1. Recorded[c + 1] = Cluster((c + 1) - 1, [s \in 1..Sizes[c + 1] |-> <<(c + 1) - 1, s>>],
                                  Sizes[c + 1])
    BY <1>1, Zenon DEF Recorded
  <2>. QED
    BY <1>1, <2>1
<1>3. Len(d) = Sizes[c + 1] /\ \A i \in 1..Sizes[c + 1] : d[i] = <<c, i>>
  BY <1>1
<1> HIDE DEF d
<1>4. Recorded[c + 1].seq = c /\ Recorded[c + 1].data = d
  BY <1>2 DEF Cluster
<1>. QED
  BY <1>3, <1>4

\* What a sender sends when it is due to: the next block, from its file.
LEMMA DueBlock ==
    ASSUME NEW n \in Nodes, NEW st \in NodeStates, NEW info, Legal(info),
           IsOldBlockSeq(st, info),
           \/ n = Origin /\ OriginTrue(st)
           \/ n # Origin /\ FileTrue(st) /\ ServesFrom(st, info)
    PROVE  /\ Reachable(st, info.cluster)
           /\ IsBlockAt(CacheBlock(n, st, info), info)
           /\ After(n, st, info) = Upcoming(At(CacheBlock(n, st, info)))
<1> DEFINE c == info.cluster
           s == info.seq + 1
           j == c - st.first + 1
           m == CacheBlock(n, st, info)
<1>1. /\ c \in Nat /\ info.seq \in Nat /\ st.first \in Nat /\ st.prevSeq \in Nat
      /\ st.file \in Seq(Clusters) /\ Len(st.file) \in Nat /\ c <= st.prevSeq
      /\ info = [cluster |-> c, seq |-> info.seq] /\ st.curSeq \in Nat
  BY DEF Legal, Infos, NodeStates, IsOldBlockSeq
<1>2. /\ c < Len(Sizes) /\ c >= st.first /\ j \in 1..Len(st.file)
      /\ Len(st.file[j].data) = Sizes[c + 1]
      /\ \A i \in 1..Sizes[c + 1] : st.file[j].data[i] = <<c, i>>
      /\ Followed(n, st, j)
  <2>1. CASE n = Origin /\ OriginTrue(st)
    <3>1. /\ st.first = 0 /\ j = c + 1 /\ j \in 1..Len(st.file) /\ c < Len(Sizes)
          /\ st.file[j] = Recorded[j]
      BY <1>1, <2>1, SizesOf DEF OriginTrue
    <3>2. Followed(n, st, j)
      BY <2>1 DEF Followed
    <3>3. /\ Len(Recorded[c + 1].data) = Sizes[c + 1]
          /\ \A i \in 1..Sizes[c + 1] : Recorded[c + 1].data[i] = <<c, i>>
      BY <1>1, <3>1, RecordedCluster
    <3>4. c >= st.first
      BY <1>1, <3>1
    <3>. QED
      BY <3>1, <3>2, <3>3, <3>4
  <2>2. CASE n # Origin /\ FileTrue(st) /\ ServesFrom(st, info)
    <3> DEFINE L == Len(st.file)
               base == st.file[1].seq
    <3>1. /\ L >= 2 /\ c >= base /\ ~st.isFirst /\ st.first = base /\ base \in Nat
          /\ st.prevSeq = st.curSeq - 1 /\ st.curSeq = base + L - 1
      <4>1. L >= 2 /\ c >= base
        BY <2>2 DEF ServesFrom
      <4>2. base \in Nat
        <5>1. st.file[1] \in Clusters
          BY <1>1, <4>1
        <5>. QED
          BY <5>1 DEF Clusters
      <4>3. L # 1
        <5>1. L \in Nat /\ L >= 2
          BY <1>1, <4>1
        <5> HIDE DEF L
        <5>. QED
          BY <5>1
      <4>. QED
        BY <2>2, <4>1, <4>2, <4>3 DEF FileTrue
    <3>2. j \in 1..L /\ j < L /\ j = c - base + 1
      <4>1. /\ L \in Nat /\ c \in Nat /\ base \in Nat /\ st.first = base /\ c >= base
            /\ c <= base + L - 2
        BY <1>1, <3>1
      <4>2. j = c - base + 1
        BY <4>1
      <4> HIDE DEF L, base, j, c
      <4>. QED
        BY <4>1, <4>2
    <3>3. /\ st.file[j].seq = base + j - 1 /\ st.file[j].seq < Len(Sizes)
          /\ Len(st.file[j].data) = Sizes[st.file[j].seq + 1]
          /\ \A i \in 1..Len(st.file[j].data) :
                st.file[j].data[i] = <<st.file[j].seq, i>>
      <4>1. Section(st.file, base, st.block.seq)
        BY <2>2 DEF FileTrue
      <4> HIDE DEF j, base
      <4>. QED
        BY <3>2, <4>1 DEF Section
    <3>4. st.file[j].seq = c
      <4> HIDE DEF base
      <4>. QED
        BY <1>1, <3>1, <3>2, <3>3
    <3>5. Followed(n, st, j)
      <4>1. L \in (j + 1)..L /\ L \in 1..L /\ L > 1
        <5>1. L \in Nat /\ L >= 2 /\ j \in 1..L /\ j < L
          BY <1>1, <3>1, <3>2
        <5> HIDE DEF L, j
        <5>. QED
          BY <5>1
      <4>2. Len(st.file[L].data) = st.block.seq /\ st.block.seq > 0
        BY <2>2, <4>1 DEF FileTrue, Section
      <4>3. st.file[L].data # <<>>
        <5>1. Len(<<>>) = 0
          OBVIOUS
        <5> HIDE DEF L
        <5>. QED
          BY <4>2, <5>1
      <4> HIDE DEF L, j
      <4>. QED
        BY <4>1, <4>3 DEF Followed, L
    <3>. QED
      BY <1>1, <3>1, <3>2, <3>3, <3>4, <3>5
  <2>. QED
    BY <2>1, <2>2
<1>3. Sizes[c + 1] \in Nat /\ s \in 1..Sizes[c + 1]
  BY <1>1, <1>2, SizesOf DEF Legal
<1> DEFINE next == [data |-> st.file[j].data[s], end |-> s = Sizes[c + 1]]
<1>4. NextInFile(n, st, info).data = <<c, s>> /\ (NextInFile(n, st, info).end <=> s = Sizes[c + 1])
  <2> DEFINE last == Len(st.file[j].data)
  <2>1. /\ j <= Len(st.file) /\ last = Sizes[c + 1] /\ s <= last
        /\ (s < last <=> s # last) /\ (s >= last <=> s = last)
    BY <1>1, <1>2, <1>3
  <2>2. CASE s # last
    <3>1. NextInFile(n, st, info) = [data |-> st.file[j].data[s], end |-> FALSE]
      BY <2>1, <2>2 DEF NextInFile
    <3>. QED
      BY <1>2, <1>3, <2>1, <2>2, <3>1
  <2>3. CASE s = last
    <3>1. NextInFile(n, st, info) = [data |-> st.file[j].data[s], end |-> TRUE]
      BY <1>2, <2>1, <2>3 DEF NextInFile
    <3>. QED
      BY <1>2, <1>3, <2>1, <2>3, <3>1
  <2>. QED
    BY <2>2, <2>3
<1>5. /\ m = [type |-> "BLOCK", cluster |-> c, seq |-> s, data |-> <<c, s>>]
      /\ m.cluster = c /\ m.seq = s /\ m.data = <<c, s>> /\ m.type = "BLOCK"
  BY <1>4 DEF CacheBlock
<1>6. m \in Blocks
  BY <1>1, <1>3, <1>5 DEF Blocks, Data
<1> HIDE DEF m
<1>7. IsBlockAt(m, info)
  BY <1>1, <1>2, <1>3, <1>5, <1>6 DEF IsBlockAt, IsRecorded
<1>8. After(n, st, info) = Upcoming(At(m))
  <2>1. At(m) = [cluster |-> c, seq |-> s]
    BY <1>5 DEF At
  <2>2. ShiftToPreBlock(info) = [cluster |-> c, seq |-> s]
    BY <1>1 DEF ShiftToPreBlock
  <2>3. CASE s = Sizes[c + 1]
    <3>1. After(n, st, info) = [cluster |-> c + 1, seq |-> 0]
      BY <1>4, <2>3 DEF After, RenewBlock
    <3>. QED
      BY <1>2, <2>1, <2>3, <3>1 DEF Upcoming, RenewBlock
  <2>4. CASE s # Sizes[c + 1]
    <3>1. After(n, st, info) = [cluster |-> c, seq |-> s]
      BY <1>4, <2>2, <2>4 DEF After
    <3>. QED
      BY <2>1, <2>4, <3>1 DEF Upcoming
  <2>. QED
    BY <2>3, <2>4
<1>. QED
  BY <1>2, <1>7, <1>8 DEF Reachable, m

LEMMA DataJoined ==
    ASSUME NEW a \in Seq(Data), NEW b \in Seq(Data)
    PROVE  /\ Len(a \o b) = Len(a) + Len(b)
           /\ \A i \in 1..(Len(a) + Len(b)) :
                (a \o b)[i] = IF i <= Len(a) THEN a[i] ELSE b[i - Len(a)]
BY ConcatProperties, Zenon

\* A file of consecutive clusters is longer by the next block: in the cluster
\* it is written in, or in a new one.
LEMMA SectionGrows ==
    ASSUME NEW f \in Seq(Clusters), NEW g \in Seq(Clusters), NEW base \in Nat,
           NEW s \in Nat, f # <<>>, Section(f, base, s),
           Len(g) = Len(f),
           \A j \in 1..Len(f) :
              /\ g[j].seq = f[j].seq
              /\ g[j].data = IF j = Len(f) THEN f[j].data \o <<<<f[j].seq, s + 1>>>>
                             ELSE f[j].data
    PROVE  Section(g, base, s + 1)
<1> SUFFICES ASSUME NEW j \in 1..Len(g)
             PROVE  /\ g[j].seq = base + j - 1 /\ g[j].seq < Len(Sizes)
                    /\ Len(g[j].data) = IF j = Len(g) THEN s + 1 ELSE Sizes[g[j].seq + 1]
                    /\ \A i \in 1..Len(g[j].data) : g[j].data[i] = <<g[j].seq, i>>
  BY DEF Section
<1>1. /\ f[j].seq = base + j - 1 /\ f[j].seq < Len(Sizes)
      /\ Len(f[j].data) = IF j = Len(f) THEN s ELSE Sizes[f[j].seq + 1]
      /\ \A i \in 1..Len(f[j].data) : f[j].data[i] = <<f[j].seq, i>>
  BY DEF Section
<1>2. f[j] \in Clusters /\ f[j].data \in Seq(Data) /\ f[j].seq \in Nat
  <2>1. f[j] \in Clusters
    OBVIOUS
  <2>. QED
    BY <2>1 DEF Clusters
<1>3. CASE j # Len(f)
  BY <1>1, <1>3
<1>4. CASE j = Len(f)
  <2> DEFINE d == f[j].data
             x == <<f[j].seq, s + 1>>
             e == d \o <<x>>
  <2>1. x \in Data
    BY <1>2 DEF Data
  <2>2. d \in Seq(Data) /\ Len(d) = s /\ \A i \in 1..s : d[i] = <<f[j].seq, i>>
    BY <1>1, <1>2, <1>4
  <2> HIDE DEF d, x
  <2>3. Len(e) = s + 1 /\ e[s + 1] = x /\ \A i \in 1..s : e[i] = d[i]
    <3> DEFINE t == <<x>>
    <3>1. t \in Seq(Data) /\ Len(t) = 1 /\ t[1] = x
      BY <2>1
    <3> HIDE DEF t
    <3>2. /\ Len(d \o t) = Len(d) + Len(t)
          /\ \A i \in 1..(Len(d) + Len(t)) :
               (d \o t)[i] = IF i <= Len(d) THEN d[i] ELSE t[i - Len(d)]
      <4>1. d \in Seq(Data) /\ t \in Seq(Data)
        BY <2>2, <3>1
      <4>. QED
        BY <4>1, DataJoined, Zenon
    <3>3. e = d \o t
      BY DEF t
    <3> HIDE DEF e
    <3>4. /\ Len(e) = s + 1
          /\ \A i \in 1..(s + 1) : e[i] = IF i <= s THEN d[i] ELSE t[i - s]
      BY <2>2, <3>1, <3>2, <3>3
    <3>5. \A i \in 1..s : i \in 1..(s + 1) /\ i <= s
      OBVIOUS
    <3>6. s + 1 \in 1..(s + 1) /\ ~(s + 1 <= s) /\ (s + 1) - s = 1
      OBVIOUS
    <3>7. e[s + 1] = x
      BY <3>1, <3>4, <3>6
    <3>. QED
      BY <3>4, <3>5, <3>7
  <2>4. \A i \in 1..(s + 1) : e[i] = <<f[j].seq, i>>
    BY <2>2, <2>3 DEF x
  <2>5. g[j].data = e /\ g[j].seq = f[j].seq
    BY <1>4 DEF d, x
  <2> HIDE DEF e
  <2>. QED
    BY <1>1, <1>4, <2>3, <2>4, <2>5
<1>. QED
  BY <1>3, <1>4

LEMMA SectionOpens ==
    ASSUME NEW f \in Seq(Clusters), NEW g \in Seq(Clusters), NEW base \in Nat,
           NEW d \in Seq(Data), NEW s \in Nat,
           \A j \in 1..Len(f) : g[j].seq = f[j].seq /\ g[j].data = f[j].data,
           base + Len(f) < Len(Sizes),
           f # <<>> => Section(f, base, Sizes[base + Len(f)]),
           Len(g) = Len(f) + 1,
           g[Len(f) + 1].seq = base + Len(f), g[Len(f) + 1].data = d,
           Len(d) = s, \A i \in 1..s : d[i] = <<base + Len(f), i>>
    PROVE  Section(g, base, s)
<1>1. Len(f) \in Nat
  OBVIOUS
<1> SUFFICES ASSUME NEW j \in 1..Len(g)
             PROVE  /\ g[j].seq = base + j - 1 /\ g[j].seq < Len(Sizes)
                    /\ Len(g[j].data) = IF j = Len(g) THEN s ELSE Sizes[g[j].seq + 1]
                    /\ \A i \in 1..Len(g[j].data) : g[j].data[i] = <<g[j].seq, i>>
  BY DEF Section
<1>2. CASE j = Len(f) + 1
  BY <1>1, <1>2
<1>3. CASE j # Len(f) + 1
  <2>1. j \in 1..Len(f) /\ f # <<>>
    BY <1>1, <1>3
  <2>2. /\ f[j].seq = base + j - 1 /\ f[j].seq < Len(Sizes)
        /\ Len(f[j].data) = IF j = Len(f) THEN Sizes[base + Len(f)] ELSE Sizes[f[j].seq + 1]
        /\ \A i \in 1..Len(f[j].data) : f[j].data[i] = <<f[j].seq, i>>
    BY <2>1 DEF Section
  <2>3. j = Len(f) => f[j].seq + 1 = base + Len(f)
    BY <1>1, <2>2
  <2>4. Len(f[j].data) = Sizes[f[j].seq + 1]
    BY <2>2, <2>3
  <2>5. j # Len(g)
    BY <1>1, <2>1
  <2>. QED
    BY <2>1, <2>2, <2>4, <2>5
<1>. QED
  BY <1>2, <1>3

LEMMA ClosedSame ==
    ASSUME NEW st \in NodeStates
    PROVE  /\ Closed(st) \in Seq(Clusters) /\ Len(Closed(st)) = Len(st.file)
           /\ \A j \in 1..Len(st.file) : /\ Closed(st)[j].seq = st.file[j].seq
                                         /\ Closed(st)[j].data = st.file[j].data
<1>1. st.file \in Seq(Clusters) /\ st.pending \in Nat
  BY DEF NodeStates
<1>2. \A j \in 1..Len(st.file) :
        /\ st.file[j] \in Clusters
        /\ Closed(st)[j] = IF j = Len(st.file) THEN Bigger(st.file[j], st.pending) ELSE st.file[j]
  BY <1>1, CountingFile DEF Closed
<1>3. \A cl \in Clusters : /\ Bigger(cl, st.pending).seq = cl.seq
                           /\ Bigger(cl, st.pending).data = cl.data
  BY <1>1, BiggerCluster
<1>. QED
  BY <1>1, <1>2, <1>3, CountingFile DEF Closed

\* What FileTrue says of the fields it relates.
LEMMA FileFacts ==
    ASSUME NEW st \in NodeStates, st.file # <<>>, FileTrue(st)
    PROVE  /\ st.file \in Seq(Clusters) /\ Len(st.file) \in Nat /\ Len(st.file) >= 1
           /\ st.file[1].seq \in Nat /\ st.block \in Infos
           /\ st.block.seq \in Nat /\ st.block.cluster \in Nat
           /\ st.curSeq \in Nat /\ st.curSeq < Len(Sizes)
           /\ st.curSeq = st.file[1].seq + Len(st.file) - 1 /\ st.block.cluster = st.curSeq
           /\ Section(st.file, st.file[1].seq, st.block.seq)
<1>1. st.file \in Seq(Clusters) /\ st.block \in Infos /\ st.curSeq \in Nat
  BY DEF NodeStates
<1>2. Len(st.file) \in Nat /\ Len(st.file) >= 1
  BY <1>1
<1>3. st.file[1].seq \in Nat
  <2>1. st.file[1] \in Clusters
    BY <1>1, <1>2
  <2>. QED
    BY <2>1 DEF Clusters
<1>4. /\ Section(st.file, st.file[1].seq, st.block.seq)
      /\ st.curSeq = st.file[1].seq + Len(st.file) - 1 /\ st.block.cluster = st.curSeq
  BY DEF FileTrue
<1>5. st.curSeq < Len(Sizes)
  <2>1. Len(st.file) \in 1..Len(st.file)
    BY <1>2
  <2>2. /\ st.file[Len(st.file)].seq = st.file[1].seq + Len(st.file) - 1
        /\ st.file[Len(st.file)].seq < Len(Sizes)
    BY <1>4, <2>1 DEF Section
  <2>. QED
    BY <1>4, <2>2
<1>6. st.block.seq \in Nat /\ st.block.cluster \in Nat
  BY <1>1 DEF Infos
<1>. QED
  BY <1>1, <1>2, <1>3, <1>4, <1>5, <1>6

LEMMA BlockBytes ==
    ASSUME NEW m, NEW info, IsBlockAt(m, info)
    PROVE  /\ Bytes(m) = <<<<m.cluster, m.seq>>>> /\ <<m.cluster, m.seq>> \in Data
           /\ m.cluster \in Nat /\ m.seq \in Nat /\ m.seq >= 1 /\ m.cluster < Len(Sizes)
           /\ m.seq <= Sizes[m.cluster + 1]
           /\ info.cluster = m.cluster /\ m.seq = info.seq + 1
<1>1. /\ m.cluster \in Nat /\ m.seq \in Nat /\ m.seq >= 1 /\ m.cluster < Len(Sizes)
      /\ m.seq <= Sizes[m.cluster + 1] /\ m.data = <<m.cluster, m.seq>>
  BY SizesOf DEF IsBlockAt, IsRecorded, Blocks
<1>2. <<m.cluster, m.seq>> # Empty
  BY DEF Empty
<1>3. Bytes(m) = <<<<m.cluster, m.seq>>>>
  BY <1>1, <1>2 DEF Bytes
<1>4. <<m.cluster, m.seq>> \in Data
  BY <1>1 DEF Data
<1>5. info.cluster = m.cluster /\ m.seq = info.seq + 1
  <2>1. info = [cluster |-> m.cluster, seq |-> m.seq - 1]
    BY DEF IsBlockAt
  <2>. QED
    BY <1>1, <2>1
<1>. QED
  BY <1>1, <1>3, <1>4, <1>5

\* The fields of a peer that has taken a block.
LEMMA AssembledState ==
    ASSUME NEW st \in NodeStates, NEW m \in Blocks, st.file # <<>>
    PROVE  LET u == Assembled(st, m)
               new == st.block.cluster # m.cluster
           IN  /\ u \in NodeStates /\ u.file = FileWith(st, m) /\ u.file \in Seq(Clusters)
               /\ u.prevSeq = IF new THEN st.curSeq ELSE st.prevSeq
               /\ u.curSeq = IF new THEN m.cluster ELSE st.curSeq
               /\ u.first = IF st.isFirst THEN m.cluster ELSE st.first
               /\ ~u.isFirst /\ u.latest = m.seq /\ u.block = At(m)
               /\ u.total = st.total + 1 /\ u.up = st.up /\ u.stuck = st.stuck
               /\ u.playing = st.playing
<1> DEFINE new == st.block.cluster # m.cluster
           u == Assembled(st, m)
           ps == IF new THEN st.curSeq ELSE st.prevSeq
           cs == IF new THEN m.cluster ELSE st.curSeq
           fs == IF st.isFirst THEN m.cluster ELSE st.first
           file == FileWith(st, m)
           k == Len(Bytes(m))
           at == At(m)
<1>1. u \in NodeStates /\ file \in Seq(Clusters)
  BY AssembledFields
<1>2. u = [st EXCEPT !.file = file, !.pending = k, !.prevSeq = ps, !.curSeq = cs,
                     !.first = fs, !.isFirst = FALSE, !.latest = m.seq, !.block = at,
                     !.total = @ + 1]
  BY AssembledFields DEF At
<1> HIDE DEF u, ps, cs, fs, file, k, at
<1>3. u.file = file /\ u.prevSeq = ps /\ u.curSeq = cs /\ u.first = fs
  BY <1>2 DEF NodeStates
<1>4. u.latest = m.seq /\ u.block = at /\ u.total = st.total + 1
  BY <1>2 DEF NodeStates
<1>5. ~u.isFirst
  BY <1>2 DEF NodeStates
<1>6. u.up = st.up
  BY <1>2 DEF NodeStates
<1>7. u.stuck = st.stuck
  BY <1>2 DEF NodeStates
<1>8. u.playing = st.playing
  BY <1>2 DEF NodeStates
<1>. QED
  BY <1>1, <1>3, <1>4, <1>5, <1>6, <1>7, <1>8 DEF u, ps, cs, fs, file, at

\* The next block is not old to a peer that is at the one before.
LEMMA NextIsNew ==
    ASSUME NEW st \in NodeStates, st.file # <<>>, FileTrue(st), NEW m,
           IsBlockAt(m, Upcoming(st.block))
    PROVE  ~IsOldBlockSeq(st, m)
<1> DEFINE L == Len(st.file)
<1>1. /\ L \in Nat /\ L >= 1 /\ st.curSeq \in Nat /\ st.block.seq \in Nat
      /\ st.block.cluster = st.curSeq /\ st.curSeq < Len(Sizes)
      /\ st.latest \in Nat
  BY FileFacts DEF NodeStates
<1>2. /\ m.cluster \in Nat /\ m.seq \in Nat /\ m.seq >= 1
      /\ Upcoming(st.block).cluster = m.cluster /\ m.seq = Upcoming(st.block).seq + 1
  BY BlockBytes
<1>3. st.prevSeq = IF L = 1 THEN 0 ELSE st.curSeq - 1
  BY DEF FileTrue
<1>4. st.isFirst => L = 1 /\ st.block.seq = 0 /\ st.latest = 0
  BY DEF FileTrue
<1>5. ~st.isFirst => st.latest = st.block.seq
  BY DEF FileTrue
<1>6. CASE st.block.seq = Sizes[st.curSeq + 1]
  <2>1. Upcoming(st.block).cluster = st.curSeq + 1
    BY <1>1, <1>6 DEF Upcoming, RenewBlock
  <2>2. st.prevSeq < m.cluster
    <3> HIDE DEF L
    <3>. QED
      BY <1>1, <1>2, <1>3, <2>1
  <2>3. st.prevSeq \in Nat
    BY DEF NodeStates
  <2>. QED
    BY <1>2, <2>2, <2>3 DEF IsOldBlockSeq
<1>7. CASE st.block.seq # Sizes[st.curSeq + 1]
  <2>1. Upcoming(st.block) = st.block
    BY <1>1, <1>7 DEF Upcoming
  <2>2. m.cluster = st.curSeq /\ m.seq = st.block.seq + 1
    BY <1>1, <1>2, <2>1
  <2>3. m.seq > st.latest
    BY <1>1, <1>4, <1>5, <2>2
  <2>4. m.cluster >= st.prevSeq
    <3> HIDE DEF L
    <3>. QED
      BY <1>1, <1>3, <2>2
  <2>5. st.prevSeq \in Nat
    BY DEF NodeStates
  <2>. QED
    BY <1>1, <1>2, <2>3, <2>4, <2>5 DEF IsOldBlockSeq
<1>. QED
  BY <1>6, <1>7

LEMMA AssembledTrue ==
    ASSUME NEW st \in NodeStates, st.file # <<>>, FileTrue(st), NEW m,
           IsBlockAt(m, Upcoming(st.block))
    PROVE  LET u == Assembled(st, m) IN
           /\ FileTrue(u) /\ u.file # <<>> /\ u.file[1].seq = st.file[1].seq
           /\ Len(u.file) >= Len(st.file)
<1> DEFINE u == Assembled(st, m)
           L == Len(st.file)
           f == Closed(st)
           g == u.file
           base == st.file[1].seq
           x == <<m.cluster, m.seq>>
<1>1. m \in Blocks
  BY DEF IsBlockAt
<1>2. /\ st.file \in Seq(Clusters) /\ L \in Nat /\ L >= 1 /\ base \in Nat
      /\ st.block.seq \in Nat /\ st.curSeq \in Nat /\ st.curSeq < Len(Sizes)
      /\ st.curSeq = base + L - 1 /\ st.block.cluster = st.curSeq
      /\ Section(st.file, base, st.block.seq) /\ Sizes[st.curSeq + 1] \in Nat
      /\ Sizes[st.curSeq + 1] > 0
  BY FileFacts, SizesOf
<1>3. /\ Bytes(m) = <<x>> /\ x \in Data
      /\ m.cluster \in Nat /\ m.seq \in Nat /\ m.seq >= 1 /\ m.cluster < Len(Sizes)
      /\ m.seq <= Sizes[m.cluster + 1]
      /\ Upcoming(st.block).cluster = m.cluster /\ m.seq = Upcoming(st.block).seq + 1
  BY BlockBytes
<1>4. /\ u.file = FileWith(st, m) /\ g \in Seq(Clusters)
      /\ u.prevSeq = IF st.block.cluster # m.cluster THEN st.curSeq ELSE st.prevSeq
      /\ u.curSeq = IF st.block.cluster # m.cluster THEN m.cluster ELSE st.curSeq
      /\ u.first = IF st.isFirst THEN m.cluster ELSE st.first
      /\ ~u.isFirst /\ u.latest = m.seq /\ u.block = At(m)
      /\ u.total = st.total + 1
  BY <1>1, AssembledState
<1>5. u.block.cluster = m.cluster /\ u.block.seq = m.seq
  BY <1>4 DEF At
<1>6. /\ f \in Seq(Clusters) /\ Len(f) = L
      /\ \A j \in 1..L : f[j].seq = st.file[j].seq /\ f[j].data = st.file[j].data
  BY ClosedSame
<1>7. /\ st.prevSeq = IF L = 1 THEN 0 ELSE st.curSeq - 1
      /\ st.isFirst => L = 1
      /\ st.isFirst => st.block.seq = 0
      /\ ~st.isFirst => st.first = base
      /\ L = 1 => st.total = st.block.seq
      /\ st.total \in Nat
  <2>1. /\ st.prevSeq = IF L = 1 THEN 0 ELSE st.curSeq - 1
        /\ L = 1 => st.total = st.block.seq
    BY DEF FileTrue
  <2>2. (st.isFirst => L = 1) /\ (st.isFirst => st.block.seq = 0)
    BY DEF FileTrue
  <2>3. ~st.isFirst => st.first = base
    BY DEF FileTrue
  <2>4. st.total \in Nat
    BY DEF NodeStates
  <2>. QED
    BY <2>1, <2>2, <2>3, <2>4
<1> HIDE DEF u, f
<1>8. CASE st.block.seq # Sizes[st.curSeq + 1]
  <2>1. Upcoming(st.block) = st.block
    BY <1>2, <1>8 DEF Upcoming
  <2>2. m.cluster = st.curSeq /\ m.seq = st.block.seq + 1 /\ st.block.cluster = m.cluster
    BY <1>2, <1>3, <2>1
  <2>3. g = [f EXCEPT ![L] = Longer(@, <<x>>)]
    BY <1>3, <1>4, <2>2 DEF FileWith, f
  <2>4. DOMAIN f = 1..L /\ L \in 1..L /\ f[L] \in Clusters
    <3> HIDE DEF L
    <3>. QED
      BY <1>2, <1>6, SeqForm
  <2>5. /\ Longer(f[L], <<x>>).seq = f[L].seq
        /\ Longer(f[L], <<x>>).data = f[L].data \o <<x>>
    <3>1. <<x>> \in Seq(Data)
      BY <1>3
    <3>. QED
      BY <2>4, <3>1, LongerCluster
  <2> HIDE DEF g, L
  <2>6. /\ DOMAIN g = 1..L /\ g[L] = Longer(f[L], <<x>>)
        /\ \A j \in 1..L : j # L => g[j] = f[j]
    BY <2>3, <2>4
  <2>7. Len(g) = L
    BY <1>2, <1>4, <2>6 DEF g
  <2>8. st.file[L].seq = st.curSeq
    BY <1>2, <2>4 DEF Section, L
  <2>9. \A j \in 1..L :
           /\ g[j].seq = st.file[j].seq
           /\ g[j].data = IF j = L THEN st.file[j].data \o <<<<st.file[j].seq, st.block.seq + 1>>>>
                          ELSE st.file[j].data
    BY <1>6, <2>2, <2>4, <2>5, <2>6, <2>8
  <2>10. Section(g, base, st.block.seq + 1)
    BY <1>2, <1>4, <2>7, <2>9, SectionGrows DEF L, g
  <2>11. g[1].seq = base
    <3>1. 1 \in 1..L
      <4> HIDE DEF base, x
      <4>. QED
        BY <1>2
    <3>. QED
      BY <2>9, <3>1
  <2>12. g # <<>>
    BY <1>2, <2>7
  <2>13. /\ Section(u.file, u.file[1].seq, u.block.seq) /\ Len(u.file) = L
         /\ u.file[1].seq = base
    BY <1>5, <2>2, <2>7, <2>10, <2>11 DEF g
  <2>14. /\ u.block.cluster = u.curSeq /\ u.curSeq = base + L - 1
         /\ u.block.seq <= Sizes[u.curSeq + 1]
         /\ u.prevSeq = IF L = 1 THEN 0 ELSE u.curSeq - 1
         /\ L = 1 => u.total = u.block.seq
         /\ u.first = base /\ u.latest = u.block.seq
         /\ u.block.seq > 0 /\ ~(L = 1 /\ u.block.seq = 0)
    <3> HIDE DEF base, x
    <3>. QED
      BY <1>2, <1>3, <1>4, <1>5, <1>7, <2>2
  <2>15. FileTrue(u)
    BY <1>4, <2>13, <2>14 DEF FileTrue
  <2>. QED
    BY <1>2, <2>7, <2>12, <2>13, <2>15 DEF g, u, L
<1>9. CASE st.block.seq = Sizes[st.curSeq + 1]
  <2>1. Upcoming(st.block) = [cluster |-> st.curSeq + 1, seq |-> 0]
    BY <1>2, <1>9 DEF Upcoming, RenewBlock
  <2>2. m.cluster = st.curSeq + 1 /\ m.seq = 1 /\ st.block.cluster # m.cluster
    BY <1>2, <1>3, <2>1
  <2> DEFINE cl == Cluster(m.cluster, <<x>>, 0)
  <2>3. g = Append(f, cl)
    BY <1>3, <1>4, <2>2 DEF FileWith, f
  <2>4. cl.seq = m.cluster /\ cl.data = <<x>> /\ <<x>> \in Seq(Data) /\ cl \in Clusters
        /\ Len(<<x>>) = 1 /\ <<x>>[1] = x
    BY <1>3 DEF Cluster, Clusters
  <2> HIDE DEF cl
  <2>5. /\ Len(g) = L + 1 /\ g[L + 1] = cl /\ \A j \in 1..L : g[j] = f[j]
    BY <1>6, <2>3, <2>4
  <2> HIDE DEF g
  <2>6. base + L = m.cluster /\ base + L < Len(Sizes) /\ base + L = st.curSeq + 1
    <3> HIDE DEF base, L, x
    <3>. QED
      BY <1>2, <1>3, <2>2
  <2>7. Section(st.file, base, Sizes[base + L])
    <3> HIDE DEF base, L, x
    <3>. QED
      BY <1>2, <1>9, <2>6
  <2>8. \A i \in 1..1 : <<x>>[i] = <<base + L, i>>
    BY <2>2, <2>4, <2>6
  <2>9. Section(g, base, 1)
    <3>1. g \in Seq(Clusters) /\ 1 \in Nat /\ g[L + 1].seq = base + L /\ g[L + 1].data = <<x>>
      BY <1>4, <2>4, <2>5, <2>6 DEF g
    <3>2. \A j \in 1..L : g[j].seq = st.file[j].seq /\ g[j].data = st.file[j].data
      BY <1>6, <2>5
    <3> HIDE DEF base, x
    <3>. QED
      BY <1>2, <2>4, <2>5, <2>6, <2>7, <2>8, <3>1, <3>2, SectionOpens
  <2>10. g[1].seq = base
    <3>1. 1 \in 1..L
      BY <1>2
    <3>. QED
      BY <1>6, <2>5, <3>1
  <2>11. g # <<>> /\ Len(g) >= L
    BY <1>2, <2>5
  <2>12. /\ Section(u.file, u.file[1].seq, u.block.seq) /\ Len(u.file) = L + 1
         /\ u.file[1].seq = base
    BY <1>5, <2>2, <2>5, <2>9, <2>10 DEF g
  <2>13. L + 1 # 1
    BY <1>2
  <2>14. ~st.isFirst
    BY <1>2, <1>7, <1>9
  <2>15. /\ u.block.cluster = u.curSeq /\ u.curSeq = base + (L + 1) - 1
         /\ u.block.seq <= Sizes[u.curSeq + 1]
         /\ u.prevSeq = u.curSeq - 1
         /\ u.first = base /\ u.latest = u.block.seq /\ u.block.seq > 0
    <3> HIDE DEF base, L, x
    <3>. QED
      BY <1>2, <1>3, <1>4, <1>5, <1>7, <2>2, <2>14
  <2>16. FileTrue(u)
    BY <1>4, <2>12, <2>13, <2>15 DEF FileTrue
  <2>. QED
    BY <2>10, <2>11, <2>16 DEF g, u
<1>. QED
  BY <1>8, <1>9 DEF u

\* Where the sender is, is a place to go on from.
LEMMA InTurnLast ==
    ASSUME NEW q \in Seq(Messages), NEW k \in 1..3, NEW info \in Infos, NEW last,
           info.cluster < Len(Sizes) => info.seq <= Sizes[info.cluster + 1],
           InTurn(q, k, info, last)
    PROVE  Legal(last)
<1>1. Len(q) \in Nat
  OBVIOUS
<1>2. CASE Len(q) < k
  BY <1>2, UpcomingLegal DEF InTurn
<1>3. CASE ~(Len(q) < k)
  <2>1. Len(q) \in k..Len(q) /\ Len(q) \in 1..Len(q)
    BY <1>1, <1>3
  <2>2. q[Len(q)] \in Messages
    BY <2>1
  <2>3. q[Len(q)].type = "BLOCK" /\ IsRecorded(q[Len(q)].cluster, q[Len(q)].seq)
    BY <2>1 DEF InTurn
  <2>4. q[Len(q)] \in Blocks
    BY <2>2, <2>3 DEF Messages, Blocks
  <2>5. last = Upcoming(At(q[Len(q)]))
    BY <1>3 DEF InTurn
  <2>. QED
    BY <2>3, <2>4, <2>5, BlockAt
<1>. QED
  BY <1>2, <1>3

LEMMA PeerLegal ==
    ASSUME NEW st \in NodeStates, NEW srv, NEW q \in Seq(Messages), NEW last,
           srv # Nobody, st.file = <<>> => Opens(q), PeerTrue(st, srv, q, last)
    PROVE  Legal(last)
<1>1. CASE st.file # <<>>
  <2>1. st.block \in Infos /\ st.block.cluster = st.curSeq /\ st.block.seq <= Sizes[st.curSeq + 1]
    <3>1. FileTrue(st)
      BY <1>1 DEF PeerTrue
    <3>. QED
      BY <3>1 DEF FileTrue, NodeStates
  <2>2. InTurn(q, 1, st.block, last)
    BY <1>1 DEF PeerTrue
  <2>. QED
    BY <2>1, <2>2, InTurnLast
<1>2. CASE st.file = <<>> /\ q[1].type = "HEADER"
  <2>1. st.block \in Infos /\ st.block.seq = 0 /\ InTurn(q, 2, st.block, last)
    BY <1>2 DEF PeerTrue, NodeStates
  <2>2. st.block.cluster \in Nat
    BY <2>1 DEF Infos
  <2>3. st.block.cluster < Len(Sizes) => st.block.seq <= Sizes[st.block.cluster + 1]
    BY <2>1, <2>2, SizesOf
  <2>. QED
    BY <2>1, <2>3, InTurnLast
<1>3. CASE st.file = <<>> /\ q[1].type # "HEADER"
  <2> DEFINE info == [cluster |-> q[1].cluster, seq |-> 0]
  <2>1. Opens(q) /\ q # <<>> /\ q[1] \in Messages /\ q[1].type = "INITIAL_STATUS"
    <3>. QED
      BY <1>3 DEF Opens
  <2>2. q[1].cluster \in Nat
    BY <2>1 DEF Messages, Blocks
  <2>3. info \in Infos /\ info.cluster \in Nat /\ info.seq = 0
    BY <2>2 DEF Infos
  <2>4. InTurn(q, 3, info, last)
    BY <1>3 DEF PeerTrue
  <2> HIDE DEF info
  <2>5. info.cluster < Len(Sizes) => info.seq <= Sizes[info.cluster + 1]
    BY <2>3, SizesOf
  <2>. QED
    BY <2>3, <2>4, <2>5, InTurnLast
<1>. QED
  BY <1>1, <1>2, <1>3

\* One more block for a peer is the next one.
LEMMA PeerGetsBlock ==
    ASSUME NEW st \in NodeStates, NEW srv, NEW q \in Seq(Messages), NEW last, NEW m,
           srv # Nobody, st.file = <<>> => Opens(q), PeerTrue(st, srv, q, last),
           IsBlockAt(m, last)
    PROVE  PeerTrue(st, srv, Append(q, m), Upcoming(At(m)))
<1> DEFINE r == Append(q, m)
<1>1. m \in Messages
  BY DEF IsBlockAt, Messages
<1>2. Len(q) \in Nat /\ Len(q) > 0 => r[1] = q[1]
  BY <1>1
<1>3. CASE st.file # <<>>
  <2>1. InTurn(q, 1, st.block, last)
    BY <1>3 DEF PeerTrue
  <2>2. InTurn(r, 1, st.block, Upcoming(At(m)))
    BY <1>2, <2>1, InTurnAppend
  <2> HIDE DEF r
  <2>. QED
    BY <1>3, <2>2 DEF PeerTrue, r
<1>4. CASE st.file = <<>>
  <2>1. Opens(q)
    BY <1>4
  <2>2. /\ Len(q) \in Nat /\ Len(q) >= 1 /\ r[1] = q[1]
        /\ q[1].type # "HEADER" => Len(q) >= 2
    BY <1>2, <2>1 DEF Opens
  <2>3. CASE q[1].type = "HEADER"
    <3>1. InTurn(q, 2, st.block, last)
      BY <1>4, <2>3 DEF PeerTrue
    <3>2. InTurn(r, 2, st.block, Upcoming(At(m)))
      BY <2>2, <3>1, InTurnAppend
    <3> HIDE DEF r
    <3>. QED
      BY <1>4, <2>2, <2>3, <3>2 DEF PeerTrue, r
  <2>4. CASE q[1].type # "HEADER"
    <3>1. InTurn(q, 3, [cluster |-> q[1].cluster, seq |-> 0], last)
      BY <1>4, <2>4 DEF PeerTrue
    <3>2. InTurn(r, 3, [cluster |-> q[1].cluster, seq |-> 0], Upcoming(At(m)))
      BY <2>2, <2>4, <3>1, InTurnAppend
    <3> HIDE DEF r
    <3>. QED
      BY <1>4, <2>2, <2>4, <3>2 DEF PeerTrue, r
  <2>. QED
    BY <2>3, <2>4
<1>. QED
  BY <1>3, <1>4

\* What SendMulStream does when nothing fails: the children that are due one
\* get the next block.
SendsInTurn(n, st, queues) ==
    /\ node' = [node EXCEPT ![n] = st]
    /\ \A c \in Peers :
         \/ net'[c] = queues[c] /\ sent'[c] = sent[c]
         \/ /\ server[c] = n
            /\ \E m \in Blocks : /\ IsBlockAt(m, sent[c])
                                 /\ net'[c] = Append(queues[c], m)
                                 /\ sent'[c] = Upcoming(At(m))

LEMMA SendSteady ==
    ASSUME TypeOK, NEW n \in Nodes, NEW st \in NodeStates, ~st.stuck,
           NEW queues \in [Peers -> Seq(Messages)],
           n = Origin => OriginTrue(st),
           \A c \in Peers : node[c].up,
           \A c \in Peers : server[c] = n =>
              /\ Legal(sent[c])
              /\ n # Origin => FileTrue(st) /\ ServesFrom(st, sent[c]),
           SendMulStream(n, st, queues)
    PROVE  SendsInTurn(n, st, queues)
<1> DEFINE due == {c \in Peers : server[c] = n /\ IsOldBlockSeq(st, sent[c])}
           far == {c \in due : ~Reachable(st, sent[c].cluster)}
<1>1. ASSUME NEW c \in due
      PROVE  /\ Reachable(st, sent[c].cluster)
             /\ IsBlockAt(CacheBlock(n, st, sent[c]), sent[c])
             /\ After(n, st, sent[c]) = Upcoming(At(CacheBlock(n, st, sent[c])))
  <2>1. /\ Legal(sent[c]) /\ IsOldBlockSeq(st, sent[c])
        /\ n # Origin => FileTrue(st) /\ ServesFrom(st, sent[c])
    OBVIOUS
  <2> HIDE DEF due
  <2>. QED
    BY <2>1, DueBlock
<1>2. far = {}
  BY <1>1
<1>3. PICK C \in IF far = {} THEN {due} ELSE SUBSET (due \ far) :
          /\ node' = [node EXCEPT ![n] = [st EXCEPT !.stuck = far # {}]]
          /\ sent' = [c \in Peers |-> IF c \in C THEN After(n, st, sent[c])
                                      ELSE sent[c]]
          /\ net' = [c \in Peers |->
                       IF c \in C /\ node[c].up
                       THEN Append(queues[c], CacheBlock(n, st, sent[c]))
                       ELSE queues[c]]
  BY Zenon DEF SendMulStream
<1>4. C = due
  BY <1>2, <1>3
<1>5. [st EXCEPT !.stuck = far # {}] = st
  <2>1. (far # {}) = FALSE
    BY <1>2
  <2>2. [st EXCEPT !.stuck = FALSE] = st
    BY DEF NodeStates
  <2>. QED
    BY <2>1, <2>2
<1>6. ASSUME NEW c \in Peers
      PROVE  \/ net'[c] = queues[c] /\ sent'[c] = sent[c]
             \/ /\ server[c] = n
                /\ \E m \in Blocks : /\ IsBlockAt(m, sent[c])
                                     /\ net'[c] = Append(queues[c], m)
                                     /\ sent'[c] = Upcoming(At(m))
  <2>1. CASE c \notin due
    BY <1>3, <1>4, <2>1
  <2>2. CASE c \in due
    <3> DEFINE m == CacheBlock(n, st, sent[c])
    <3>1. IsBlockAt(m, sent[c]) /\ After(n, st, sent[c]) = Upcoming(At(m))
      BY <1>1, <2>2
    <3>2. m \in Blocks
      BY <3>1 DEF IsBlockAt
    <3>3. server[c] = n
      BY <2>2
    <3>4. net'[c] = Append(queues[c], m) /\ sent'[c] = After(n, st, sent[c])
      <4> HIDE DEF m, due, far
      <4>. QED
        BY <1>3, <1>4, <2>2 DEF m
    <3> HIDE DEF m, due, far
    <3>. QED
      BY <3>1, <3>2, <3>3, <3>4
  <2>. QED
    BY <2>1, <2>2
<1>. QED
  <2> HIDE DEF due, far
  <2>. QED
    BY <1>3, <1>5, <1>6 DEF SendsInTurn

\* A step of node n, which may send, keeps everything true of it and of those
\* it serves.
LEMMA StepSteady ==
    ASSUME SteadyInv, NEW n \in Nodes, NEW st \in NodeStates,
           NEW queues \in [Peers -> Seq(Messages)],
           SendsInTurn(n, st, queues), UNCHANGED <<server, budget>>,
           n = Origin => OriginTrue(st),
           n \in Peers =>
              /\ PeerTrue(st, server[n], queues[n], sent[n])
              /\ st.file = <<>> /\ server[n] # Nobody => Opens(queues[n])
              /\ Len(st.file) >= Len(node[n].file)
              /\ node[n].file # <<>> => st.file[1].seq = node[n].file[1].seq,
           \A c \in Peers : c # n => queues[c] = net[c]
    PROVE  Undisturbed'
<1>1. /\ Origin \in Nodes /\ Origin \notin Peers /\ Peers \subseteq Nodes
      /\ Nobody \notin Nodes
  BY TreeAssumption DEF Nodes
<1>2. \A x \in Nodes : node'[x] = IF x = n THEN st ELSE node[x]
  BY DEF SendsInTurn, SteadyInv, StreamInv, TypeOK
<1>3. budget' = Budget /\ OriginTrue(node'[Origin])
  BY <1>1, <1>2 DEF SteadyInv, Undisturbed
<1>4. ASSUME NEW c \in Peers, server[c] # Nobody
      PROVE  /\ node'[c] \in NodeStates /\ queues[c] \in Seq(Messages)
             /\ node'[c].file = <<>> => Opens(queues[c])
             /\ PeerTrue(node'[c], server[c], queues[c], sent[c])
  <2>1. CASE c = n
    BY <1>1, <1>2, <1>4, <2>1
  <2>2. CASE c # n
    <3>1. node'[c] = node[c] /\ queues[c] = net[c]
      BY <1>1, <1>2, <2>2
    <3>2. /\ PeerTrue(node[c], server[c], net[c], sent[c]) /\ PeerOK(node[c], server[c], net[c])
          /\ node[c] \in NodeStates
      BY <1>1 DEF SteadyInv, Undisturbed, StreamInv, TypeOK
    <3>3. node[c].file = <<>> => Opens(net[c])
      BY <1>4, <3>2 DEF PeerOK, PeerTrue
    <3>. QED
      BY <3>1, <3>2, <3>3
  <2>. QED
    BY <2>1, <2>2
<1>5. ASSUME NEW c \in Peers
      PROVE  PeerTrue(node'[c], server'[c], net'[c], sent'[c])
  <2>1. CASE net'[c] = queues[c] /\ sent'[c] = sent[c]
    <3>1. PeerTrue(node'[c], server[c], queues[c], sent[c])
      <4>1. CASE c = n
        BY <1>1, <1>2, <4>1
      <4>2. CASE c # n
        BY <1>1, <1>2, <4>2 DEF SteadyInv, Undisturbed
      <4>. QED
        BY <4>1, <4>2
    <3>. QED
      BY <2>1, <3>1
  <2>2. CASE ~(net'[c] = queues[c] /\ sent'[c] = sent[c])
    <3>1. PICK m \in Blocks : /\ IsBlockAt(m, sent[c]) /\ server[c] = n
                              /\ net'[c] = Append(queues[c], m)
                              /\ sent'[c] = Upcoming(At(m))
      BY <2>2 DEF SendsInTurn
    <3>2. server[c] # Nobody
      BY <1>1, <3>1
    <3>3. PeerTrue(node'[c], server[c], Append(queues[c], m), Upcoming(At(m)))
      BY <1>4, <3>1, <3>2, PeerGetsBlock
    <3>. QED
      BY <3>1, <3>3
  <2>. QED
    BY <2>1, <2>2
<1>6. ASSUME NEW c \in Peers, server'[c] \in Peers
      PROVE  ServesFrom(node'[server'[c]], sent'[c])
  <2>1. ServesFrom(node[server[c]], sent[c]) /\ server[c] \in Peers /\ server[c] \in Nodes
    BY <1>1, <1>6 DEF SteadyInv, Undisturbed
  <2>2. ServesFrom(node'[server[c]], sent[c])
    <3>1. CASE server[c] # n
      BY <1>2, <2>1, <3>1
    <3>2. CASE server[c] = n
      <4>1. node'[server[c]] = st /\ node[n].file # <<>> /\ node[n] \in NodeStates
        BY <1>2, <2>1, <3>2 DEF ServesFrom, SteadyInv, StreamInv, TypeOK
      <4>2. Len(node[n].file) \in Nat /\ Len(st.file) \in Nat
        <5>1. node[n].file \in Seq(Clusters) /\ st.file \in Seq(Clusters)
          BY <4>1 DEF NodeStates
        <5>. QED
          BY <5>1
      <4>. QED
        BY <2>1, <3>2, <4>1, <4>2 DEF ServesFrom
    <3>. QED
      BY <3>1, <3>2
  <2>3. sent'[c].cluster >= sent[c].cluster /\ sent'[c] \in Infos /\ sent[c] \in Infos
    <3>1. sent[c] \in Infos
      BY DEF SteadyInv, StreamInv, TypeOK
    <3>2. CASE sent'[c] = sent[c]
      BY <3>1, <3>2 DEF Infos
    <3>3. CASE sent'[c] # sent[c]
      <4>1. PICK m \in Blocks : IsBlockAt(m, sent[c]) /\ sent'[c] = Upcoming(At(m))
        BY <3>3 DEF SendsInTurn
      <4>2. m.cluster \in Nat /\ sent[c].cluster = m.cluster /\ IsRecorded(m.cluster, m.seq)
        BY <4>1, BlockBytes DEF IsBlockAt
      <4>3. Legal(Upcoming(At(m))) /\ At(m).cluster = m.cluster
        BY <4>2, BlockAt DEF At
      <4>4. Upcoming(At(m)).cluster \in {m.cluster, m.cluster + 1}
        BY <4>3 DEF Upcoming, RenewBlock
      <4>. QED
        BY <3>1, <4>1, <4>2, <4>3, <4>4 DEF Legal
    <3>. QED
      BY <3>2, <3>3
  <2>4. node'[server[c]].file[1].seq \in Nat
    <3>1. node'[server[c]] \in NodeStates
      BY <1>2, <2>1 DEF SteadyInv, StreamInv, TypeOK
    <3>2. node'[server[c]].file \in Seq(Clusters) /\ Len(node'[server[c]].file) >= 2
      BY <2>2, <3>1 DEF NodeStates, ServesFrom
    <3>3. node'[server[c]].file[1] \in Clusters
      BY <3>2
    <3>. QED
      BY <3>3 DEF Clusters
  <2>. QED
    BY <2>2, <2>3, <2>4 DEF ServesFrom, Infos
<1>. QED
  BY <1>3, <1>5, <1>6 DEF Undisturbed

\* The facts about node n, and about those it serves, that sending needs.
LEMMA SteadyFacts ==
    ASSUME SteadyInv
    PROVE  /\ TypeOK /\ OriginTrue(node[Origin])
           /\ \A x \in Nodes : node[x] \in NodeStates /\ node[x].up /\ ~node[x].stuck
           /\ \A c \in Peers : /\ PeerTrue(node[c], server[c], net[c], sent[c])
                               /\ PeerOK(node[c], server[c], net[c])
                               /\ server[c] # Nobody => Legal(sent[c])
           /\ \A c \in Peers : server[c] \in Peers =>
                ServesFrom(node[server[c]], sent[c]) /\ FileTrue(node[server[c]])
<1>1. TypeOK /\ OriginTrue(node[Origin]) /\ \A x \in Nodes : node[x] \in NodeStates
  BY DEF SteadyInv, StreamInv, TypeOK, Undisturbed
<1>2. \A c \in Peers : /\ PeerTrue(node[c], server[c], net[c], sent[c])
                       /\ PeerOK(node[c], server[c], net[c])
  BY DEF SteadyInv, StreamInv, Undisturbed
<1>3. \A x \in Nodes : node[x].up /\ ~node[x].stuck
  BY <1>1, <1>2 DEF Nodes, OriginTrue, PeerTrue
<1>4. ASSUME NEW c \in Peers, server[c] # Nobody
      PROVE  Legal(sent[c])
  <2>1. node[c] \in NodeStates /\ net[c] \in Seq(Messages)
    BY <1>1 DEF TypeOK, Nodes
  <2>2. node[c].file = <<>> => Opens(net[c])
    BY <1>2, <1>4 DEF PeerOK, PeerTrue
  <2>. QED
    BY <1>2, <1>4, <2>1, <2>2, PeerLegal
<1>5. ASSUME NEW c \in Peers, server[c] \in Peers
      PROVE  ServesFrom(node[server[c]], sent[c]) /\ FileTrue(node[server[c]])
  <2>1. ServesFrom(node[server[c]], sent[c])
    BY <1>5 DEF SteadyInv, Undisturbed
  <2>2. node[server[c]].file # <<>>
    BY <2>1 DEF ServesFrom
  <2>. QED
    BY <1>2, <1>5, <2>1, <2>2 DEF PeerTrue
<1>. QED
  BY <1>1, <1>2, <1>3, <1>4, <1>5

-----------------------------------------------------------------------------
(* SteadyInv, one lemma for each handler.                                   *)

LEMMA NoFault ==
    ASSUME SteadyInv, Faults = 0, NEW kind
    PROVE  ~Spend(kind)
<1>1. budget = Budget
  BY DEF SteadyInv, Undisturbed
<1>2. /\ Budget["loss"] \in Nat /\ Budget["dup"] \in Nat
      /\ Budget["reorder"] \in Nat /\ Budget["sigint"] \in Nat
  BY BudgetAssumption
<1>. QED
  BY <1>1, <1>2 DEF Spend

LEMMA SteadyInit ==
    ASSUME Steady, Init
    PROVE  SteadyInv
<1>1. PICK seq \in Fresh :
          node = [n \in Nodes |->
                    IF n = Origin
                    THEN [Blank EXCEPT !.file = SubSeq(Recorded, 1, Lead),
                                       !.prevSeq = seq]
                    ELSE Blank]
  BY DEF Init
<1>2. seq = 0 /\ Lead \in 1..Len(Sizes) /\ Origin \in Nodes /\ Origin \notin Peers
  BY SizesAssumption, TreeAssumption DEF Steady, Nodes
<1> DEFINE f == SubSeq(Recorded, 1, Lead)
<1>3. Len(f) = Lead /\ \A j \in 1..Lead : f[j] = Recorded[j]
  <2>1. Recorded \in Seq(Clusters) /\ Len(Recorded) = Len(Sizes) /\ Len(Sizes) \in Nat
    BY RecordedFile, SizesOf
  <2> HIDE DEF f
  <2>. QED
    BY <1>2, <2>1 DEF f
<1> HIDE DEF f
<1>4. OriginTrue(node[Origin])
  <2>1. node[Origin] = [Blank EXCEPT !.file = f, !.prevSeq = 0]
    BY <1>1, <1>2 DEF f
  <2>2. /\ node[Origin].up /\ ~node[Origin].stuck /\ node[Origin].first = 0
        /\ node[Origin].file = f /\ node[Origin].prevSeq = 0 /\ ~node[Origin].reading
    BY <2>1 DEF Blank
  <2>. QED
    BY <1>2, <1>3, <2>2 DEF OriginTrue
<1>5. \A c \in Peers : node[c] = Blank /\ server[c] = Nobody
  BY <1>1, <1>2 DEF Init, Nodes
<1>6. \A c \in Peers : PeerTrue(node[c], server[c], net[c], sent[c])
  BY <1>5 DEF PeerTrue, Empties, Blank
<1>7. \A c \in Peers : server[c] \notin Peers
  BY <1>5, TreeAssumption DEF Nodes
<1>. QED
  BY <1>4, <1>6, <1>7, StreamInit DEF SteadyInv, Undisturbed, Init

\* The origin reads and the recorder writes: nothing is sent.
LEMMA OriginStep ==
    ASSUME SteadyInv, NEW st \in NodeStates, OriginTrue(st),
           node' = [node EXCEPT ![Origin] = st], UNCHANGED <<server, sent, net, budget>>
    PROVE  Undisturbed'
<1>1. Origin \in Nodes /\ Origin \notin Peers
  BY TreeAssumption DEF Nodes
<1>2. SendsInTurn(Origin, st, net) /\ net \in [Peers -> Seq(Messages)]
  BY DEF SendsInTurn, SteadyInv, StreamInv, TypeOK
<1>. QED
  BY <1>1, <1>2, StepSteady

LEMMA RecordSteady ==
    ASSUME SteadyInv, Record
    PROVE  Undisturbed'
<1> DEFINE o == node[Origin]
           f == Append(o.file, Recorded[Len(o.file) + 1])
           st == [o EXCEPT !.file = f]
<1>1. o \in NodeStates /\ OriginTrue(o)
  BY SteadyFacts, TreeAssumption DEF Nodes
<1>2. /\ o.file \in Seq(Clusters) /\ Len(o.file) \in Nat /\ Len(o.file) < Len(Sizes)
      /\ Len(Sizes) \in Nat /\ Recorded[Len(o.file) + 1] \in Clusters
  <2>1. o.file \in Seq(Clusters) /\ Len(o.file) < Len(Recorded)
    BY <1>1 DEF Record, NodeStates
  <2>. QED
    BY <2>1, RecordedFile, SizesOf
<1>3. /\ f \in Seq(Clusters) /\ Len(f) = Len(o.file) + 1
      /\ f[Len(o.file) + 1] = Recorded[Len(o.file) + 1]
      /\ \A j \in 1..Len(o.file) : f[j] = o.file[j]
  <2> HIDE DEF o
  <2>. QED
    BY <1>2
<1>4. node' = [node EXCEPT ![Origin] = st] /\ UNCHANGED <<server, sent, net, budget>>
  BY DEF Record
<1> HIDE DEF f
<1>5. /\ st \in NodeStates /\ st.file = f /\ st.up = o.up /\ st.stuck = o.stuck
      /\ st.first = o.first /\ st.prevSeq = o.prevSeq /\ st.curSeq = o.curSeq
      /\ st.reading = o.reading
  BY <1>1, <1>3 DEF NodeStates
<1> HIDE DEF st
<1>6. o.prevSeq \in Nat /\ o.curSeq \in Nat
  BY <1>1 DEF NodeStates
<1> HIDE DEF o
<1>7. OriginTrue(st)
  <2>1. Len(f) \in 1..Len(Sizes)
    BY <1>2, <1>3
  <2>2. \A j \in 1..Len(f) : f[j] = Recorded[j]
    <3>1. \A j \in 1..Len(f) : j \in 1..Len(o.file) \/ j = Len(o.file) + 1
      BY <1>2, <1>3
    <3>. QED
      BY <1>1, <1>3, <3>1 DEF OriginTrue
  <2>3. o.prevSeq < Len(f) /\ (o.reading => o.curSeq < Len(f))
    BY <1>1, <1>2, <1>3, <1>6 DEF OriginTrue
  <2>. QED
    BY <1>1, <1>5, <2>1, <2>2, <2>3 DEF OriginTrue
<1>. QED
  BY <1>4, <1>5, <1>7, OriginStep

LEMMA ReadSteady ==
    ASSUME SteadyInv, ReadThrough
    PROVE  Undisturbed'
<1> DEFINE st == node[Origin]
<1>1. Origin \in Nodes /\ Origin \notin Peers /\ st \in NodeStates /\ OriginTrue(st)
  BY SteadyFacts, TreeAssumption DEF Nodes
<1>2. /\ st.prevSeq \in Nat /\ st.block \in Infos /\ NextSeq \in Nat /\ st.curSeq \in Nat
      /\ ShiftToPreBlock(st.block) \in Infos /\ RenewBlock(st.block) \in Infos
  <2>1. st.prevSeq \in Nat /\ st.block \in Infos /\ st.curSeq \in Nat
    BY <1>1 DEF NodeStates
  <2>. QED
    BY <2>1 DEF NextSeq, ShiftToPreBlock, RenewBlock, Infos
<1>3. CASE ReadCluster
  <2> DEFINE z == IF st.isFirst THEN 0 ELSE st.prevSeq + 1
             u == [st EXCEPT !.curSeq = z, !.isFirst = FALSE, !.reading = TRUE]
  <2>1. z \in Nat
    BY <1>2
  <2>2. /\ node' = [node EXCEPT ![Origin] = u] /\ UNCHANGED <<server, sent, net, budget>>
        /\ z < Len(st.file)
    BY <1>3 DEF ReadCluster
  <2> HIDE DEF z
  <2>3. /\ u \in NodeStates /\ u.file = st.file /\ u.up = st.up /\ u.stuck = st.stuck
        /\ u.first = st.first /\ u.prevSeq = st.prevSeq /\ u.curSeq = z
    BY <1>1, <2>1 DEF NodeStates
  <2> HIDE DEF u, st
  <2>4. OriginTrue(u)
    BY <1>1, <2>2, <2>3 DEF OriginTrue
  <2>. QED
    BY <2>2, <2>3, <2>4, OriginStep
<1>4. CASE ReadBlock
  <2> DEFINE u == [st EXCEPT !.latest = NextSeq, !.block = ShiftToPreBlock(@)]
  <2>1. SendMulStream(Origin, u, net) /\ UNCHANGED <<server, budget>>
    BY <1>4 DEF ReadBlock
  <2>2. /\ u \in NodeStates /\ u.file = st.file /\ u.up = st.up /\ u.stuck = st.stuck
        /\ u.first = st.first /\ u.prevSeq = st.prevSeq /\ u.curSeq = st.curSeq
        /\ u.reading = st.reading
    BY <1>1, <1>2 DEF NodeStates
  <2> HIDE DEF u
  <2>3. OriginTrue(u)
    BY <1>1, <2>2 DEF OriginTrue
  <2>4. /\ TypeOK /\ ~u.stuck /\ net \in [Peers -> Seq(Messages)]
        /\ \A c \in Peers : node[c].up
        /\ \A c \in Peers : server[c] = Origin => Legal(sent[c])
    BY <1>1, <2>3, SteadyFacts, TreeAssumption DEF OriginTrue, TypeOK, Nodes
  <2>5. SendsInTurn(Origin, u, net)
    BY <1>1, <2>1, <2>2, <2>3, <2>4, SendSteady
  <2>. QED
    BY <1>1, <2>1, <2>2, <2>3, <2>4, <2>5, StepSteady
<1>5. CASE ReadClusterEnd
  <2> DEFINE v == [st EXCEPT !.latest = NextSeq, !.block = RenewBlock(@), !.reading = FALSE]
             u == ShiftToPreCluster(v)
  <2>1. /\ node' = [node EXCEPT ![Origin] = u] /\ UNCHANGED <<server, sent, net, budget>>
        /\ st.reading
    BY <1>5 DEF ReadClusterEnd
  <2>2. /\ v \in NodeStates /\ v.file = st.file /\ v.up = st.up /\ v.stuck = st.stuck
        /\ v.first = st.first /\ v.curSeq = st.curSeq /\ ~v.reading
    BY <1>1, <1>2 DEF NodeStates
  <2> HIDE DEF v
  <2>3. /\ u \in NodeStates /\ u.file = v.file /\ u.up = v.up /\ u.stuck = v.stuck
        /\ u.first = v.first /\ u.prevSeq = v.curSeq /\ u.reading = v.reading
    BY <2>2 DEF NodeStates, ShiftToPreCluster
  <2> HIDE DEF u, st
  <2>4. OriginTrue(u)
    BY <1>1, <2>1, <2>2, <2>3 DEF OriginTrue
  <2>. QED
    BY <2>1, <2>3, <2>4, OriginStep
<1>. QED
  BY <1>3, <1>4, <1>5 DEF ReadThrough

LEMMA StreamSteady ==
    ASSUME SteadyInv, NEW n \in Nodes, Stream(n)
    PROVE  Undisturbed'
<1>1. SendMulStream(n, node[n], net) /\ UNCHANGED <<server, budget>>
  BY DEF Stream
<1>2. /\ TypeOK /\ node[n] \in NodeStates /\ ~node[n].stuck
      /\ net \in [Peers -> Seq(Messages)] /\ \A c \in Peers : node[c].up
      /\ n = Origin => OriginTrue(node[n])
  BY SteadyFacts DEF TypeOK, Nodes
<1>3. \A c \in Peers : server[c] = n =>
        /\ Legal(sent[c])
        /\ n # Origin => FileTrue(node[n]) /\ ServesFrom(node[n], sent[c])
  <2>1. n \in Peers \/ n = Origin
    BY DEF Nodes
  <2>2. n # Nobody
    BY TreeAssumption
  <2>. QED
    BY <2>1, <2>2, SteadyFacts
<1>4. SendsInTurn(n, node[n], net)
  BY <1>1, <1>2, <1>3, SendSteady
<1>5. n \in Peers =>
        /\ PeerTrue(node[n], server[n], net[n], sent[n])
        /\ node[n].file = <<>> /\ server[n] # Nobody => Opens(net[n])
        /\ Len(node[n].file) >= Len(node[n].file)
  <2>1. node[n].file \in Seq(Clusters)
    BY <1>2 DEF NodeStates
  <2>. QED
    BY <1>2, <2>1, SteadyFacts DEF PeerOK
<1>. QED
  BY <1>1, <1>2, <1>4, <1>5, StepSteady

\* A parent that is ready has a complete cluster, as a full cache is more than
\* the first one.
LEMMA ReadyParent ==
    ASSUME SteadyInv, Steady, NEW p \in Nodes, Ready(p)
    PROVE  /\ node[p].prevSeq \in Nat /\ node[p].prevSeq < Len(Sizes)
           /\ p \in Peers => /\ node[p].file # <<>>
                             /\ ServesFrom(node[p], JoinAt(node[p]))
<1> DEFINE st == node[p]
<1>1. st \in NodeStates /\ st.prevSeq \in Nat /\ Len(Sizes) \in Nat /\ st.total \in Nat
  BY SteadyFacts, SizesOf DEF NodeStates
<1>2. CASE p = Origin
  <2>1. OriginTrue(st) /\ Origin \notin Peers
    BY <1>2, SteadyFacts, TreeAssumption
  <2>2. st.file \in Seq(Clusters)
    BY <1>1 DEF NodeStates
  <2>3. st.prevSeq < Len(Sizes)
    BY <1>1, <2>1, <2>2 DEF OriginTrue
  <2>. QED
    BY <1>1, <1>2, <2>1, <2>3
<1>3. CASE p # Origin
  <2>1. p \in Peers /\ PeerTrue(st, server[p], net[p], sent[p]) /\ st.total >= DefaultCache
    BY <1>3, SteadyFacts DEF Nodes, Ready
  <2>2. DefaultCache \in Nat /\ DefaultCache > 0
    BY CacheAssumption
  <2>3. st.file # <<>> /\ FileTrue(st)
    BY <1>1, <2>1, <2>2 DEF PeerTrue, Empties
  <2>4. /\ Len(st.file) \in Nat /\ Len(st.file) >= 1 /\ st.file[1].seq \in Nat
        /\ st.block.seq \in Nat /\ st.curSeq \in Nat /\ st.curSeq < Len(Sizes)
        /\ st.curSeq = st.file[1].seq + Len(st.file) - 1
    BY <1>1, <2>3, FileFacts
  <2>5. /\ Len(st.file) = 1 => st.total = st.block.seq
        /\ st.block.seq <= Sizes[st.curSeq + 1]
        /\ st.prevSeq = IF Len(st.file) = 1 THEN 0 ELSE st.curSeq - 1
    BY <2>3 DEF FileTrue
  <2>6. Sizes[st.curSeq + 1] \in Nat /\ Sizes[st.curSeq + 1] < DefaultCache
    BY <2>4, SizesOf DEF Steady
  <2> HIDE DEF st
  <2>7. Len(st.file) # 1
    BY <1>1, <2>1, <2>2, <2>4, <2>5, <2>6
  <2>8. Len(st.file) >= 2 /\ st.prevSeq >= st.file[1].seq /\ st.prevSeq < Len(Sizes)
    <3> DEFINE L == Len(st.file)
               b == st.file[1].seq
               z == Len(Sizes)
    <3>1. /\ L \in Nat /\ L >= 1 /\ L # 1 /\ b \in Nat /\ z \in Nat
          /\ st.curSeq \in Nat /\ st.curSeq < z /\ st.curSeq = b + L - 1
          /\ st.prevSeq = st.curSeq - 1
      BY <1>1, <2>4, <2>5, <2>7
    <3> HIDE DEF L, b, z
    <3>2. L >= 2 /\ st.prevSeq >= b /\ st.prevSeq < z
      BY <3>1
    <3>. QED
      BY <3>2 DEF L, b, z
  <2>9. JoinAt(st).cluster = st.prevSeq
    BY DEF JoinAt
  <2>. QED
    BY <1>1, <2>3, <2>8, <2>9 DEF ServesFrom, st
<1>. QED
  BY <1>2, <1>3

LEMMA JoinSteady ==
    ASSUME SteadyInv, Steady, NEW c \in Peers, Join(c)
    PROVE  Undisturbed'
<1> DEFINE p == Parent[c]
           k == node[p].prevSeq
           q == <<[type |-> "INITIAL_STATUS", cluster |-> k], [type |-> "HEADER"]>>
           at == [cluster |-> k, seq |-> 0]
<1>1. /\ p \in Nodes /\ c \in Nodes /\ Origin \notin Peers /\ Nobody \notin Nodes
      /\ server[c] = Nobody /\ Ready(p)
  BY TreeAssumption DEF Join, Nodes
<1>2. /\ k \in Nat /\ k < Len(Sizes)
      /\ p \in Peers => node[p].file # <<>> /\ ServesFrom(node[p], at)
  BY <1>1, ReadyParent DEF JoinAt
<1>3. /\ net[c] = <<>> /\ node[c].file = <<>>
      /\ PeerTrue(node[c], Nobody, net[c], sent[c])
  BY <1>1, SteadyFacts DEF PeerOK
<1>4. /\ sent' = [sent EXCEPT ![c] = at] /\ server' = [server EXCEPT ![c] = p]
      /\ net' = [net EXCEPT ![c] = q] /\ UNCHANGED <<node, budget>>
  <2>1. <<>> \o q = q
    <3>1. q \in Seq({[type |-> "INITIAL_STATUS", cluster |-> k], [type |-> "HEADER"]})
      OBVIOUS
    <3> HIDE DEF q
    <3>. QED
      BY <3>1
  <2>2. net' = [net EXCEPT ![c] = @ \o q] /\ JoinAt(node[p]) = at
    BY DEF Join, JoinAt
  <2>3. [net EXCEPT ![c] = @ \o q] = [net EXCEPT ![c] = q]
    BY <1>3, <2>1
  <2>. QED
    BY <2>2, <2>3 DEF Join
<1>5. PeerTrue(node[c], p, q, at)
  <2>1. Len(q) = 2 /\ q[1].type # "HEADER" /\ q[1].cluster = k
    OBVIOUS
  <2>2. Upcoming(at) = at
    BY <1>2, SizesOf DEF Upcoming
  <2> HIDE DEF q, k
  <2>3. InTurn(q, 3, at, at)
    BY <2>1, <2>2 DEF InTurn
  <2>. QED
    BY <1>2, <1>3, <2>1, <2>3 DEF PeerTrue
<1>6. /\ net'[c] = q /\ sent'[c] = at /\ server'[c] = p
      /\ \A x \in Peers : x # c => /\ net'[x] = net[x] /\ sent'[x] = sent[x]
                                   /\ server'[x] = server[x]
  <2> HIDE DEF q, at
  <2>. QED
    BY <1>4 DEF SteadyInv, StreamInv, TypeOK
<1> HIDE DEF q, at
<1>7. \A x \in Peers : PeerTrue(node'[x], server'[x], net'[x], sent'[x])
  BY <1>4, <1>5, <1>6 DEF SteadyInv, Undisturbed
<1>8. \A x \in Peers : server'[x] \in Peers => ServesFrom(node'[server'[x]], sent'[x])
  BY <1>2, <1>4, <1>6 DEF SteadyInv, Undisturbed
<1>. QED
  BY <1>4, <1>7, <1>8 DEF SteadyInv, Undisturbed

\* Nobody's server ends.
LEMMA NoReconnect ==
    ASSUME SteadyInv, NEW c \in Peers
    PROVE  ~Reconnect(c)
<1>1. server[c] # Nobody => server[c] \in Nodes
  BY DEF SteadyInv, StreamInv, TypeOK
<1>. QED
  BY <1>1, SteadyFacts DEF Reconnect

\* A step in which a peer reads a packet and sends nothing.
LEMMA PeerReads ==
    ASSUME SteadyInv, NEW n \in Peers, NEW type, Arrived(n, type), NEW st \in NodeStates,
           node' = [node EXCEPT ![n] = st], net' = Taken(n),
           UNCHANGED <<server, sent, budget>>,
           PeerTrue(st, server[n], Taken(n)[n], sent[n]),
           st.file = <<>> => Opens(Taken(n)[n]),
           Len(st.file) >= Len(node[n].file),
           node[n].file # <<>> => st.file[1].seq = node[n].file[1].seq
    PROVE  Undisturbed'
<1>1. /\ Taken(n) \in [Peers -> Seq(Messages)] /\ n \in Nodes /\ n # Origin
      /\ \A x \in Peers : x # n => Taken(n)[x] = net[x]
  BY ArrivedAt, TreeAssumption DEF SteadyInv
<1>2. SendsInTurn(n, st, Taken(n))
  BY DEF SendsInTurn
<1>. QED
  BY <1>1, <1>2, StepSteady

LEMMA InitialStatusSteady ==
    ASSUME SteadyInv, Fresh = {0}, NEW n \in Peers, NodeInitialStatus(n)
    PROVE  Undisturbed'
<1> DEFINE st == node[n]
           q == net[n]
           b == [cluster |-> q[1].cluster, seq |-> 0]
           u == [st EXCEPT !.prevSeq = 0, !.block = b]
<1>1. Arrived(n, "INITIAL_STATUS") /\ StreamInv
  BY DEF NodeInitialStatus, SteadyInv
<1>2. /\ q \in Seq(Messages) /\ q # <<>> /\ q[1] \in Messages /\ q[1] = Head(q)
      /\ q[1].type = "INITIAL_STATUS" /\ st \in NodeStates /\ server[n] # Nobody
      /\ Taken(n)[n] = Tail(q) /\ n \in Nodes /\ Len(q) \in Nat /\ Len(q) > 0
  BY <1>1, ArrivedAt
<1>3. PeerTrue(st, server[n], q, sent[n]) /\ PeerOK(st, server[n], q)
  BY SteadyFacts
<1>4. st.file = <<>>
  BY <1>2, <1>3 DEF PeerOK, Quiet
<1>5. Opens(q)
  BY <1>2, <1>3, <1>4 DEF PeerOK, PeerTrue
<1>6. Opens(Tail(q)) /\ Len(q) >= 2 /\ q[2].type = "HEADER" /\ Tail(q)[1] = q[2]
  <2>1. Len(q) >= 2 /\ q[2].type = "HEADER"
    BY <1>2, <1>5 DEF Opens
  <2>. QED
    BY <1>2, <1>5, <2>1, TailQuiet
<1>7. InTurn(q, 3, b, sent[n]) /\ q[1].cluster < Len(Sizes) /\ Empties(st)
      /\ st.up /\ ~st.stuck
  BY <1>2, <1>3, <1>4 DEF PeerTrue
<1>8. InTurn(Tail(q), 2, b, sent[n])
  BY <1>2, <1>6, <1>7, InTurnTail
<1>9. /\ node' = [node EXCEPT ![n] = u] /\ net' = Taken(n)
      /\ UNCHANGED <<server, sent, budget>>
  BY <1>2 DEF NodeInitialStatus
<1>10. b \in Infos
  <2>1. q[1].cluster \in Nat
    BY <1>2 DEF Messages, Blocks
  <2>. QED
    BY <2>1 DEF Infos
<1> HIDE DEF b
<1>11. /\ u \in NodeStates /\ u.prevSeq = 0 /\ u.block = b /\ u.file = st.file
       /\ u.isFirst = st.isFirst /\ u.latest = st.latest /\ u.total = st.total
       /\ u.up = st.up /\ u.stuck = st.stuck
  BY <1>2, <1>10 DEF NodeStates
<1> HIDE DEF u, st, q
<1>12. b.cluster < Len(Sizes) /\ b.seq = 0
  BY <1>7 DEF b
<1>13. PeerTrue(u, server[n], Tail(q), sent[n])
  <2>1. Empties(u)
    BY <1>7, <1>11 DEF Empties
  <2>. QED
    BY <1>4, <1>6, <1>7, <1>8, <1>11, <1>12, <2>1 DEF PeerTrue
<1>14. Len(u.file) >= Len(st.file)
  BY <1>4, <1>11
<1>. QED
  BY <1>1, <1>2, <1>4, <1>6, <1>9, <1>11, <1>13, <1>14, PeerReads DEF st

LEMMA HeaderSteady ==
    ASSUME SteadyInv, NEW n \in Peers, AssembleHeader(n)
    PROVE  Undisturbed'
<1> DEFINE st == node[n]
           q == net[n]
           c == st.block.cluster
           f == <<Cluster(c, <<>>, 0)>>
           u == [st EXCEPT !.curSeq = c, !.file = f]
<1>1. Arrived(n, "HEADER") /\ StreamInv
  BY DEF AssembleHeader, SteadyInv
<1>2. /\ q \in Seq(Messages) /\ q # <<>> /\ q[1].type = "HEADER" /\ st \in NodeStates
      /\ server[n] # Nobody /\ Taken(n)[n] = Tail(q) /\ Len(q) \in Nat /\ Len(q) > 0
  BY <1>1, ArrivedAt
<1>3. PeerTrue(st, server[n], q, sent[n]) /\ PeerOK(st, server[n], q)
  BY SteadyFacts
<1>4. st.file = <<>>
  BY <1>2, <1>3 DEF PeerOK, Quiet
<1>5. /\ c < Len(Sizes) /\ st.block.seq = 0 /\ InTurn(q, 2, st.block, sent[n])
      /\ Empties(st) /\ st.up /\ ~st.stuck
  BY <1>2, <1>3, <1>4 DEF PeerTrue
<1>6. InTurn(Tail(q), 1, st.block, sent[n])
  BY <1>2, <1>5, InTurnTail
<1>7. c \in Nat /\ Sizes[c + 1] \in Nat
  <2>1. c \in Nat
    BY <1>2 DEF NodeStates, Infos
  <2>. QED
    BY <1>5, <2>1, SizesOf
<1>8. /\ f \in Seq(Clusters) /\ Len(f) = 1 /\ f # <<>> /\ f[1].seq = c
      /\ f[1].data = <<>> /\ Append(<<>>, Cluster(c, <<>>, 0)) = f
  <2>1. Cluster(c, <<>>, 0) \in Clusters
    BY <1>7 DEF Clusters, Cluster
  <2>2. Cluster(c, <<>>, 0).seq = c /\ Cluster(c, <<>>, 0).data = <<>>
    BY DEF Cluster
  <2>. QED
    BY <2>1, <2>2
<1>9. /\ node' = [node EXCEPT ![n] = u] /\ net' = Taken(n)
      /\ UNCHANGED <<server, sent, budget>>
  <2>1. node' = [node EXCEPT ![n] = RenewClusterForWrite(st, c)]
    BY DEF AssembleHeader
  <2>2. RenewClusterForWrite(st, c) = u
    BY <1>4, <1>8 DEF RenewClusterForWrite
  <2>. QED
    BY <2>1, <2>2 DEF AssembleHeader
<1> HIDE DEF f
<1>10. /\ u \in NodeStates /\ u.file = f /\ u.curSeq = c /\ u.prevSeq = st.prevSeq
       /\ u.block = st.block /\ u.isFirst = st.isFirst /\ u.latest = st.latest
       /\ u.total = st.total /\ u.up = st.up /\ u.stuck = st.stuck
  BY <1>2, <1>7, <1>8 DEF NodeStates
<1> HIDE DEF u, q
<1>11. FileTrue(u)
  <2>1. Section(f, c, 0)
    BY <1>5, <1>7, <1>8 DEF Section
  <2> HIDE DEF c
  <2>2. u.curSeq = c + 1 - 1
    BY <1>7, <1>10
  <2>3. Empties(st) /\ st.block.cluster = c
    BY <1>5 DEF c
  <2>4. u.file[1].seq = c /\ Len(u.file) = 1 /\ u.block.seq = 0
    BY <1>5, <1>8, <1>10
  <2>5. u.prevSeq = 0 /\ u.isFirst /\ u.latest = 0 /\ u.total = 0
    BY <1>10, <2>3 DEF Empties
  <2>6. u.block.cluster = c /\ u.curSeq = c /\ 0 <= Sizes[c + 1]
    BY <1>7, <1>10, <2>3
  <2> HIDE DEF st
  <2>7. Section(u.file, u.file[1].seq, u.block.seq)
    BY <1>10, <2>1, <2>4
  <2>8. u.curSeq = u.file[1].seq + Len(u.file) - 1
    BY <2>2, <2>4
  <2>9. u.block.cluster = u.curSeq /\ u.block.seq <= Sizes[u.curSeq + 1]
    BY <2>4, <2>6
  <2>10. ~(Len(u.file) > 1)
    BY <2>4
  <2>. QED
    BY <2>4, <2>5, <2>7, <2>8, <2>9, <2>10 DEF FileTrue
<1>12. PeerTrue(u, server[n], Tail(q), sent[n])
  BY <1>5, <1>6, <1>8, <1>10, <1>11 DEF PeerTrue
<1>13. Len(u.file) >= Len(st.file) /\ u.file # <<>>
  BY <1>4, <1>8, <1>10
<1>. QED
  BY <1>1, <1>2, <1>4, <1>9, <1>10, <1>12, <1>13, PeerReads

\* A block that arrives at a peer is the next one, and is not old to it.
LEMMA BlockSteady ==
    ASSUME SteadyInv, NEW n \in Peers, AssembleBlock(n)
    PROVE  Undisturbed'
<1> DEFINE st == node[n]
           q == net[n]
           m == q[1]
           u == Assembled(st, m)
<1>1. Arrived(n, "BLOCK") /\ StreamInv /\ UNCHANGED <<server, budget>>
  BY DEF AssembleBlock, SteadyInv
<1>2. /\ q \in Seq(Messages) /\ q # <<>> /\ m.type = "BLOCK" /\ st \in NodeStates
      /\ m = Head(q) /\ server[n] # Nobody /\ Taken(n)[n] = Tail(q)
      /\ Taken(n) \in [Peers -> Seq(Messages)] /\ n \in Nodes /\ n # Origin
      /\ \A x \in Peers : x # n => Taken(n)[x] = net[x]
  BY <1>1, ArrivedAt, TreeAssumption
<1>3. /\ PeerTrue(st, server[n], q, sent[n]) /\ PeerOK(st, server[n], q)
      /\ st.up /\ ~st.stuck
  BY <1>2, SteadyFacts
<1>4. st.file # <<>>
  <2>1. ~Opens(q)
    BY <1>2 DEF Opens
  <2>. QED
    BY <1>2, <1>3, <2>1 DEF PeerOK
<1>5. FileTrue(st) /\ InTurn(q, 1, st.block, sent[n])
  BY <1>2, <1>3, <1>4 DEF PeerTrue
<1>6. IsBlockAt(m, Upcoming(st.block)) /\ InTurn(Tail(q), 1, At(m), sent[n])
  BY <1>2, <1>5, InTurnTaken
<1>7. m \in Blocks
  BY <1>6 DEF IsBlockAt
<1> HIDE DEF m
<1>8. ~IsOldBlockSeq(st, m)
  BY <1>2, <1>4, <1>5, <1>6, NextIsNew
<1>9. /\ FileTrue(u) /\ u.file # <<>> /\ u.file[1].seq = st.file[1].seq
      /\ Len(u.file) >= Len(st.file)
  BY <1>2, <1>4, <1>5, <1>6, AssembledTrue
<1>10. /\ u \in NodeStates /\ u.block = At(m) /\ u.up /\ ~u.stuck
       /\ u.playing = st.playing
  BY <1>2, <1>3, <1>4, <1>7, AssembledState
<1>11. \/ SendMulStream(n, u, Taken(n))
       \/ node' = [node EXCEPT ![n] = u] /\ net' = Taken(n) /\ UNCHANGED sent
  <2> HIDE DEF u, st
  <2>. QED
    BY <1>2, <1>8 DEF AssembleBlock, u, st
<1> HIDE DEF u, q
<1>12. PeerTrue(u, server[n], Tail(q), sent[n])
  BY <1>6, <1>9, <1>10 DEF PeerTrue
<1>13. \A c \in Peers : server[c] = n =>
         /\ Legal(sent[c])
         /\ n # Origin => FileTrue(u) /\ ServesFrom(u, sent[c])
  <2> SUFFICES ASSUME NEW c \in Peers, server[c] = n
               PROVE  Legal(sent[c]) /\ FileTrue(u) /\ ServesFrom(u, sent[c])
    OBVIOUS
  <2>1. server[c] # Nobody /\ server[c] \in Peers
    BY <1>2, TreeAssumption
  <2>2. Legal(sent[c]) /\ ServesFrom(st, sent[c])
    BY <2>1, SteadyFacts
  <2>3. st.file \in Seq(Clusters) /\ u.file \in Seq(Clusters)
    BY <1>2, <1>10 DEF NodeStates
  <2>4. Len(st.file) \in Nat /\ Len(u.file) \in Nat
    BY <2>3
  <2>. QED
    BY <1>9, <2>2, <2>4 DEF ServesFrom
<1>14. SendsInTurn(n, u, Taken(n))
  <2>1. CASE SendMulStream(n, u, Taken(n))
    <3>1. TypeOK /\ \A c \in Peers : node[c].up
      BY SteadyFacts DEF Nodes
    <3> HIDE DEF st
    <3>. QED
      BY <1>2, <1>10, <1>13, <2>1, <3>1, SendSteady
  <2>2. CASE node' = [node EXCEPT ![n] = u] /\ net' = Taken(n) /\ UNCHANGED sent
    BY <2>2 DEF SendsInTurn
  <2>. QED
    BY <1>11, <2>1, <2>2
<1>. QED
  BY <1>1, <1>2, <1>9, <1>10, <1>12, <1>14, StepSteady

\* Nobody sends END.
LEMMA NoEnd ==
    ASSUME SteadyInv, NEW n \in Peers
    PROVE  ~AssembleEnd(n)
<1> SUFFICES ASSUME AssembleEnd(n) PROVE FALSE
  OBVIOUS
<1> DEFINE st == node[n]
           q == net[n]
<1>1. Arrived(n, "END") /\ StreamInv
  BY DEF AssembleEnd, SteadyInv
<1>2. /\ q \in Seq(Messages) /\ q # <<>> /\ q[1].type = "END" /\ server[n] # Nobody
      /\ Len(q) \in Nat /\ Len(q) > 0 /\ st.up
  BY <1>1, ArrivedAt
<1>3. PeerTrue(st, server[n], q, sent[n]) /\ PeerOK(st, server[n], q)
  BY SteadyFacts
<1>4. st.file # <<>>
  <2>1. ~Opens(q)
    BY <1>2 DEF Opens
  <2>. QED
    BY <1>2, <1>3, <2>1 DEF PeerOK
<1>5. InTurn(q, 1, st.block, sent[n])
  BY <1>2, <1>3, <1>4 DEF PeerTrue
<1>6. 1 \in 1..Len(q)
  BY <1>2
<1>. QED
  BY <1>2, <1>5, <1>6 DEF InTurn

\* Every first block of a cluster begins with its Timecode.
LEMMA NoExit ==
    ASSUME SteadyInv, NEW n \in Peers
    PROVE  ~ChangeTimecode(n)
<1> SUFFICES ASSUME ChangeTimecode(n) PROVE FALSE
  OBVIOUS
<1> DEFINE st == node[n]
           q == net[n]
           m == q[1]
<1>1. Arrived(n, "BLOCK") /\ StreamInv /\ FALSE \in TimecodeOutcomes(st, Head(q))
  BY DEF ChangeTimecode, SteadyInv
<1>2. /\ q \in Seq(Messages) /\ q # <<>> /\ m.type = "BLOCK" /\ st \in NodeStates
      /\ m = Head(q) /\ server[n] # Nobody
  BY <1>1, ArrivedAt
<1>3. PeerTrue(st, server[n], q, sent[n]) /\ PeerOK(st, server[n], q)
  BY SteadyFacts
<1>4. st.file # <<>>
  <2>1. ~Opens(q)
    BY <1>2 DEF Opens
  <2>. QED
    BY <1>2, <1>3, <2>1 DEF PeerOK
<1>5. FileTrue(st) /\ InTurn(q, 1, st.block, sent[n])
  BY <1>2, <1>3, <1>4 DEF PeerTrue
<1>6. IsBlockAt(m, Upcoming(st.block))
  BY <1>2, <1>5, InTurnTaken
<1>7. m.data = <<m.cluster, m.seq>>
  BY <1>6 DEF IsBlockAt
<1> HIDE DEF m
<1>8. m.data \notin {Empty, Junk} /\ m.data[2] = m.seq
  BY <1>7 DEF Empty, Junk
<1>9. m.seq = 1 => HasTimecode(m.data) = {TRUE}
  BY <1>8 DEF HasTimecode
<1>. QED
  BY <1>1, <1>2, <1>9 DEF TimecodeOutcomes

LEMMA PlaySteady ==
    ASSUME SteadyInv, NEW n \in Peers, StartPlaying(n)
    PROVE  Undisturbed'
<1> DEFINE st == node[n]
           u == [st EXCEPT !.playing = TRUE]
<1>1. /\ n \in Nodes /\ n # Origin /\ st \in NodeStates
      /\ PeerTrue(st, server[n], net[n], sent[n]) /\ PeerOK(st, server[n], net[n])
      /\ net \in [Peers -> Seq(Messages)]
  BY SteadyFacts, TreeAssumption DEF Nodes, TypeOK
<1>2. node' = [node EXCEPT ![n] = u] /\ UNCHANGED <<server, sent, net, budget>>
  BY DEF StartPlaying
<1>3. /\ u \in NodeStates /\ u.file = st.file /\ u.block = st.block
      /\ u.prevSeq = st.prevSeq /\ u.curSeq = st.curSeq /\ u.isFirst = st.isFirst
      /\ u.first = st.first /\ u.latest = st.latest /\ u.total = st.total
      /\ u.up = st.up /\ u.stuck = st.stuck
  BY <1>1 DEF NodeStates
<1> HIDE DEF u
<1>4. PeerTrue(u, server[n], net[n], sent[n])
  <2>1. Empties(st) => Empties(u)
    BY <1>3 DEF Empties
  <2>2. FileTrue(st) => FileTrue(u)
    BY <1>3 DEF FileTrue
  <2> HIDE DEF st
  <2>. QED
    BY <1>1, <1>3, <2>1, <2>2 DEF PeerTrue
<1>5. u.file = <<>> /\ server[n] # Nobody => Opens(net[n])
  BY <1>1, <1>3 DEF PeerOK, PeerTrue
<1>6. Len(u.file) >= Len(st.file)
  <2>1. st.file \in Seq(Clusters)
    BY <1>1 DEF NodeStates
  <2>. QED
    BY <1>3, <2>1
<1>7. SendsInTurn(n, u, net)
  BY <1>2 DEF SendsInTurn
<1>. QED
  BY <1>1, <1>2, <1>3, <1>4, <1>5, <1>6, <1>7, StepSteady

LEMMA SteadyNext ==
    ASSUME Steady
    PROVE  SteadyInv /\ [Next]_vars => SteadyInv'
<1> SUFFICES ASSUME SteadyInv, [Next]_vars PROVE SteadyInv'
  OBVIOUS
<1>1. StreamInv'
  BY StreamNext DEF SteadyInv
<1>2. Faults = 0 /\ Fresh = {0}
  BY DEF Steady
<1>3. ~SignalHandler /\ \A n \in Peers : ~Interrupt(n)
  BY <1>2, NoFault DEF SignalHandler, Interrupt
<1>4. \A n \in Peers : ~Lose(n) /\ ~Duplicate(n) /\ ~Reorder(n)
  BY <1>2, NoFault DEF Lose, Duplicate, Reorder
<1>5. ASSUME Next PROVE Undisturbed'
  BY <1>2, <1>3, <1>4, <1>5, RecordSteady, ReadSteady, StreamSteady, JoinSteady, NoReconnect,
     InitialStatusSteady, HeaderSteady, BlockSteady, NoEnd, NoExit, PlaySteady
     DEF Next, Receive
<1>6. ASSUME UNCHANGED vars PROVE Undisturbed'
  BY <1>6 DEF vars, SteadyInv, Undisturbed
<1>. QED
  BY <1>1, <1>5, <1>6 DEF SteadyInv

LEMMA SteadyAlways ==
    ASSUME Steady
    PROVE  Spec => []SteadyInv
<1>1. Init => SteadyInv
  BY SteadyInit
<1>2. SteadyInv /\ [Next]_vars => SteadyInv'
  BY SteadyNext
<1>. QED
  BY <1>1, <1>2, PTL DEF Spec

\* The j-th cluster in the file of a peer, and what the recorder wrote there.
LEMMA PeerCluster ==
    ASSUME SteadyInv, NEW n \in Peers, NEW j \in 1..Len(node[n].file)
    PROVE  LET file == node[n].file
               d == file[j].data
               whole == Recorded[file[j].seq + 1].data
           IN  /\ file \in Seq(Clusters) /\ Len(file) \in Nat /\ DOMAIN file = 1..Len(file)
               /\ file[1].seq \in Nat /\ file[j].seq = file[1].seq + j - 1
               /\ d \in Seq(Data) /\ whole \in Seq(Data) /\ Len(d) <= Len(whole)
               /\ j < Len(file) => Len(d) = Len(whole)
               /\ \A i \in 1..Len(d) : d[i] = <<file[j].seq, i>> /\ whole[i] = d[i]
<1> DEFINE st == node[n]
           d == st.file[j].data
           c == st.file[j].seq
           whole == Recorded[c + 1].data
<1>1. /\ st \in NodeStates /\ PeerTrue(st, server[n], net[n], sent[n])
      /\ st.file \in Seq(Clusters) /\ Len(st.file) \in Nat /\ DOMAIN st.file = 1..Len(st.file)
  <2>1. st \in NodeStates /\ PeerTrue(st, server[n], net[n], sent[n])
    BY SteadyFacts DEF Nodes
  <2>2. st.file \in Seq(Clusters)
    BY <2>1 DEF NodeStates
  <2>. QED
    BY <2>1, <2>2
<1>2. st.file # <<>>
  BY <1>1
<1>3. FileTrue(st)
  BY <1>1, <1>2 DEF PeerTrue
<1>4. /\ st.file[1].seq \in Nat /\ st.block.seq \in Nat /\ st.curSeq \in Nat
      /\ st.curSeq = st.file[1].seq + Len(st.file) - 1
      /\ Section(st.file, st.file[1].seq, st.block.seq)
  BY <1>1, <1>2, <1>3, FileFacts
<1>5. st.block.seq <= Sizes[st.curSeq + 1]
  BY <1>3 DEF FileTrue
<1>6. /\ c = st.file[1].seq + j - 1 /\ c < Len(Sizes)
      /\ Len(d) = IF j = Len(st.file) THEN st.block.seq ELSE Sizes[c + 1]
      /\ \A i \in 1..Len(d) : d[i] = <<c, i>>
  BY <1>4 DEF Section
<1>7. c \in Nat /\ d \in Seq(Data)
  <2>1. st.file[j] \in Clusters
    BY <1>1
  <2>. QED
    BY <2>1 DEF Clusters
<1>8. /\ c + 1 \in 1..Len(Sizes) /\ Sizes[c + 1] \in Nat /\ Len(whole) = Sizes[c + 1]
      /\ \A i \in 1..Sizes[c + 1] : whole[i] = <<c, i>>
  BY <1>6, <1>7, SizesOf, RecordedCluster
<1>9. whole \in Seq(Data)
  <2>1. Recorded[c + 1] \in Clusters
    <3>1. c + 1 \in 1..Len(Recorded)
      BY <1>8, RecordedFile
    <3>. QED
      BY <3>1, RecordedFile
  <2>. QED
    BY <2>1 DEF Clusters
<1>10. Len(d) <= Sizes[c + 1] /\ (j < Len(st.file) => Len(d) = Sizes[c + 1])
  <2>1. j = Len(st.file) => c = st.curSeq
    BY <1>4, <1>6
  <2> HIDE DEF c, d, st
  <2>. QED
    BY <1>1, <1>5, <1>6, <1>8, <2>1
<1> HIDE DEF c, d, whole
<1>11. \A i \in 1..Len(d) : d[i] = <<c, i>> /\ whole[i] = d[i]
  <2>1. Len(d) \in Nat
    BY <1>7
  <2>2. \A i \in 1..Len(d) : i \in 1..Sizes[c + 1]
    BY <1>8, <1>10, <2>1
  <2>. QED
    BY <1>6, <1>8, <2>2
<1>12. Len(d) <= Len(whole) /\ (j < Len(st.file) => Len(d) = Len(whole))
  BY <1>8, <1>10
<1>. QED
  BY <1>1, <1>4, <1>6, <1>7, <1>9, <1>11, <1>12, Zenon DEF c, d, whole

\* SendsFromFile: when nothing fails, whatever the tree and the sizes, no node
\* looks for a block that its file does not hold, and CalOffset never counts
\* from before the first cluster.
THEOREM SteadySends ==
    ASSUME Steady
    PROVE  Spec => []SendsFromFile
<1>1. SteadyInv => SendsFromFile
  <2> SUFFICES ASSUME SteadyInv PROVE SendsFromFile
    OBVIOUS
  <2>1. \A n \in Nodes : ~node[n].stuck
    BY SteadyFacts
  <2>2. ASSUME NEW c \in Peers, NEW k \in DOMAIN net[c], net[c][k].type = "BLOCK"
        PROVE  net[c][k].data # Junk
    <3> DEFINE q == net[c]
               st == node[c]
    <3>1. /\ q \in Seq(Messages) /\ PeerTrue(st, server[c], q, sent[c])
          /\ PeerOK(st, server[c], q) /\ Len(q) \in Nat
      BY SteadyFacts DEF TypeOK
    <3>2. k \in 1..Len(q) /\ q # <<>>
      BY <3>1
    <3>3. server[c] # Nobody /\ st.up
      BY <3>1, <3>2 DEF PeerOK, PeerTrue
    <3>4. q[k].data = <<q[k].cluster, q[k].seq>>
      <4>1. CASE st.file # <<>>
        <5>1. InTurn(q, 1, st.block, sent[c])
          BY <3>1, <3>3, <4>1 DEF PeerTrue
        <5>. QED
          BY <3>2, <5>1 DEF InTurn
      <4>2. CASE st.file = <<>> /\ q[1].type = "HEADER"
        <5>1. InTurn(q, 2, st.block, sent[c])
          BY <3>1, <3>3, <4>2 DEF PeerTrue
        <5>2. k # 1
          BY <2>2, <4>2
        <5>3. k \in 2..Len(q)
          BY <3>1, <3>2, <5>2
        <5>. QED
          BY <5>1, <5>3 DEF InTurn
      <4>3. CASE st.file = <<>> /\ q[1].type # "HEADER"
        <5>1. InTurn(q, 3, [cluster |-> q[1].cluster, seq |-> 0], sent[c])
          BY <3>1, <3>3, <4>3 DEF PeerTrue
        <5>2. Opens(q)
          BY <3>1, <3>3, <4>3 DEF PeerOK
        <5>3. k # 1 /\ k # 2
          BY <2>2, <4>3, <5>2 DEF Opens
        <5>4. k \in 3..Len(q)
          BY <3>1, <3>2, <5>3
        <5>. QED
          BY <5>1, <5>4 DEF InTurn
      <4>. QED
        BY <4>1, <4>2, <4>3
    <3>. QED
      BY <3>4 DEF Junk
  <2>. QED
    BY <2>1, <2>2 DEF SendsFromFile
<1>. QED
  BY <1>1, SteadyAlways, PTL

\* FilesAgree: when nothing fails, whatever the tree and the sizes and however
\* the nodes take turns, the file of a peer is the origin's from the cluster it
\* started with, and only the cluster being written is not whole.
THEOREM SteadyFiles ==
    ASSUME Steady
    PROVE  Spec => []FilesAgree
<1>1. SteadyInv => FilesAgree
  <2> SUFFICES ASSUME SteadyInv, NEW n \in Peers
               PROVE  LET file == node[n].file
                          whole(j) == Recorded[file[j].seq + 1].data
                      IN  /\ \A j \in DOMAIN file :
                               /\ file[j].seq = file[1].seq + j - 1
                               /\ IsPrefix(file[j].data, whole(j))
                          /\ Cardinality({j \in 1..(Len(file) - 1) : file[j].data # whole(j)})
                               <= Cardinality({m \in Nodes : ~node[m].up})
    BY DEF FilesAgree
  <2> DEFINE file == node[n].file
             whole(j) == Recorded[file[j].seq + 1].data
  <2>1. Len(file) \in Nat /\ DOMAIN file = 1..Len(file)
    <3>1. node[n] \in NodeStates
      BY SteadyFacts DEF Nodes
    <3>2. file \in Seq(Clusters)
      BY <3>1 DEF NodeStates
    <3>. QED
      BY <3>2
  <2>2. ASSUME NEW j \in 1..Len(file)
        PROVE  /\ file[j].seq = file[1].seq + j - 1
               /\ IsPrefix(file[j].data, whole(j))
               /\ j < Len(file) => file[j].data = whole(j)
    <3> DEFINE d == file[j].data
               w == whole(j)
    <3>1. /\ file[j].seq = file[1].seq + j - 1 /\ d \in Seq(Data) /\ w \in Seq(Data)
          /\ Len(d) <= Len(w) /\ \A i \in 1..Len(d) : w[i] = d[i]
          /\ j < Len(file) => Len(d) = Len(w)
      BY PeerCluster
    <3> HIDE DEF d, w
    <3>2. SubSeq(d, 1, Len(d)) = SubSeq(w, 1, Len(d))
      BY <3>1
    <3>3. Len(d) = Len(w) => d = w
      BY <3>1
    <3>. QED
      BY <3>1, <3>2, <3>3 DEF IsPrefix, d, w
  <2>3. {j \in 1..(Len(file) - 1) : file[j].data # whole(j)} = {}
    <3>1. \A j \in 1..(Len(file) - 1) : j \in 1..Len(file) /\ j < Len(file)
      BY <2>1
    <3>. QED
      BY <2>2, <3>1
  <2>4. {m \in Nodes : ~node[m].up} = {}
    BY SteadyFacts
  <2>5. Cardinality({}) <= Cardinality({})
    BY FS_EmptySet
  <2>. QED
    BY <2>1, <2>2, <2>3, <2>4, <2>5
<1>. QED
  BY <1>1, SteadyAlways, PTL

-----------------------------------------------------------------------------
(* Whatever is lost and whoever ends: the blocks in the file of a peer that *)
(* has kept its server are in the origin's order.                           *)

\* The blocks in a file, where in q there are blocks, and all the blocks that
\* have been sent to a peer and not been lost.
Written(file) ==
    {d \in Data \ {Junk} : \E j \in 1..Len(file) : \E a \in 1..Len(file[j].data) :
                              file[j].data[a] = d}
Coming(q) == {k \in 1..Len(q) : q[k].type = "BLOCK" /\ q[k].data \notin {Empty, Junk}}
Out(file, q) == Written(file) \cup {q[k].data : k \in Coming(q)}

\* What is under way comes after what is written, and in order.
InLine(file, q) ==
    /\ \A d \in Written(file), k \in Coming(q) : Before(d, q[k].data)
    /\ \A i, k \in Coming(q) : i < k => Before(q[i].data, q[k].data)

\* The file of st holds d before the place of the block that comes after info.
Behind(st, info, d) ==
    \E j \in 1..Len(st.file) : \E a \in 1..Len(st.file[j].data) :
        /\ st.file[j].data[a] = d
        /\ Before(<<j, a>>, <<info.cluster - st.first + 1, info.seq + 1>>)

\* Every file is in order, a peer that serves has its FIRST_CLUSTER_SEQ, and
\* what a peer was sent lies in the file of its server, before what it is to
\* be sent.
Orderly ==
    /\ node[Origin].first = 0
    /\ \A j \in 1..Len(node[Origin].file) : node[Origin].file[j] = Recorded[j]
    /\ \A n \in Nodes : Sorted(node[n].file)
    /\ \A n \in Peers : node[n].total > 0 => ~node[n].isFirst
    /\ \A c \in Peers : InLine(node[c].file, net[c])
    /\ \A c \in Peers : server[c] # Nobody =>
         \A d \in Out(node[c].file, net[c]) : Behind(node[server[c]], sent[c], d)
    /\ \A c \in Peers : server[c] \in Peers => ~node[server[c]].isFirst

\* A peer has left the server it joined only over its end.
Gone == \A c \in Peers : server[c] \in {Nobody, Parent[c]} \/ ~node[Parent[c]].up

OrderInv ==
    /\ StreamInv
    /\ \A k \in {"loss", "dup", "reorder", "sigint"} : budget[k] <= Budget[k]
    /\ Gone
    /\ ~Spent({"dup", "reorder"}) /\ InPlace => Orderly

\* What is gone stays gone.
Fewer == \A n \in Nodes : node'[n].up => node[n].up

LEMMA FileShape ==
    ASSUME NEW f \in Seq(Clusters)
    PROVE  /\ Len(f) \in Nat
           /\ \A j \in 1..Len(f) : /\ f[j].data \in Seq(Data) /\ Len(f[j].data) \in Nat
                                   /\ \A a \in 1..Len(f[j].data) : f[j].data[a] \in Data
<1>1. \A j \in 1..Len(f) : f[j] \in Clusters
  OBVIOUS
<1>2. \A j \in 1..Len(f) : f[j].data \in Seq(Data)
  BY <1>1 DEF Clusters
<1>. QED
  BY <1>2

LEMMA WrittenAt ==
    ASSUME NEW f \in Seq(Clusters), NEW j \in 1..Len(f), NEW a \in 1..Len(f[j].data),
           f[j].data[a] # Junk
    PROVE  f[j].data[a] \in Written(f)
  BY FileShape DEF Written

\* A file is written at its end.
Grows(f, g) ==
    /\ Len(f) <= Len(g)
    /\ \A j \in 1..Len(f) :
         /\ Len(f[j].data) <= Len(g[j].data)
         /\ \A a \in 1..Len(f[j].data) : g[j].data[a] = f[j].data[a]

\* And by at most one block, which is one of D.
GrowsBy(f, g, D) ==
    /\ Grows(f, g)
    /\ \A j \in 1..Len(g) : \A a \in 1..Len(g[j].data) :
         \/ j <= Len(f) /\ a <= Len(f[j].data)
         \/ j = Len(g) /\ a = Len(g[j].data) /\ g[j].data[a] \in D

LEMMA SortedGrows ==
    ASSUME NEW f \in Seq(Clusters), NEW g \in Seq(Clusters), NEW D, GrowsBy(f, g, D),
           Sorted(f), \A d \in Written(f), e \in D \ {Junk} : Before(d, e)
    PROVE  Sorted(g) /\ Written(g) \subseteq Written(f) \cup (D \ {Junk})
<1>1. /\ Len(f) \in Nat /\ Len(g) \in Nat /\ Len(f) <= Len(g)
      /\ \A j \in 1..Len(f) : Len(f[j].data) \in Nat
      /\ \A j \in 1..Len(g) : Len(g[j].data) \in Nat
  BY FileShape DEF GrowsBy, Grows
<1>2. ASSUME NEW j \in 1..Len(g), NEW a \in 1..Len(g[j].data), g[j].data[a] # Junk
      PROVE  \/ /\ j \in 1..Len(f) /\ a \in 1..Len(f[j].data)
                /\ g[j].data[a] = f[j].data[a] /\ g[j].data[a] \in Written(f)
             \/ /\ j = Len(g) /\ a = Len(g[j].data) /\ g[j].data[a] \in D \ {Junk}
  <2>1. CASE j <= Len(f) /\ a <= Len(f[j].data)
    <3>1. j \in 1..Len(f) /\ a \in 1..Len(f[j].data)
      BY <1>1, <2>1
    <3>2. g[j].data[a] = f[j].data[a]
      BY <3>1 DEF GrowsBy, Grows
    <3>. QED
      BY <1>2, <3>1, <3>2, WrittenAt
  <2>2. CASE ~(j <= Len(f) /\ a <= Len(f[j].data))
    BY <1>2, <2>2 DEF GrowsBy
  <2>. QED
    BY <2>1, <2>2
<1>3. ASSUME NEW j \in 1..Len(g), NEW k \in 1..Len(g),
             NEW a \in 1..Len(g[j].data), NEW b \in 1..Len(g[k].data),
             Before(<<j, a>>, <<k, b>>), g[j].data[a] # Junk, g[k].data[b] # Junk
      PROVE  Before(g[j].data[a], g[k].data[b])
  <2>1. j < k \/ (j = k /\ a < b)
    BY <1>3 DEF Before
  <2>2. CASE ~(k \in 1..Len(f) /\ b \in 1..Len(f[k].data))
    <3>1. k = Len(g) /\ b = Len(g[k].data) /\ g[k].data[b] \in D \ {Junk}
      BY <1>2, <1>3, <2>2
    <3>2. ~(j = Len(g) /\ a = Len(g[j].data))
      BY <1>1, <2>1, <3>1
    <3>3. g[j].data[a] \in Written(f)
      BY <1>2, <1>3, <3>2
    <3>. QED
      BY <3>1, <3>3
  <2>3. CASE k \in 1..Len(f) /\ b \in 1..Len(f[k].data)
    <3>1. Len(f[k].data) <= Len(g[k].data)
      BY <2>3 DEF GrowsBy, Grows
    <3>2. ~(j = Len(g) /\ a = Len(g[j].data)) \/ (j \in 1..Len(f) /\ a \in 1..Len(f[j].data))
      <4>1. CASE j < k
        BY <1>1, <2>3, <4>1
      <4>2. CASE j = k /\ a < b
        BY <1>1, <2>3, <3>1, <4>2
      <4>. QED
        BY <2>1, <4>1, <4>2
    <3>3. j \in 1..Len(f) /\ a \in 1..Len(f[j].data) /\ g[j].data[a] = f[j].data[a]
      <4>1. j \in 1..Len(f) /\ a \in 1..Len(f[j].data)
        BY <1>2, <1>3, <3>2
      <4>. QED
        BY <4>1 DEF GrowsBy, Grows
    <3>4. g[k].data[b] = f[k].data[b]
      BY <2>3 DEF GrowsBy, Grows
    <3>. QED
      BY <1>3, <2>3, <3>3, <3>4 DEF Sorted
  <2>. QED
    BY <2>2, <2>3
<1>4. Sorted(g)
  BY <1>3 DEF Sorted
<1>5. Written(g) \subseteq Written(f) \cup (D \ {Junk})
  <2> SUFFICES ASSUME NEW d \in Written(g) PROVE d \in Written(f) \cup (D \ {Junk})
    OBVIOUS
  <2>1. PICK j \in 1..Len(g) : \E a \in 1..Len(g[j].data) : g[j].data[a] = d
    BY DEF Written
  <2>2. PICK a \in 1..Len(g[j].data) : g[j].data[a] = d
    BY <2>1
  <2>3. d # Junk
    BY DEF Written
  <2>. QED
    BY <1>2, <2>2, <2>3
<1>. QED
  BY <1>4, <1>5

LEMMA AppendGrows ==
    ASSUME NEW f \in Seq(Clusters), NEW h \in Seq(Clusters), NEW x \in Clusters,
           Len(h) = Len(f), \A j \in 1..Len(f) : h[j].data = f[j].data,
           Len(x.data) <= 1, NEW D, Len(x.data) = 1 => x.data[1] \in D
    PROVE  GrowsBy(f, Append(h, x), D)
<1> DEFINE g == Append(h, x)
           L == Len(f)
<1>1. /\ L \in Nat /\ Len(g) = L + 1 /\ g[L + 1] = x /\ \A j \in 1..L : g[j] = h[j]
  OBVIOUS
<1>2. Len(x.data) \in Nat
  BY DEF Clusters
<1>3. \A j \in 1..L : Len(f[j].data) \in Nat
  BY FileShape
<1> HIDE DEF g
<1>4. \A j \in 1..L : g[j].data = f[j].data
  BY <1>1
<1>5. Grows(f, g)
  BY <1>1, <1>3, <1>4 DEF Grows
<1>6. ASSUME NEW j \in 1..Len(g), NEW a \in 1..Len(g[j].data)
      PROVE  \/ j <= Len(f) /\ a <= Len(f[j].data)
             \/ j = Len(g) /\ a = Len(g[j].data) /\ g[j].data[a] \in D
  <2>1. j \in 1..L \/ j = L + 1
    BY <1>1
  <2>2. CASE j \in 1..L
    BY <1>3, <1>4, <2>2
  <2>3. CASE j = L + 1
    <3> DEFINE n == Len(x.data)
    <3>1. a \in 1..n /\ n \in Nat /\ n <= 1
      BY <1>1, <1>2, <2>3
    <3> HIDE DEF n
    <3>2. a = 1 /\ n = 1
      BY <3>1
    <3>. QED
      BY <1>1, <2>3, <3>2 DEF n
  <2>. QED
    BY <2>1, <2>2, <2>3
<1>. QED
  BY <1>5, <1>6 DEF GrowsBy, g

\* The file with one more block grows by it, unless it is one of no bytes.
LEMMA FileWithGrows ==
    ASSUME NEW st \in NodeStates, NEW m \in Blocks, st.file # <<>>
    PROVE  GrowsBy(st.file, FileWith(st, m), {m.data} \ {Empty})
<1> DEFINE f == st.file
           h == Closed(st)
           d == Bytes(m)
           D == {m.data} \ {Empty}
           L == Len(f)
<1>1. f \in Seq(Clusters) /\ L \in Nat /\ L >= 1 /\ \A j \in 1..L : Len(f[j].data) \in Nat
  <2>1. f \in Seq(Clusters)
    BY DEF NodeStates
  <2>. QED
    BY <2>1, FileShape
<1>2. h \in Seq(Clusters) /\ Len(h) = L /\ \A j \in 1..L : h[j].data = f[j].data
  BY ClosedSame
<1>3. d \in Seq(Data) /\ Len(d) \in {0, 1} /\ (Len(d) = 1 => d[1] \in D)
  <2>1. d \in Seq(Data) /\ Len(d) \in {0, 1}
    BY BytesOf
  <2>2. Len(d) = 1 => d[1] \in D
    BY DEF Bytes
  <2>. QED
    BY <2>1, <2>2
<1> HIDE DEF h, d, D
<1>4. CASE st.block.cluster # m.cluster
  <2> DEFINE x == Cluster(m.cluster, d, 0)
  <2>1. x \in Clusters /\ x.data = d
    BY <1>3 DEF Cluster, Clusters, Blocks
  <2>2. Len(x.data) <= 1 /\ (Len(x.data) = 1 => x.data[1] \in D)
    <3> HIDE DEF x
    <3>1. Len(d) <= 1
      BY <1>3
    <3>. QED
      BY <1>3, <2>1, <3>1
  <2>3. FileWith(st, m) = Append(h, x)
    BY <1>4 DEF FileWith, h, d
  <2> HIDE DEF x, f
  <2>4. GrowsBy(f, Append(h, x), D)
    BY <1>1, <1>2, <2>1, <2>2, AppendGrows
  <2>. QED
    BY <2>3, <2>4 DEF f, D
<1>5. CASE st.block.cluster = m.cluster
  <2> DEFINE y == Longer(h[L], d)
             g == [h EXCEPT ![L] = y]
  <2>1. FileWith(st, m) = g
    BY <1>5 DEF FileWith, h, d
  <2>2. L \in 1..L /\ h[L] \in Clusters
    BY <1>1, <1>2
  <2>3. y \in Clusters /\ y.data = h[L].data \o d
    BY <1>3, <2>2, LongerCluster
  <2>4. /\ Len(g) = L /\ g[L] = y /\ \A j \in 1..L : j # L => g[j] = h[j]
    <3> HIDE DEF y
    <3>. QED
      BY <1>2, <2>2
  <2> DEFINE e == f[L].data
  <2>5. e \in Seq(Data) /\ Len(e) \in Nat
    BY <1>1, <2>2, FileShape
  <2>6. y.data = e \o d
    BY <1>2, <2>2, <2>3
  <2> HIDE DEF y, g
  <2>7. /\ Len(y.data) = Len(e) + Len(d) /\ \A a \in 1..Len(e) : y.data[a] = e[a]
        /\ Len(d) = 1 => y.data[Len(e) + 1] = d[1]
    <3> HIDE DEF e
    <3>. QED
      BY <1>3, <2>5, <2>6, ConcatProperties
  <2>8. Grows(f, g)
    <3>1. Len(f) <= Len(g)
      BY <1>1, <2>4
    <3>2. ASSUME NEW j \in 1..L
          PROVE  /\ Len(f[j].data) <= Len(g[j].data)
                 /\ \A a \in 1..Len(f[j].data) : g[j].data[a] = f[j].data[a]
      <4>1. CASE j = L
        <5>1. g[j].data = y.data /\ f[j].data = e
          BY <2>4, <4>1
        <5> HIDE DEF e
        <5>. QED
          BY <1>3, <2>5, <2>7, <5>1
      <4>2. CASE j # L
        BY <1>1, <1>2, <2>4, <4>2
      <4>. QED
        BY <4>1, <4>2
    <3>. QED
      BY <3>1, <3>2 DEF Grows
  <2>9. ASSUME NEW j \in 1..Len(g), NEW a \in 1..Len(g[j].data)
        PROVE  \/ j <= Len(f) /\ a <= Len(f[j].data)
               \/ j = Len(g) /\ a = Len(g[j].data) /\ g[j].data[a] \in D
    <3>1. CASE j # L
      <4>1. g[j].data = f[j].data /\ j \in 1..L
        BY <1>2, <2>4, <3>1
      <4>. QED
        BY <1>1, <4>1
    <3>2. CASE j = L
      <4>1. g[j].data = y.data /\ f[j].data = e
        BY <2>4, <3>2
      <4>2. a <= Len(e) \/ (a = Len(e) + 1 /\ Len(d) = 1)
        <5>1. a \in 1..(Len(e) + Len(d))
          BY <2>7, <4>1
        <5> DEFINE p == Len(e)
                   k == Len(d)
        <5>2. p \in Nat /\ k \in {0, 1} /\ a \in 1..(p + k)
          BY <1>3, <2>5, <5>1
        <5> HIDE DEF p, k
        <5>3. a <= p \/ (a = p + 1 /\ k = 1)
          BY <5>2
        <5>. QED
          BY <5>3 DEF p, k
      <4>3. CASE a <= Len(e)
        BY <1>1, <2>4, <3>2, <4>1, <4>3
      <4>4. CASE a = Len(e) + 1 /\ Len(d) = 1
        <5>1. g[j].data[a] \in D /\ Len(y.data) = Len(e) + 1
          <6> HIDE DEF e
          <6>. QED
            BY <1>3, <2>7, <4>1, <4>4
        <5>. QED
          BY <2>4, <3>2, <4>1, <4>4, <5>1
      <4>. QED
        BY <4>2, <4>3, <4>4
    <3>. QED
      BY <3>1, <3>2
  <2>. QED
    BY <2>1, <2>8, <2>9 DEF GrowsBy, D
<1>. QED
  BY <1>4, <1>5 DEF D

LEMMA BehindGrows ==
    ASSUME NEW s \in NodeStates, NEW t \in NodeStates, Grows(s.file, t.file),
           s.first = t.first, NEW info, NEW d, Behind(s, info, d)
    PROVE  Behind(t, info, d)
<1>1. PICK j \in 1..Len(s.file) : \E a \in 1..Len(s.file[j].data) :
          /\ s.file[j].data[a] = d
          /\ Before(<<j, a>>, <<info.cluster - s.first + 1, info.seq + 1>>)
  BY DEF Behind
<1>2. PICK a \in 1..Len(s.file[j].data) :
          /\ s.file[j].data[a] = d
          /\ Before(<<j, a>>, <<info.cluster - s.first + 1, info.seq + 1>>)
  BY <1>1
<1>3. /\ Len(s.file) \in Nat /\ Len(t.file) \in Nat /\ Len(s.file) <= Len(t.file)
      /\ Len(s.file[j].data) \in Nat /\ Len(s.file[j].data) <= Len(t.file[j].data)
      /\ t.file[j].data[a] = s.file[j].data[a]
  <2>1. s.file \in Seq(Clusters) /\ t.file \in Seq(Clusters)
    BY DEF NodeStates
  <2>. QED
    BY <2>1, FileShape DEF Grows
<1>4. Len(t.file[j].data) \in Nat /\ j \in 1..Len(t.file)
  <2>1. t.file \in Seq(Clusters)
    BY DEF NodeStates
  <2>. QED
    BY <1>3, <2>1, FileShape
<1>5. a \in 1..Len(t.file[j].data)
  BY <1>3, <1>4
<1>. QED
  BY <1>2, <1>3, <1>4, <1>5 DEF Behind

\* The block sent next comes after all that lie behind it, and the one after it
\* is sent from further on.
LEMMA NextBlock ==
    ASSUME NEW n, NEW st \in NodeStates, NEW info \in Infos, Reachable(st, info.cluster)
    PROVE  LET d == NextInFile(n, st, info).data
               after == After(n, st, info)
           IN  /\ \A e : Behind(st, info, e) => Behind(st, after, e)
               /\ d \notin {Empty, Junk} =>
                    /\ Behind(st, after, d)
                    /\ Sorted(st.file) =>
                         \A e : e # Junk /\ Behind(st, info, e) => Before(e, d)
<1> DEFINE f == st.file
           j == info.cluster - st.first + 1
           s == info.seq + 1
           next == NextInFile(n, st, info)
           d == next.data
           after == After(n, st, info)
<1>1. /\ info.cluster \in Nat /\ info.seq \in Nat /\ st.first \in Nat
      /\ j \in Nat /\ j > 0 /\ s \in Nat /\ s > 0 /\ f \in Seq(Clusters) /\ Len(f) \in Nat
  BY FileShape DEF Infos, NodeStates, Reachable
<1>2. \/ after.cluster = info.cluster + 1 /\ after.seq = 0
      \/ after.cluster = info.cluster /\ after.seq = s
  BY DEF After, RenewBlock, ShiftToPreBlock, Infos
<1> HIDE DEF after
<1>3. \/ after.cluster - st.first + 1 = j + 1 /\ after.seq + 1 = 1
      \/ after.cluster - st.first + 1 = j /\ after.seq + 1 = s + 1
  BY <1>1, <1>2
<1> DEFINE J == after.cluster - st.first + 1
           S == after.seq + 1
<1>4. (J = j + 1 /\ S = 1) \/ (J = j /\ S = s + 1)
  BY <1>3
<1>5. ASSUME NEW e, Behind(st, info, e)
      PROVE  Behind(st, after, e)
  <2>1. PICK i \in 1..Len(f) : \E a \in 1..Len(f[i].data) :
            f[i].data[a] = e /\ Before(<<i, a>>, <<j, s>>)
    BY <1>5 DEF Behind
  <2>2. PICK a \in 1..Len(f[i].data) : f[i].data[a] = e /\ Before(<<i, a>>, <<j, s>>)
    BY <2>1
  <2>3. Before(<<i, a>>, <<J, S>>)
    <3>1. Len(f[i].data) \in Nat
      BY <1>1, FileShape
    <3>2. i \in Nat /\ a \in Nat /\ (i < j \/ (i = j /\ a < s))
      BY <1>1, <2>2, <3>1 DEF Before
    <3> HIDE DEF J, S, j, s
    <3>3. i < J \/ (i = J /\ a < S)
      BY <1>1, <1>4, <3>2
    <3>. QED
      BY <3>3 DEF Before
  <2>. QED
    BY <2>2, <2>3 DEF Behind
<1>6. ASSUME d \notin {Empty, Junk}
      PROVE  j \in 1..Len(f) /\ s \in 1..Len(f[j].data) /\ d = f[j].data[s]
  <2> DEFINE last == Len(f[j].data)
  <2>1. j <= Len(f)
    <3>1. ~(j <= Len(f)) => next = [data |-> Junk, end |-> FALSE]
      BY Zenon DEF NextInFile
    <3> HIDE DEF j, f, next
    <3>. QED
      BY <1>6, <3>1
  <2>2. j \in 1..Len(f)
    BY <1>1, <2>1
  <2>3. last \in Nat
    <3> HIDE DEF f, j
    <3>. QED
      BY <1>1, <2>2, FileShape
  <2>4. ASSUME s < last
        PROVE  next = [data |-> f[j].data[s], end |-> FALSE]
    <3>1. ~(s >= last)
      <4> HIDE DEF last, s
      <4>. QED
        BY <1>1, <2>3, <2>4
    <3>. QED
      BY <2>1, <2>4, <3>1, Zenon DEF NextInFile
  <2>5. ~(s < last) => \/ /\ s >= last
                         /\ next = [data |-> IF s = last THEN f[j].data[s] ELSE Empty,
                                    end |-> TRUE]
                      \/ next = [data |-> Junk, end |-> FALSE]
    BY <2>1, Zenon DEF NextInFile
  <2> HIDE DEF last, next, j, s, f
  <2>6. s <= last /\ d = f[j].data[s]
    <3>1. CASE s < last
      BY <1>1, <2>3, <2>4, <3>1
    <3>2. CASE ~(s < last)
      BY <1>1, <1>6, <2>3, <2>5, <3>2
    <3>. QED
      BY <3>1, <3>2
  <2>. QED
    BY <1>1, <2>2, <2>3, <2>6 DEF last
<1>7. ASSUME d \notin {Empty, Junk}
      PROVE  Behind(st, after, d)
  <2>1. Before(<<j, s>>, <<J, S>>)
    <3> HIDE DEF j, s, J, S
    <3>1. j < J \/ (j = J /\ s < S)
      BY <1>1, <1>4
    <3>. QED
      BY <3>1 DEF Before
  <2>2. j \in 1..Len(f) /\ s \in 1..Len(f[j].data) /\ f[j].data[s] = d
    BY <1>6, <1>7
  <2> HIDE DEF j, s, d
  <2>. QED
    BY <2>1, <2>2 DEF Behind
<1>8. ASSUME d \notin {Empty, Junk}, Sorted(f), NEW e, e # Junk, Behind(st, info, e)
      PROVE  Before(e, d)
  <2>1. PICK i \in 1..Len(f) : \E a \in 1..Len(f[i].data) :
            f[i].data[a] = e /\ Before(<<i, a>>, <<j, s>>)
    BY <1>8 DEF Behind
  <2>2. PICK a \in 1..Len(f[i].data) : f[i].data[a] = e /\ Before(<<i, a>>, <<j, s>>)
    BY <2>1
  <2>3. j \in 1..Len(f) /\ s \in 1..Len(f[j].data) /\ d = f[j].data[s]
    BY <1>6, <1>8
  <2> HIDE DEF j, s, d, f
  <2>. QED
    BY <1>8, <2>2, <2>3 DEF Sorted
<1> HIDE DEF d
<1>. QED
  BY <1>5, <1>7, <1>8 DEF d, after, f

\* One more packet for a peer.
LEMMA InLineAppend ==
    ASSUME NEW f, NEW q \in Seq(Messages), NEW m \in Blocks, InLine(f, q),
           m.data \notin {Empty, Junk} => \A d \in Out(f, q) : Before(d, m.data)
    PROVE  /\ InLine(f, Append(q, m))
           /\ \A d \in Out(f, Append(q, m)) :
                d \in Out(f, q) \/ (d = m.data /\ m.data \notin {Empty, Junk})
<1> DEFINE r == Append(q, m)
           L == Len(q)
<1>1. /\ L \in Nat /\ Len(r) = L + 1 /\ r[L + 1] = m /\ \A k \in 1..L : r[k] = q[k]
  BY DEF Messages
<1> HIDE DEF r
<1>2. ASSUME NEW k \in Coming(r)
      PROVE  \/ k \in Coming(q) /\ r[k] = q[k]
             \/ k = L + 1 /\ r[k] = m /\ m.data \notin {Empty, Junk}
  <2>1. k \in 1..(L + 1) /\ r[k].type = "BLOCK" /\ r[k].data \notin {Empty, Junk}
    BY <1>1 DEF Coming
  <2>2. k \in 1..L \/ k = L + 1
    BY <1>1, <2>1
  <2>. QED
    BY <1>1, <2>1, <2>2 DEF Coming
<1>3. \A d \in Written(f), k \in Coming(r) : Before(d, r[k].data)
  BY <1>2 DEF InLine, Out
<1>4. ASSUME NEW i \in Coming(r), NEW k \in Coming(r), i < k
      PROVE  Before(r[i].data, r[k].data)
  <2>1. i \in 1..(L + 1) /\ k \in 1..(L + 1)
    BY <1>1 DEF Coming
  <2>2. i # L + 1
    BY <1>1, <1>4, <2>1
  <2>3. i \in Coming(q) /\ r[i] = q[i]
    BY <1>2, <2>2
  <2>. QED
    BY <1>2, <1>4, <2>3 DEF InLine, Out
<1>5. \A d \in Out(f, r) : d \in Out(f, q) \/ (d = m.data /\ m.data \notin {Empty, Junk})
  BY <1>2 DEF Out
<1>. QED
  BY <1>3, <1>4, <1>5 DEF InLine, r

\* The oldest packet is gone.
LEMMA InLineTail ==
    ASSUME NEW f, NEW q \in Seq(Messages), q # <<>>, InLine(f, q)
    PROVE  /\ InLine(f, Tail(q)) /\ Out(f, Tail(q)) \subseteq Out(f, q)
           /\ \A k \in Coming(Tail(q)) : k + 1 \in Coming(q) /\ Tail(q)[k] = q[k + 1]
<1> DEFINE r == Tail(q)
           L == Len(q)
<1>1. L \in Nat /\ L > 0 /\ Len(r) = L - 1 /\ \A k \in 1..(L - 1) : r[k] = q[k + 1]
  OBVIOUS
<1> HIDE DEF r
<1>2. ASSUME NEW k \in Coming(r)
      PROVE  k + 1 \in Coming(q) /\ r[k] = q[k + 1] /\ k \in Nat
  <2>1. k \in 1..(L - 1) /\ r[k].type = "BLOCK" /\ r[k].data \notin {Empty, Junk}
    BY <1>1 DEF Coming
  <2>2. k + 1 \in 1..L /\ r[k] = q[k + 1]
    BY <1>1, <2>1
  <2>. QED
    BY <1>1, <2>1, <2>2 DEF Coming
<1>3. InLine(f, r)
  <2>1. ASSUME NEW i \in Coming(r), NEW k \in Coming(r), i < k
        PROVE  Before(r[i].data, r[k].data)
    <3>1. i + 1 < k + 1
      BY <1>2, <2>1
    <3>. QED
      BY <1>2, <3>1 DEF InLine
  <2>. QED
    BY <1>2, <2>1 DEF InLine
<1>4. Out(f, r) \subseteq Out(f, q)
  BY <1>2 DEF Out
<1>. QED
  BY <1>2, <1>3, <1>4 DEF r

\* D holds no block but the one that m brings.
Brings(m, D) == \A e \in D \ {Junk} : m.type = "BLOCK" /\ e = m.data /\ e # Empty

\* A packet is read, and its block written at the end of the file.
LEMMA InLineTaken ==
    ASSUME NEW f \in Seq(Clusters), NEW g \in Seq(Clusters), NEW q \in Seq(Messages), q # <<>>,
           NEW D, GrowsBy(f, g, D), InLine(f, q), Sorted(f), Brings(q[1], D)
    PROVE  Sorted(g) /\ InLine(g, Tail(q)) /\ Out(g, Tail(q)) \subseteq Out(f, q)
<1>1. 1 \in 1..Len(q)
  OBVIOUS
<1>2. \A e \in D \ {Junk} : 1 \in Coming(q) /\ e = q[1].data
  BY <1>1 DEF Coming, Brings
<1>3. \A d \in Written(f), e \in D \ {Junk} : Before(d, e)
  BY <1>2 DEF InLine
<1>4. Sorted(g) /\ Written(g) \subseteq Written(f) \cup (D \ {Junk})
  BY <1>3, SortedGrows
<1>5. /\ InLine(f, Tail(q)) /\ Out(f, Tail(q)) \subseteq Out(f, q)
      /\ \A k \in Coming(Tail(q)) : k + 1 \in Coming(q) /\ Tail(q)[k] = q[k + 1]
  BY InLineTail
<1>6. ASSUME NEW e \in D \ {Junk}, NEW k \in Coming(Tail(q))
      PROVE  Before(e, Tail(q)[k].data)
  <2>1. 1 \in Coming(q) /\ e = q[1].data /\ k + 1 \in Coming(q) /\ Tail(q)[k] = q[k + 1]
    BY <1>2, <1>5
  <2>2. k \in Nat /\ k >= 1
    BY DEF Coming
  <2>3. 1 < k + 1
    BY <2>2
  <2>. QED
    BY <2>1, <2>3, <1>5 DEF InLine
<1>7. InLine(g, Tail(q))
  BY <1>4, <1>5, <1>6 DEF InLine
<1>8. Out(g, Tail(q)) \subseteq Out(f, q)
  <2>1. \A e \in D \ {Junk} : e \in Out(f, q)
    BY <1>2 DEF Out
  <2>. QED
    BY <1>4, <1>5, <2>1 DEF Out
<1>. QED
  BY <1>4, <1>7, <1>8

\* Node n goes on as st; whoever it serves may have been sent the next block,
\* which does not arrive at one that is gone.
ServesNext(n, st, queues) ==
    /\ \E b \in BOOLEAN : node' = [node EXCEPT ![n] = [st EXCEPT !.stuck = b]]
    /\ \A c \in Peers :
         \/ net'[c] = queues[c] /\ sent'[c] = sent[c]
         \/ /\ server[c] = n /\ Reachable(st, sent[c].cluster)
            /\ net'[c] \in {queues[c], Append(queues[c], CacheBlock(n, st, sent[c]))}
            /\ sent'[c] = After(n, st, sent[c])

LEMMA SendsNext ==
    ASSUME NEW n \in Nodes, NEW st, NEW queues, SendMulStream(n, st, queues)
    PROVE  ServesNext(n, st, queues)
<1> DEFINE due == {c \in Peers : server[c] = n /\ IsOldBlockSeq(st, sent[c])}
           far == {c \in due : ~Reachable(st, sent[c].cluster)}
<1>1. PICK C \in IF far = {} THEN {due} ELSE SUBSET (due \ far) :
          /\ node' = [node EXCEPT ![n] = [st EXCEPT !.stuck = far # {}]]
          /\ sent' = [c \in Peers |-> IF c \in C THEN After(n, st, sent[c])
                                      ELSE sent[c]]
          /\ net' = [c \in Peers |->
                       IF c \in C /\ node[c].up
                       THEN Append(queues[c], CacheBlock(n, st, sent[c]))
                       ELSE queues[c]]
  BY Zenon DEF SendMulStream
<1>2. \A c \in C : c \in Peers /\ server[c] = n /\ Reachable(st, sent[c].cluster)
  OBVIOUS
<1>3. (far # {}) \in BOOLEAN
  OBVIOUS
<1> HIDE DEF due, far
<1>4. \E b \in BOOLEAN : node' = [node EXCEPT ![n] = [st EXCEPT !.stuck = b]]
  BY <1>1, <1>3, Zenon
<1>5. \A c \in Peers :
         \/ net'[c] = queues[c] /\ sent'[c] = sent[c]
         \/ /\ server[c] = n /\ Reachable(st, sent[c].cluster)
            /\ net'[c] \in {queues[c], Append(queues[c], CacheBlock(n, st, sent[c]))}
            /\ sent'[c] = After(n, st, sent[c])
  BY <1>1, <1>2
<1>. QED
  BY <1>4, <1>5 DEF ServesNext

\* What a step of n may do to its own file and packets.
Advance(n, st, queues) ==
    /\ Grows(node[n].file, st.file) /\ Sorted(st.file)
    /\ n \in Peers /\ st.total > 0 => ~st.isFirst
    /\ ~node[n].isFirst => ~st.isFirst
    /\ n = Origin \/ ~node[n].isFirst => st.first = node[n].first
    /\ n = Origin => \A j \in 1..Len(st.file) : st.file[j] = Recorded[j]
    /\ n \in Peers => /\ InLine(st.file, queues[n])
                      /\ Out(st.file, queues[n]) \subseteq Out(node[n].file, net[n])

LEMMA GrowsSame ==
    ASSUME NEW st \in NodeStates
    PROVE  Grows(st.file, st.file)
<1>1. st.file \in Seq(Clusters)
  BY DEF NodeStates
<1>. QED
  BY <1>1, FileShape DEF Grows

\* Where the nodes are after a step of n.
LEMMA NodesAfter ==
    ASSUME TypeOK, NEW n \in Nodes, NEW st \in NodeStates, NEW queues,
           ServesNext(n, st, queues)
    PROVE  \A x \in Nodes :
             LET t == IF x = n THEN st ELSE node[x] IN
             /\ node'[x].file = t.file /\ node'[x].first = t.first /\ node'[x].up = t.up
             /\ node'[x].isFirst = t.isFirst /\ node'[x].total = t.total
             /\ t \in NodeStates
<1>1. PICK b \in BOOLEAN : node' = [node EXCEPT ![n] = [st EXCEPT !.stuck = b]]
  BY DEF ServesNext
<1> DEFINE u == [st EXCEPT !.stuck = b]
<1>2. /\ u.file = st.file /\ u.first = st.first /\ u.up = st.up
      /\ u.isFirst = st.isFirst /\ u.total = st.total
  BY DEF NodeStates
<1>3. node' = [node EXCEPT ![n] = u]
  BY <1>1
<1> HIDE DEF u
<1>. QED
  BY <1>2, <1>3 DEF TypeOK

LEMMA OrderStep ==
    ASSUME StreamInv, Orderly, NEW n \in Nodes, NEW st \in NodeStates,
           NEW queues \in [Peers -> Seq(Messages)],
           ServesNext(n, st, queues), UNCHANGED server, Advance(n, st, queues),
           \A c \in Peers : c # n => queues[c] = net[c]
    PROVE  Orderly'
<1> DEFINE now(x) == IF x = n THEN st ELSE node[x]
<1>0. /\ Origin \in Nodes /\ Origin \notin Peers /\ Peers \subseteq Nodes /\ Nobody \notin Nodes
      /\ server \in [Peers -> Nodes \cup {Nobody}] /\ sent \in [Peers -> Infos] /\ TypeOK
  BY TreeAssumption DEF Nodes, StreamInv, TypeOK
<1>1. \A x \in Nodes :
        /\ node'[x].file = now(x).file /\ node'[x].first = now(x).first
        /\ node'[x].isFirst = now(x).isFirst /\ node'[x].total = now(x).total
        /\ now(x) \in NodeStates /\ node[x] \in NodeStates
  <2>1. \A x \in Nodes : node[x] \in NodeStates
    BY <1>0 DEF TypeOK
  <2>. QED
    BY <1>0, <2>1, NodesAfter
<1>2. \A x \in Nodes : Grows(node[x].file, now(x).file) /\ Sorted(now(x).file)
  <2>1. \A x \in Nodes : x # n => Grows(node[x].file, node[x].file)
    BY <1>1, GrowsSame
  <2>. QED
    BY <2>1 DEF Advance, Orderly
<1>3. /\ \A x \in Nodes : x = Origin \/ ~node[x].isFirst => now(x).first = node[x].first
      /\ \A x \in Nodes : ~node[x].isFirst => ~now(x).isFirst
      /\ \A x \in Peers : now(x).total > 0 => ~now(x).isFirst
      /\ \A j \in 1..Len(now(Origin).file) : now(Origin).file[j] = Recorded[j]
  BY <1>0 DEF Advance, Orderly
<1>4. \A c \in Peers : /\ InLine(now(c).file, queues[c])
                       /\ Out(now(c).file, queues[c]) \subseteq Out(node[c].file, net[c])
  BY <1>0 DEF Advance, Orderly
<1>5. ASSUME NEW c \in Peers, server[c] # Nobody, NEW d \in Out(now(c).file, queues[c])
      PROVE  Behind(now(server[c]), sent[c], d)
  <2> DEFINE s == server[c]
  <2>1. s \in Nodes /\ (s = Origin \/ s \in Peers)
    BY <1>0, <1>5 DEF Nodes
  <2>2. Behind(node[s], sent[c], d)
    BY <1>4, <1>5 DEF Orderly
  <2>3. s = Origin \/ ~node[s].isFirst
    BY <2>1 DEF Orderly
  <2>4. /\ node[s] \in NodeStates /\ now(s) \in NodeStates
        /\ Grows(node[s].file, now(s).file) /\ node[s].first = now(s).first
    BY <1>1, <1>2, <1>3, <2>1, <2>3
  <2> HIDE DEF now, s
  <2>. QED
    BY <2>2, <2>4, BehindGrows DEF s
<1> HIDE DEF now
<1>6. ASSUME NEW c \in Peers
      PROVE  /\ InLine(now(c).file, net'[c])
             /\ server[c] # Nobody => \A d \in Out(now(c).file, net'[c]) :
                                        Behind(now(server[c]), sent'[c], d)
  <2>1. CASE net'[c] = queues[c] /\ sent'[c] = sent[c]
    BY <1>4, <1>5, <2>1
  <2>2. CASE ~(net'[c] = queues[c] /\ sent'[c] = sent[c])
    <3> DEFINE m == CacheBlock(n, st, sent[c])
               after == After(n, st, sent[c])
               f == now(c).file
               q == queues[c]
    <3>1. /\ server[c] = n /\ Reachable(st, sent[c].cluster) /\ server[c] # Nobody
          /\ net'[c] \in {q, Append(q, m)} /\ sent'[c] = after /\ now(server[c]) = st
      BY <1>0, <2>2 DEF ServesNext, now
    <3>2. m \in Blocks /\ m.data = NextInFile(n, st, sent[c]).data /\ q \in Seq(Messages)
      BY <1>0, <3>1, BlockToSend DEF CacheBlock
    <3>3. \A d \in Out(f, q) : d # Junk
      BY DEF Out, Written, Coming
    <3>4. \A d \in Out(f, q) : Behind(st, sent[c], d)
      BY <1>5, <3>1
    <3>5. /\ \A e : Behind(st, sent[c], e) => Behind(st, after, e)
          /\ m.data \notin {Empty, Junk} =>
               /\ Behind(st, after, m.data)
               /\ \A e : e # Junk /\ Behind(st, sent[c], e) => Before(e, m.data)
      <4>1. Sorted(st.file)
        BY DEF Advance
      <4>2. sent[c] \in Infos
        BY <1>0
      <4> HIDE DEF m, after
      <4>. QED
        BY <3>1, <3>2, <4>1, <4>2, NextBlock DEF after
    <3> HIDE DEF m, after, f, q
    <3>6. m.data \notin {Empty, Junk} => \A d \in Out(f, q) : Before(d, m.data)
      BY <3>3, <3>4, <3>5
    <3>7. InLine(f, q)
      BY <1>4 DEF f, q
    <3>8. /\ InLine(f, Append(q, m))
          /\ \A d \in Out(f, Append(q, m)) :
               d \in Out(f, q) \/ (d = m.data /\ m.data \notin {Empty, Junk})
      BY <3>2, <3>6, <3>7, InLineAppend
    <3> HIDE DEF now
    <3>9. CASE net'[c] = q
      BY <3>1, <3>4, <3>5, <3>7, <3>9 DEF f
    <3>10. CASE net'[c] = Append(q, m)
      BY <3>1, <3>4, <3>5, <3>8, <3>10 DEF f
    <3>. QED
      BY <3>1, <3>9, <3>10
  <2>. QED
    BY <2>1, <2>2
<1>7. ASSUME NEW c \in Peers
      PROVE  InLine(node'[c].file, net'[c])
  BY <1>0, <1>1, <1>6
<1>8. ASSUME NEW c \in Peers, server'[c] # Nobody, NEW d \in Out(node'[c].file, net'[c])
      PROVE  Behind(node'[server'[c]], sent'[c], d)
  <2>1. server'[c] = server[c] /\ server[c] \in Nodes
    BY <1>0, <1>8
  <2>2. Behind(now(server[c]), sent'[c], d)
    BY <1>0, <1>1, <1>6, <1>8, <2>1
  <2>. QED
    BY <1>1, <2>1, <2>2 DEF Behind
<1>9. \A c \in Peers : server'[c] \in Peers => ~node'[server'[c]].isFirst
  BY <1>0, <1>1, <1>3 DEF Orderly
<1>10. \A x \in Nodes : Sorted(node'[x].file)
  BY <1>1, <1>2
<1>11. \A x \in Peers : node'[x].total > 0 => ~node'[x].isFirst
  BY <1>0, <1>1, <1>3
<1>12. /\ node'[Origin].first = 0
       /\ \A j \in 1..Len(node'[Origin].file) : node'[Origin].file[j] = Recorded[j]
  BY <1>0, <1>1, <1>3 DEF Orderly
<1>. QED
  BY <1>7, <1>8, <1>9, <1>10, <1>11, <1>12 DEF Orderly

\* A step of n, and what is to be shown of it.
LEMMA NodeStep ==
    ASSUME StreamInv, NEW n \in Nodes, NEW st \in NodeStates,
           NEW queues \in [Peers -> Seq(Messages)],
           ServesNext(n, st, queues), UNCHANGED server, st.up => node[n].up,
           \A c \in Peers : c # n => queues[c] = net[c],
           Orderly => Advance(n, st, queues)
    PROVE  Fewer /\ (Orderly => Orderly')
<1>1. TypeOK
  BY DEF StreamInv
<1>2. Fewer
  BY <1>1, NodesAfter DEF Fewer
<1>. QED
  BY <1>2, OrderStep

\* Nothing is sent.
LEMMA QuietStep ==
    ASSUME NEW n, NEW st \in NodeStates, NEW queues,
           node' = [node EXCEPT ![n] = st], net' = queues, UNCHANGED sent
    PROVE  ServesNext(n, st, queues)
<1>1. st.stuck \in BOOLEAN /\ [st EXCEPT !.stuck = st.stuck] = st
  BY DEF NodeStates
<1>2. \E b \in BOOLEAN : node' = [node EXCEPT ![n] = [st EXCEPT !.stuck = b]]
  BY <1>1
<1>. QED
  BY <1>2 DEF ServesNext

\* A step that leaves the file alone; at most the oldest packet is read.
LEMMA FileKept ==
    ASSUME StreamInv, Orderly, NEW n \in Nodes, NEW st \in NodeStates, NEW queues,
           st.file = node[n].file, st.first = node[n].first, st.total = node[n].total,
           st.isFirst => node[n].isFirst,
           n \in Peers => queues[n] = net[n] \/ (net[n] # <<>> /\ queues[n] = Tail(net[n]))
    PROVE  Advance(n, st, queues)
<1>1. Grows(node[n].file, st.file) /\ Sorted(st.file)
  BY GrowsSame DEF Orderly
<1>2. ASSUME n \in Peers
      PROVE  /\ InLine(st.file, queues[n])
             /\ Out(st.file, queues[n]) \subseteq Out(node[n].file, net[n])
             /\ st.total > 0 => ~st.isFirst
  <2>1. InLine(node[n].file, net[n]) /\ net[n] \in Seq(Messages)
    BY <1>2 DEF Orderly, StreamInv, TypeOK
  <2>2. net[n] # <<>> => /\ InLine(node[n].file, Tail(net[n]))
                         /\ Out(node[n].file, Tail(net[n])) \subseteq Out(node[n].file, net[n])
    BY <2>1, InLineTail
  <2>3. st.total > 0 => ~st.isFirst
    BY <1>2 DEF Orderly
  <2>. QED
    BY <1>2, <2>1, <2>2, <2>3
<1>3. n = Origin => \A j \in 1..Len(st.file) : st.file[j] = Recorded[j]
  BY DEF Orderly
<1>. QED
  BY <1>1, <1>2, <1>3 DEF Advance

LEMMA RecordedSorted ==
    ASSUME NEW f \in Seq(Clusters), Len(f) <= Len(Sizes),
           \A j \in 1..Len(f) : f[j] = Recorded[j]
    PROVE  Sorted(f)
<1>1. /\ Len(Sizes) \in Nat /\ Len(f) \in Nat /\ \A c \in 1..Len(Sizes) : Sizes[c] \in Nat
  BY SizesAssumption
<1>2. ASSUME NEW j \in 1..Len(f), NEW a \in 1..Len(f[j].data)
      PROVE  f[j].data[a] = <<j - 1, a>>
  <2> DEFINE c == j - 1
  <2>1. c \in Nat /\ c < Len(Sizes) /\ c + 1 = j
    BY <1>1
  <2> HIDE DEF c
  <2>2. /\ Len(Recorded[c + 1].data) = Sizes[c + 1]
        /\ \A i \in 1..Sizes[c + 1] : Recorded[c + 1].data[i] = <<c, i>>
    BY <2>1, RecordedCluster
  <2>3. f[j] = Recorded[c + 1]
    BY <2>1
  <2>. QED
    BY <2>2, <2>3 DEF c
<1>3. ASSUME NEW j \in 1..Len(f), NEW k \in 1..Len(f),
             NEW a \in 1..Len(f[j].data), NEW b \in 1..Len(f[k].data),
             Before(<<j, a>>, <<k, b>>)
      PROVE  Before(f[j].data[a], f[k].data[b])
  <2>1. j \in Nat /\ k \in Nat /\ (j < k \/ (j = k /\ a < b))
    BY <1>1, <1>3 DEF Before
  <2>2. j - 1 < k - 1 \/ (j - 1 = k - 1 /\ a < b)
    BY <2>1
  <2>3. Before(<<j - 1, a>>, <<k - 1, b>>)
    BY <2>2 DEF Before
  <2>. QED
    BY <1>2, <2>3
<1>. QED
  BY <1>3, Zenon DEF Sorted

LEMMA RecordOrder ==
    ASSUME StreamInv, Record
    PROVE  Fewer /\ (Orderly => Orderly')
<1> DEFINE o == node[Origin]
           f == Append(o.file, Recorded[Len(o.file) + 1])
           st == [o EXCEPT !.file = f]
<1>1. /\ Origin \in Nodes /\ Origin \notin Peers /\ o \in NodeStates
      /\ net \in [Peers -> Seq(Messages)]
  BY TreeAssumption DEF StreamInv, TypeOK, Nodes
<1>2. /\ o.file \in Seq(Clusters) /\ Len(o.file) \in Nat /\ Len(o.file) < Len(Sizes)
      /\ Recorded[Len(o.file) + 1] \in Clusters /\ Len(Sizes) \in Nat
  <2>1. o.file \in Seq(Clusters) /\ Len(o.file) < Len(Sizes)
    BY <1>1, RecordedFile DEF Record, NodeStates
  <2>2. Recorded[Len(o.file) + 1] \in Clusters
    BY <2>1, RecordedFile
  <2>. QED
    BY <2>1, <2>2, SizesAssumption
<1>3. /\ f \in Seq(Clusters) /\ Len(f) = Len(o.file) + 1
      /\ f[Len(o.file) + 1] = Recorded[Len(o.file) + 1]
      /\ \A j \in 1..Len(o.file) : f[j] = o.file[j]
  <2> DEFINE x == Recorded[Len(o.file) + 1]
             g == o.file
  <2>1. g \in Seq(Clusters) /\ x \in Clusters
    BY <1>2
  <2> HIDE DEF x, g
  <2>2. /\ Append(g, x) \in Seq(Clusters) /\ Len(Append(g, x)) = Len(g) + 1
        /\ Append(g, x)[Len(g) + 1] = x /\ \A j \in 1..Len(g) : Append(g, x)[j] = g[j]
    BY <2>1
  <2>. QED
    BY <2>2 DEF x, g
<1>4. node' = [node EXCEPT ![Origin] = st] /\ UNCHANGED <<server, sent, net, budget>>
  BY DEF Record
<1> HIDE DEF f
<1>5. /\ st \in NodeStates /\ st.file = f /\ st.first = o.first /\ st.up = o.up
      /\ st.isFirst = o.isFirst
  BY <1>1, <1>3 DEF NodeStates
<1> HIDE DEF st
<1>6. ASSUME Orderly
      PROVE  Advance(Origin, st, net)
  <2>1. \A j \in 1..Len(f) : f[j] = Recorded[j]
    <3>1. \A j \in 1..Len(f) : j \in 1..Len(o.file) \/ j = Len(o.file) + 1
      BY <1>2, <1>3
    <3>. QED
      BY <1>3, <1>6, <3>1 DEF Orderly
  <2>2. Sorted(f)
    BY <1>2, <1>3, <2>1, RecordedSorted
  <2>3. Grows(o.file, f)
    <3>1. Len(o.file) <= Len(f)
      BY <1>2, <1>3
    <3>2. \A j \in 1..Len(o.file) : Len(o.file[j].data) \in Nat
      BY <1>2, FileShape
    <3>3. \A j \in 1..Len(o.file) : Len(o.file[j].data) <= Len(f[j].data)
      BY <1>3, <3>2
    <3>. QED
      BY <1>3, <3>1, <3>3 DEF Grows
  <2>. QED
    BY <1>1, <1>5, <2>1, <2>2, <2>3 DEF Advance
<1>7. ServesNext(Origin, st, net)
  BY <1>4, <1>5, QuietStep
<1>. QED
  BY <1>1, <1>4, <1>5, <1>6, <1>7, NodeStep

LEMMA ReadOrder ==
    ASSUME StreamInv, ReadThrough
    PROVE  Fewer /\ (Orderly => Orderly')
<1> DEFINE st == node[Origin]
<1>1. /\ Origin \in Nodes /\ Origin \notin Peers /\ st \in NodeStates
      /\ net \in [Peers -> Seq(Messages)]
  BY TreeAssumption DEF StreamInv, TypeOK, Nodes
<1>2. /\ st.prevSeq \in Nat /\ st.block \in Infos /\ NextSeq \in Nat /\ st.curSeq \in Nat
      /\ ShiftToPreBlock(st.block) \in Infos /\ RenewBlock(st.block) \in Infos
  <2>1. st.prevSeq \in Nat /\ st.block \in Infos /\ st.curSeq \in Nat
    BY <1>1 DEF NodeStates
  <2>. QED
    BY <2>1 DEF NextSeq, ShiftToPreBlock, RenewBlock, Infos
<1>3. ASSUME NEW u \in NodeStates, ServesNext(Origin, u, net), UNCHANGED <<server, budget>>,
             u.file = st.file, u.first = st.first, u.total = st.total, u.up = st.up,
             u.isFirst => st.isFirst
      PROVE  Fewer /\ (Orderly => Orderly')
  <2>1. Orderly => Advance(Origin, u, net)
    BY <1>1, <1>3, FileKept
  <2>. QED
    BY <1>1, <1>3, <2>1, NodeStep
<1>4. CASE ReadCluster
  <2> DEFINE z == IF st.isFirst THEN 0 ELSE st.prevSeq + 1
             u == [st EXCEPT !.curSeq = z, !.isFirst = FALSE, !.reading = TRUE]
  <2>1. z \in Nat
    BY <1>2
  <2>2. node' = [node EXCEPT ![Origin] = u] /\ UNCHANGED <<server, sent, net, budget>>
    BY <1>4 DEF ReadCluster
  <2> HIDE DEF z
  <2>3. /\ u \in NodeStates /\ u.file = st.file /\ u.first = st.first
        /\ u.total = st.total /\ u.up = st.up
    BY <1>1, <2>1 DEF NodeStates
  <2>4. ~u.isFirst
    BY <1>1 DEF NodeStates
  <2> HIDE DEF u
  <2>. QED
    BY <1>3, <2>2, <2>3, <2>4, QuietStep
<1>5. CASE ReadBlock
  <2> DEFINE u == [st EXCEPT !.latest = NextSeq, !.block = ShiftToPreBlock(@)]
  <2>1. SendMulStream(Origin, u, net) /\ UNCHANGED <<server, budget>>
    BY <1>5 DEF ReadBlock
  <2>2. /\ u \in NodeStates /\ u.file = st.file /\ u.first = st.first
        /\ u.total = st.total /\ u.up = st.up /\ u.isFirst = st.isFirst
    BY <1>1, <1>2 DEF NodeStates
  <2> HIDE DEF u
  <2>3. ServesNext(Origin, u, net)
    BY <1>1, <2>1, SendsNext DEF Nodes
  <2>. QED
    BY <1>3, <2>1, <2>2, <2>3
<1>6. CASE ReadClusterEnd
  <2> DEFINE v == [st EXCEPT !.latest = NextSeq, !.block = RenewBlock(@), !.reading = FALSE]
             u == ShiftToPreCluster(v)
  <2>1. node' = [node EXCEPT ![Origin] = u] /\ UNCHANGED <<server, sent, net, budget>>
    BY <1>6 DEF ReadClusterEnd
  <2>2. /\ v \in NodeStates /\ v.file = st.file /\ v.first = st.first
        /\ v.total = st.total /\ v.up = st.up /\ v.isFirst = st.isFirst
    BY <1>1, <1>2 DEF NodeStates
  <2> HIDE DEF v
  <2>3. /\ u \in NodeStates /\ u.file = st.file /\ u.first = st.first
        /\ u.total = st.total /\ u.up = st.up /\ u.isFirst = st.isFirst
    BY <2>2 DEF NodeStates, ShiftToPreCluster
  <2> HIDE DEF u
  <2>. QED
    BY <1>3, <2>1, <2>3, QuietStep
<1>. QED
  BY <1>4, <1>5, <1>6 DEF ReadThrough

LEMMA StreamOrder ==
    ASSUME StreamInv, NEW n \in Nodes, Stream(n)
    PROVE  Fewer /\ (Orderly => Orderly')
<1>1. SendMulStream(n, node[n], net) /\ UNCHANGED <<server, budget>>
  BY DEF Stream
<1>2. node[n] \in NodeStates /\ net \in [Peers -> Seq(Messages)]
  BY DEF StreamInv, TypeOK
<1>3. ServesNext(n, node[n], net)
  BY <1>1, SendsNext DEF Nodes
<1>4. Orderly => Advance(n, node[n], net)
  BY <1>2, FileKept
<1>. QED
  BY <1>1, <1>2, <1>3, <1>4, NodeStep

LEMMA PlayOrder ==
    ASSUME StreamInv, NEW n \in Peers, StartPlaying(n)
    PROVE  Fewer /\ (Orderly => Orderly')
<1> DEFINE st == [node[n] EXCEPT !.playing = TRUE]
<1>1. n \in Nodes /\ node[n] \in NodeStates /\ net \in [Peers -> Seq(Messages)]
  BY DEF StreamInv, TypeOK, Nodes
<1>2. /\ st \in NodeStates /\ st.file = node[n].file /\ st.first = node[n].first
      /\ st.total = node[n].total /\ st.isFirst = node[n].isFirst /\ st.up = node[n].up
  BY <1>1 DEF NodeStates
<1>3. node' = [node EXCEPT ![n] = st] /\ UNCHANGED <<server, sent, net, budget>>
  BY DEF StartPlaying
<1> HIDE DEF st
<1>4. ServesNext(n, st, net)
  BY <1>2, <1>3, QuietStep
<1>5. Orderly => Advance(n, st, net)
  BY <1>1, <1>2, FileKept
<1>. QED
  BY <1>1, <1>2, <1>3, <1>4, <1>5, NodeStep

\* FIRST_CLUSTER_SEQ is set once, with the first block.
FirstSet(old, st) ==
    /\ (st.total = old.total /\ st.isFirst = old.isFirst) \/ ~st.isFirst
    /\ ~old.isFirst => ~st.isFirst /\ st.first = old.first

\* A peer reads a packet, and at most writes it.
LEMMA ReadStep ==
    ASSUME StreamInv, NEW n \in Peers, NEW type, Arrived(n, type),
           NEW st \in NodeStates, ServesNext(n, st, Taken(n)), UNCHANGED <<server, budget>>,
           st.up = node[n].up, NEW D, GrowsBy(node[n].file, st.file, D),
           Brings(Head(net[n]), D), FirstSet(node[n], st)
    PROVE  Fewer /\ (Orderly => Orderly')
<1>1. /\ net[n] \in Seq(Messages) /\ net[n] # <<>> /\ Head(net[n]) = net[n][1]
      /\ node[n] \in NodeStates /\ n \in Nodes
      /\ Taken(n) \in [Peers -> Seq(Messages)] /\ Taken(n)[n] = Tail(net[n])
      /\ \A x \in Peers : x # n => Taken(n)[x] = net[x]
  BY ArrivedAt
<1>2. n # Origin
  BY TreeAssumption
<1>3. node[n].file \in Seq(Clusters) /\ st.file \in Seq(Clusters)
  BY <1>1 DEF NodeStates
<1>5. ASSUME Orderly
      PROVE  Advance(n, st, Taken(n))
  <2>1. InLine(node[n].file, net[n]) /\ Sorted(node[n].file)
    BY <1>1, <1>5 DEF Orderly
  <2>2. /\ Sorted(st.file) /\ InLine(st.file, Tail(net[n]))
        /\ Out(st.file, Tail(net[n])) \subseteq Out(node[n].file, net[n])
    <3> DEFINE f == node[n].file
               g == st.file
               q == net[n]
    <3>1. /\ f \in Seq(Clusters) /\ g \in Seq(Clusters) /\ q \in Seq(Messages) /\ q # <<>>
          /\ GrowsBy(f, g, D) /\ InLine(f, q) /\ Sorted(f) /\ Brings(q[1], D)
      BY <1>1, <1>3, <2>1
    <3> HIDE DEF f, g, q
    <3>2. Sorted(g) /\ InLine(g, Tail(q)) /\ Out(g, Tail(q)) \subseteq Out(f, q)
      BY <3>1, InLineTaken
    <3>. QED
      BY <3>2 DEF f, g, q
  <2>3. st.total > 0 => ~st.isFirst
    BY <1>5 DEF Orderly, FirstSet
  <2>. QED
    BY <1>1, <1>2, <2>2, <2>3 DEF Advance, GrowsBy, FirstSet
<1>. QED
  BY <1>1, <1>5, NodeStep

\* A file that stays as it is.
LEMMA SameGrows ==
    ASSUME NEW st \in NodeStates
    PROVE  GrowsBy(st.file, st.file, {})
<1>1. st.file \in Seq(Clusters)
  BY DEF NodeStates
<1>2. /\ Len(st.file) \in Nat
      /\ \A j \in 1..Len(st.file) : Len(st.file[j].data) \in Nat
  BY <1>1, FileShape
<1>. QED
  BY <1>2, GrowsSame DEF GrowsBy

LEMMA InitialStatusOrder ==
    ASSUME StreamInv, NEW n \in Peers, NodeInitialStatus(n)
    PROVE  Fewer /\ (Orderly => Orderly')
<1> DEFINE m == Head(net[n])
<1>0. Arrived(n, "INITIAL_STATUS")
  BY DEF NodeInitialStatus
<1>1. PICK z \in Fresh :
          node' = [node EXCEPT ![n] =
                     [@ EXCEPT !.prevSeq = z,
                               !.block = [cluster |-> m.cluster, seq |-> 0]]]
  BY DEF NodeInitialStatus
<1>2. net' = Taken(n) /\ UNCHANGED <<server, sent, budget>>
  BY DEF NodeInitialStatus
<1> DEFINE b == [cluster |-> m.cluster, seq |-> 0]
           st == [node[n] EXCEPT !.prevSeq = z, !.block = b]
<1>3. b \in Infos /\ z \in Nat /\ node[n] \in NodeStates
  BY <1>0, ArrivedAt, FreshAssumption DEF Messages, Blocks, Infos
<1> HIDE DEF b
<1>4. /\ st \in NodeStates /\ st.file = node[n].file /\ st.first = node[n].first
      /\ st.up = node[n].up /\ st.total = node[n].total /\ st.isFirst = node[n].isFirst
  BY <1>3 DEF NodeStates
<1>5. node' = [node EXCEPT ![n] = st]
  BY <1>1 DEF b
<1> HIDE DEF st
<1>6. ServesNext(n, st, Taken(n))
  BY <1>2, <1>4, <1>5, QuietStep
<1>7. GrowsBy(node[n].file, st.file, {}) /\ Brings(m, {}) /\ FirstSet(node[n], st)
  BY <1>3, <1>4, SameGrows DEF Brings, FirstSet
<1>. QED
  BY <1>0, <1>2, <1>4, <1>6, <1>7, ReadStep

LEMMA HeaderOrder ==
    ASSUME StreamInv, NEW n \in Peers, AssembleHeader(n)
    PROVE  Fewer /\ (Orderly => Orderly')
<1> DEFINE c == node[n].block.cluster
           x == Cluster(c, <<>>, 0)
           f == Append(node[n].file, x)
           st == [node[n] EXCEPT !.curSeq = c, !.file = f]
<1>0. Arrived(n, "HEADER")
  BY DEF AssembleHeader
<1>1. c \in Nat /\ node[n] \in NodeStates /\ node[n].file \in Seq(Clusters)
  BY <1>0, ArrivedAt DEF NodeStates, Infos
<1>2. x \in Clusters /\ x.data = <<>>
  BY <1>1 DEF Cluster, Clusters
<1>3. node' = [node EXCEPT ![n] = st] /\ net' = Taken(n) /\ UNCHANGED <<server, sent, budget>>
  BY DEF AssembleHeader, RenewClusterForWrite
<1> HIDE DEF c, x
<1>4. f \in Seq(Clusters) /\ GrowsBy(node[n].file, f, {})
  <2> DEFINE g == node[n].file
  <2>1. g \in Seq(Clusters) /\ Len(x.data) = 0
    BY <1>1, <1>2
  <2> HIDE DEF g
  <2>2. Append(g, x) \in Seq(Clusters) /\ GrowsBy(g, Append(g, x), {})
    BY <1>2, <2>1, AppendGrows
  <2>. QED
    BY <2>2 DEF g
<1> HIDE DEF f
<1>5. /\ st \in NodeStates /\ st.file = f /\ st.first = node[n].first
      /\ st.up = node[n].up /\ st.total = node[n].total /\ st.isFirst = node[n].isFirst
  BY <1>1, <1>4 DEF NodeStates
<1> HIDE DEF st
<1>6. ServesNext(n, st, Taken(n))
  BY <1>3, <1>5, QuietStep
<1>7. GrowsBy(node[n].file, st.file, {}) /\ Brings(Head(net[n]), {}) /\ FirstSet(node[n], st)
  BY <1>4, <1>5 DEF Brings, FirstSet
<1>. QED
  BY <1>0, <1>3, <1>5, <1>6, <1>7, ReadStep

LEMMA BlockOrder ==
    ASSUME StreamInv, NEW n \in Peers, AssembleBlock(n)
    PROVE  Fewer /\ (Orderly => Orderly')
<1> DEFINE st == node[n]
           m == Head(net[n])
           u == Taking(st, m)
<1>0. Arrived(n, "BLOCK")
  BY DEF AssembleBlock
<1>1. /\ \/ SendMulStream(n, u, Taken(n))
         \/ node' = [node EXCEPT ![n] = u] /\ net' = Taken(n) /\ UNCHANGED sent
      /\ UNCHANGED <<server, budget>>
  BY DEF AssembleBlock, Taking
<1>2. m \in Blocks /\ st.file # <<>> /\ u \in NodeStates /\ u.up = st.up
  BY <1>0, TakingBlock
<1>3. m.type = "BLOCK" /\ st \in NodeStates /\ n \in Nodes
  BY <1>0, ArrivedAt
<1>4. \/ u = st
      \/ /\ u.file = FileWith(st, m) /\ ~u.isFirst
         /\ ~st.isFirst => u.first = st.first
  <2>1. CASE IsOldBlockSeq(st, m)
    BY <2>1 DEF Taking
  <2>2. CASE ~IsOldBlockSeq(st, m)
    <3>1. u = Assembled(st, m)
      BY <2>2 DEF Taking
    <3> HIDE DEF u, st, m
    <3>2. /\ Assembled(st, m).file = FileWith(st, m) /\ ~Assembled(st, m).isFirst
          /\ Assembled(st, m).first = IF st.isFirst THEN m.cluster ELSE st.first
      BY <1>2, <1>3, AssembledState
    <3>. QED
      BY <3>1, <3>2
  <2>. QED
    BY <2>1, <2>2
<1> HIDE DEF u
<1>5. ServesNext(n, u, Taken(n))
  <2>1. CASE SendMulStream(n, u, Taken(n))
    BY <1>3, <2>1, SendsNext DEF Nodes
  <2>2. CASE node' = [node EXCEPT ![n] = u] /\ net' = Taken(n) /\ UNCHANGED sent
    BY <1>2, <2>2, QuietStep
  <2>. QED
    BY <1>1, <2>1, <2>2
<1>6. CASE u = st
  <2>1. GrowsBy(st.file, u.file, {}) /\ Brings(m, {}) /\ FirstSet(st, u)
    BY <1>3, <1>6, SameGrows DEF Brings, FirstSet
  <2>. QED
    BY <1>0, <1>1, <1>2, <1>5, <2>1, ReadStep
<1>7. CASE u # st
  <2> DEFINE D == {m.data} \ {Empty}
  <2>1. GrowsBy(st.file, u.file, D)
    BY <1>2, <1>3, <1>4, <1>7, FileWithGrows
  <2>2. Brings(m, D)
    BY <1>3 DEF Brings
  <2>3. FirstSet(st, u)
    BY <1>4, <1>7 DEF FirstSet
  <2> HIDE DEF D
  <2>. QED
    BY <1>0, <1>1, <1>2, <1>5, <2>1, <2>2, <2>3, ReadStep
<1>. QED
  BY <1>6, <1>7

\* A peer that joins has been sent nothing, and its server has a block.
LEMMA JoinOrder ==
    ASSUME StreamInv, NEW c \in Peers, Join(c)
    PROVE  Fewer /\ (Orderly => Orderly')
<1> DEFINE p == Parent[c]
           k == JoinAt(node[p]).cluster
           q == <<[type |-> "INITIAL_STATUS", cluster |-> k], [type |-> "HEADER"]>>
<1>1. /\ p \in Nodes /\ Origin \notin Peers /\ Nobody \notin Nodes
      /\ server[c] = Nobody /\ Ready(p)
  BY TreeAssumption DEF Join, Nodes
<1>2. net[c] = <<>> /\ node[c].file = <<>>
  BY <1>1 DEF StreamInv, PeerOK
<1>3. /\ server' = [server EXCEPT ![c] = p] /\ net' = [net EXCEPT ![c] = q]
      /\ sent' = [sent EXCEPT ![c] = JoinAt(node[p])] /\ UNCHANGED node
  <2>1. <<>> \o q = q
    <3>1. q \in Seq({[type |-> "INITIAL_STATUS", cluster |-> k], [type |-> "HEADER"]})
      OBVIOUS
    <3> HIDE DEF q
    <3>. QED
      BY <3>1
  <2>2. net' = [net EXCEPT ![c] = @ \o q]
    BY DEF Join
  <2>3. [net EXCEPT ![c] = @ \o q] = [net EXCEPT ![c] = q]
    BY <1>2, <2>1
  <2>. QED
    BY <2>2, <2>3 DEF Join
<1>4. \A i \in 1..Len(q) : q[i].type \notin {"BLOCK", "END"}
  OBVIOUS
<1>5. Coming(q) = {}
  BY <1>4 DEF Coming
<1>6. Written(<<>>) = {} /\ Out(<<>>, q) = {} /\ InLine(<<>>, q)
  BY <1>5 DEF Written, Out, InLine
<1>7. /\ net'[c] = q /\ server'[c] = p /\ node' = node
      /\ \A x \in Peers : x # c => /\ net'[x] = net[x] /\ sent'[x] = sent[x]
                                   /\ server'[x] = server[x]
  <2> HIDE DEF q, p
  <2>. QED
    BY <1>3 DEF StreamInv, TypeOK
<1> HIDE DEF q
<1>8. Fewer
  BY <1>7 DEF Fewer
<1>9. ASSUME Orderly
      PROVE  Orderly'
  <2>1. p \in Peers => ~node[p].isFirst
    <3>1. p \in Peers => node[p].total >= DefaultCache /\ DefaultCache \in Nat \ {0}
      BY <1>1, CacheAssumption DEF Ready
    <3>2. p \in Peers => node[p].total \in Nat
      BY <1>1 DEF StreamInv, TypeOK, NodeStates
    <3>3. p \in Peers => node[p].total > 0
      BY <3>1, <3>2
    <3>. QED
      BY <1>9, <3>3 DEF Orderly
  <2>2. \A x \in Peers : InLine(node'[x].file, net'[x])
    BY <1>2, <1>6, <1>7, <1>9 DEF Orderly
  <2>3. \A x \in Peers : server'[x] # Nobody =>
           \A d \in Out(node'[x].file, net'[x]) : Behind(node'[server'[x]], sent'[x], d)
    BY <1>2, <1>6, <1>7, <1>9 DEF Orderly
  <2>4. \A x \in Peers : server'[x] \in Peers => ~node'[server'[x]].isFirst
    BY <1>7, <1>9, <2>1 DEF Orderly
  <2>. QED
    BY <1>7, <1>9, <2>2, <2>3, <2>4 DEF Orderly
<1>. QED
  BY <1>8, <1>9

\* The oldest packet is lost.
LEMMA LoseOrder ==
    ASSUME StreamInv, NEW n \in Peers, Lose(n)
    PROVE  Fewer /\ (Orderly => Orderly')
<1>1. /\ n \in Nodes /\ node[n] \in NodeStates /\ net \in [Peers -> Seq(Messages)]
      /\ node \in [Nodes -> NodeStates] /\ net[n] \in Seq(Messages)
  BY DEF StreamInv, TypeOK, Nodes
<1>2. net' = Taken(n) /\ UNCHANGED <<node, server, sent>> /\ net[n] # <<>>
  BY DEF Lose, IsBlock
<1>3. /\ Taken(n) \in [Peers -> Seq(Messages)] /\ Taken(n)[n] = Tail(net[n])
      /\ \A x \in Peers : x # n => Taken(n)[x] = net[x]
  <2>1. Tail(net[n]) \in Seq(Messages)
    BY <1>1, <1>2
  <2>. QED
    BY <1>1, <2>1 DEF Taken
<1>4. Fewer
  BY <1>2 DEF Fewer
<1>5. ServesNext(n, node[n], Taken(n))
  <2>1. node' = [node EXCEPT ![n] = node[n]]
    BY <1>1, <1>2
  <2>. QED
    BY <1>1, <1>2, <2>1, QuietStep
<1>6. Orderly => Advance(n, node[n], Taken(n))
  BY <1>1, <1>2, <1>3, FileKept
<1>. QED
  BY <1>1, <1>2, <1>3, <1>4, <1>5, <1>6, OrderStep

\* Budgets are spent.
LEMMA BudgetFalls ==
    ASSUME TypeOK, [Next]_vars, NEW k \in {"loss", "dup", "reorder", "sigint"}
    PROVE  budget'[k] <= budget[k]
<1>1. \A x \in {"loss", "dup", "reorder", "sigint"} : budget[x] \in Nat
  BY DEF TypeOK
<1>2. ASSUME NEW kind, Spend(kind)
      PROVE  budget'[k] <= budget[k]
  <2>1. budget' = [budget EXCEPT ![kind] = @ - 1]
    BY <1>2 DEF Spend
  <2>2. budget'[k] = budget[k] \/ budget'[k] = budget[k] - 1
    BY <2>1 DEF TypeOK
  <2>. QED
    BY <1>1, <2>2
<1>3. ASSUME UNCHANGED budget
      PROVE  budget'[k] <= budget[k]
  BY <1>1, <1>3
<1>4. (UNCHANGED budget) \/ \E kind \in {"loss", "dup", "reorder", "sigint"} : Spend(kind)
  BY DEF Next, vars, Record, ReadThrough, ReadCluster, ReadBlock, ReadClusterEnd, Stream,
         SignalHandler, Join, Reconnect, Receive, NodeInitialStatus, AssembleHeader,
         AssembleBlock, AssembleEnd, ChangeTimecode, StartPlaying, Interrupt, Lose,
         Duplicate, Reorder
<1>. QED
  BY <1>2, <1>3, <1>4

\* A file with other sizes in its headers.
LEMMA SameData ==
    ASSUME NEW f \in Seq(Clusters), NEW g \in Seq(Clusters), Len(g) = Len(f),
           \A j \in 1..Len(f) : g[j].data = f[j].data
    PROVE  /\ Grows(f, g) /\ Written(g) = Written(f)
           /\ Sorted(f) => Sorted(g)
<1>1. Len(f) \in Nat /\ \A j \in 1..Len(f) : Len(f[j].data) \in Nat
  BY FileShape
<1>2. Grows(f, g)
  BY <1>1 DEF Grows
<1>3. Written(g) = Written(f)
  BY DEF Written
<1>4. ASSUME Sorted(f), NEW j \in 1..Len(g), NEW k \in 1..Len(g),
             NEW a \in 1..Len(g[j].data), NEW b \in 1..Len(g[k].data),
             Before(<<j, a>>, <<k, b>>), Junk \notin {g[j].data[a], g[k].data[b]}
      PROVE  Before(g[j].data[a], g[k].data[b])
  <2>1. j \in 1..Len(f) /\ k \in 1..Len(f) /\ g[j].data = f[j].data /\ g[k].data = f[k].data
    OBVIOUS
  <2>2. a \in 1..Len(f[j].data) /\ b \in 1..Len(f[k].data)
    BY <2>1
  <2>. QED
    BY <1>4, <2>1, <2>2, Zenon DEF Sorted
<1>5. Sorted(f) => Sorted(g)
  BY <1>4, Zenon DEF Sorted
<1>. QED
  BY <1>2, <1>3, <1>5

\* A peer that ends reads nothing more.
LEMMA ExitOrder ==
    ASSUME StreamInv, NEW n \in Peers, node[n].up, NEW st \in NodeStates, Exits(n, st),
           st.first = node[n].first, st.total = node[n].total,
           st.isFirst = node[n].isFirst, Len(st.file) = Len(node[n].file),
           \A j \in 1..Len(node[n].file) : st.file[j].data = node[n].file[j].data
    PROVE  Fewer /\ (Orderly => Orderly')
<1> DEFINE w == [st EXCEPT !.up = FALSE]
           queues == [net EXCEPT ![n] = <<>>]
<1>1. node' = [node EXCEPT ![n] = w] /\ net' = queues /\ UNCHANGED <<server, sent>>
  BY DEF Exits
<1>2. /\ w \in NodeStates /\ w.file = st.file /\ w.first = st.first
      /\ w.total = st.total /\ w.isFirst = st.isFirst
  BY DEF NodeStates
<1> HIDE DEF w
<1>3. /\ n \in Nodes /\ n # Origin /\ node[n] \in NodeStates
      /\ net \in [Peers -> Seq(Messages)]
  BY TreeAssumption DEF StreamInv, TypeOK, Nodes
<1>4. /\ queues \in [Peers -> Seq(Messages)] /\ queues[n] = <<>>
      /\ \A c \in Peers : c # n => queues[c] = net[c]
  <2>1. <<>> \in Seq(Messages)
    OBVIOUS
  <2>. QED
    BY <1>3, <2>1
<1> HIDE DEF queues
<1>5. ServesNext(n, w, queues)
  BY <1>1, <1>2, QuietStep
<1>6. ASSUME Orderly
      PROVE  Advance(n, w, queues)
  <2>1. st.file \in Seq(Clusters) /\ node[n].file \in Seq(Clusters)
    BY <1>3 DEF NodeStates
  <2>2. /\ Grows(node[n].file, w.file) /\ Written(w.file) = Written(node[n].file)
        /\ Sorted(w.file)
    <3>1. Sorted(node[n].file)
      BY <1>3, <1>6 DEF Orderly
    <3>. QED
      BY <1>2, <2>1, <3>1, SameData
  <2>3. Coming(<<>>) = {}
    BY DEF Coming
  <2>4. /\ InLine(w.file, <<>>)
        /\ Out(w.file, <<>>) \subseteq Out(node[n].file, net[n])
    BY <2>2, <2>3 DEF InLine, Out
  <2>5. w.total > 0 => ~w.isFirst
    BY <1>2, <1>6 DEF Orderly
  <2>. QED
    BY <1>2, <1>3, <1>4, <2>2, <2>4, <2>5 DEF Advance
<1>. QED
  BY <1>1, <1>2, <1>3, <1>4, <1>5, <1>6, NodeStep

\* END, and a first block without a Timecode.
LEMMA EndOrder ==
    ASSUME StreamInv, NEW n \in Peers, AssembleEnd(n) \/ ChangeTimecode(n)
    PROVE  Fewer /\ (Orderly => Orderly')
<1> DEFINE u == UpdateClusterToWebM(node[n])
<1>1. Exits(n, u) /\ node[n].up
  BY DEF AssembleEnd, ChangeTimecode, Arrived, Runs
<1>2. node[n] \in NodeStates /\ node[n].pending \in Nat
  BY DEF StreamInv, TypeOK, NodeStates, Nodes
<1>3. u \in NodeStates /\ u = [node[n] EXCEPT !.file = Closed(node[n]), !.pending = 0]
  BY <1>2, UpdateFields DEF Closed
<1>4. /\ u.file = Closed(node[n]) /\ u.first = node[n].first
      /\ u.total = node[n].total /\ u.isFirst = node[n].isFirst
  BY <1>2, <1>3 DEF NodeStates
<1> HIDE DEF u
<1>5. /\ Len(u.file) = Len(node[n].file)
      /\ \A j \in 1..Len(node[n].file) : u.file[j].data = node[n].file[j].data
  BY <1>2, <1>4, ClosedSame
<1>. QED
  BY <1>1, <1>3, <1>4, <1>5, ExitOrder

LEMMA InterruptOrder ==
    ASSUME StreamInv, NEW n \in Peers, Interrupt(n)
    PROVE  Fewer /\ (Orderly => Orderly')
<1> DEFINE st == [node[n] EXCEPT !.sigints = 1]
<1>1. Exits(n, st) /\ node[n].up
  BY DEF Interrupt
<1>2. node[n] \in NodeStates
  BY DEF StreamInv, TypeOK, Nodes
<1>3. /\ st \in NodeStates /\ st.file = node[n].file /\ st.first = node[n].first
      /\ st.total = node[n].total /\ st.isFirst = node[n].isFirst
  BY <1>2 DEF NodeStates
<1> HIDE DEF st
<1>. QED
  BY <1>1, <1>3, ExitOrder

\* END brings no block.
LEMMA EndAppended ==
    ASSUME NEW f, NEW q \in Seq(Messages), NEW m \in Messages, m.type # "BLOCK", InLine(f, q)
    PROVE  InLine(f, Append(q, m)) /\ Out(f, Append(q, m)) = Out(f, q)
<1> DEFINE r == Append(q, m)
           L == Len(q)
<1>1. /\ L \in Nat /\ Len(r) = L + 1 /\ r[L + 1] = m /\ \A k \in 1..L : r[k] = q[k]
  OBVIOUS
<1> HIDE DEF r
<1>2. \A k \in 1..Len(r) : k \in 1..L \/ k = L + 1
  BY <1>1
<1>3. \A k \in 1..L : k \in 1..Len(r)
  BY <1>1
<1>4. Coming(r) = Coming(q) /\ \A k \in Coming(q) : r[k] = q[k]
  BY <1>1, <1>2, <1>3 DEF Coming
<1>5. InLine(f, r)
  BY <1>4 DEF InLine
<1>6. Out(f, r) = Out(f, q)
  BY <1>4 DEF Out
<1>. QED
  BY <1>5, <1>6 DEF r

LEMMA SignalOrder ==
    ASSUME StreamInv, SignalHandler
    PROVE  Fewer /\ (Orderly => Orderly')
<1> DEFINE st == [node[Origin] EXCEPT !.sigints = @ + 1]
           m == [type |-> "END"]
<1>1. /\ node' = [node EXCEPT ![Origin] = st] /\ UNCHANGED <<server, sent>>
      /\ \A c \in Peers : net'[c] \in {net[c], Append(net[c], m)}
  BY DEF SignalHandler
<1>2. /\ TypeOK /\ Origin \in Nodes /\ Peers \subseteq Nodes /\ Nobody \notin Nodes
      /\ node[Origin] \in NodeStates
  BY TreeAssumption DEF StreamInv, TypeOK, Nodes
<1>3. /\ st.file = node[Origin].file /\ st.first = node[Origin].first
      /\ st.total = node[Origin].total /\ st.isFirst = node[Origin].isFirst
      /\ st.up = node[Origin].up
  BY <1>2 DEF NodeStates
<1> HIDE DEF st
<1>4. \A x \in Nodes : /\ node'[x].file = node[x].file /\ node'[x].first = node[x].first
                       /\ node'[x].total = node[x].total /\ node'[x].up = node[x].up
                       /\ node'[x].isFirst = node[x].isFirst
  BY <1>1, <1>2, <1>3 DEF TypeOK
<1>5. m \in Messages /\ m.type # "BLOCK"
  BY DEF Messages
<1> HIDE DEF m
<1>6. ASSUME Orderly
      PROVE  Orderly'
  <2>1. ASSUME NEW c \in Peers
        PROVE  /\ InLine(node[c].file, net'[c])
               /\ Out(node[c].file, net'[c]) = Out(node[c].file, net[c])
    <3>1. InLine(node[c].file, net[c]) /\ net[c] \in Seq(Messages)
      BY <1>2, <1>6 DEF Orderly, TypeOK
    <3>. QED
      BY <1>1, <1>5, <3>1, EndAppended
  <2>2. ASSUME NEW c \in Peers, server[c] # Nobody, NEW d \in Out(node[c].file, net[c])
        PROVE  Behind(node'[server[c]], sent[c], d)
    <3>1. server[c] \in Nodes
      BY <1>2, <2>2 DEF TypeOK
    <3>2. Behind(node[server[c]], sent[c], d)
      BY <1>6, <2>2 DEF Orderly
    <3>. QED
      BY <1>4, <3>1, <3>2 DEF Behind
  <2>3. \A n \in Nodes : Sorted(node'[n].file)
    BY <1>4, <1>6 DEF Orderly
  <2>4. \A c \in Peers : InLine(node'[c].file, net'[c])
    BY <1>2, <1>4, <2>1
  <2>5. \A c \in Peers : server'[c] # Nobody =>
           \A d \in Out(node'[c].file, net'[c]) : Behind(node'[server'[c]], sent'[c], d)
    BY <1>1, <1>2, <1>4, <2>1, <2>2
  <2>6. \A c \in Peers : server'[c] \in Peers => ~node'[server'[c]].isFirst
    BY <1>1, <1>2, <1>4, <1>6 DEF Orderly
  <2>7. \A n \in Peers : node'[n].total > 0 => ~node'[n].isFirst
    BY <1>2, <1>4, <1>6 DEF Orderly
  <2>8. /\ node'[Origin].first = 0
        /\ \A j \in 1..Len(node'[Origin].file) : node'[Origin].file[j] = Recorded[j]
    BY <1>2, <1>4, <1>6 DEF Orderly
  <2>. QED
    BY <2>3, <2>4, <2>5, <2>6, <2>7, <2>8 DEF Orderly
<1>7. Fewer
  BY <1>4 DEF Fewer
<1>. QED
  BY <1>6, <1>7

\* A server is found by Join and by Reconnect.
LEMMA ServerMoves ==
    ASSUME TypeOK, [Next]_vars, NEW c \in Peers
    PROVE  \/ server'[c] = server[c]
           \/ server[c] = Nobody /\ server'[c] = Parent[c]
           \/ Reconnect(c)
<1>1. ASSUME NEW x \in Peers, Join(x)
      PROVE  server'[c] = server[c] \/ (server[c] = Nobody /\ server'[c] = Parent[c])
  BY <1>1 DEF Join, TypeOK
<1>2. ASSUME NEW x \in Peers, Reconnect(x)
      PROVE  server'[c] = server[c] \/ Reconnect(c)
  BY <1>2 DEF Reconnect, TypeOK
<1>3. (UNCHANGED server) \/ \E x \in Peers : Join(x) \/ Reconnect(x)
  BY DEF Next, vars, Record, ReadThrough, ReadCluster, ReadBlock, ReadClusterEnd, Stream,
         SignalHandler, Receive, NodeInitialStatus, AssembleHeader, Exits,
         AssembleBlock, AssembleEnd, ChangeTimecode, StartPlaying, Interrupt, Lose,
         Duplicate, Reorder
<1>. QED
  BY <1>1, <1>2, <1>3

\* Whoever has taken another server did it when the one it joined was gone, and
\* never comes back to that one.
LEMMA PlacesKept ==
    ASSUME TypeOK, Gone, [Next]_vars, Fewer
    PROVE  Gone' /\ (InPlace' => InPlace /\ \A c \in Peers : ~Reconnect(c))
<1>1. Parent \in [Peers -> Nodes] /\ Nobody \notin Nodes /\ Peers \subseteq Nodes
  BY TreeAssumption DEF Nodes
<1>2. ASSUME NEW c \in Peers, Reconnect(c)
      PROVE  ~node[Parent[c]].up /\ server'[c] \notin {Nobody, Parent[c]}
  <2>1. /\ server[c] # Nobody /\ ~node[server[c]].up
        /\ server'[c] \in Nodes /\ node[server'[c]].up
    BY <1>1, <1>2 DEF Reconnect, Ready, TypeOK, Nodes
  <2>2. ~node[Parent[c]].up
    BY <2>1 DEF Gone
  <2>. QED
    BY <1>1, <2>1, <2>2
<1>3. ASSUME NEW c \in Peers
      PROVE  server'[c] \in {Nobody, Parent[c]} \/ ~node'[Parent[c]].up
  <2>1. ~node[Parent[c]].up => ~node'[Parent[c]].up
    BY <1>1 DEF Fewer
  <2>. QED
    BY <1>2, <2>1, ServerMoves DEF Gone
<1>4. ASSUME InPlace', NEW c \in Peers
      PROVE  server[c] \in {Nobody, Parent[c]} /\ ~Reconnect(c)
  <2>1. server'[c] \in {Nobody, Parent[c]}
    BY <1>4 DEF InPlace
  <2>. QED
    BY <1>2, <2>1, ServerMoves
<1>. QED
  BY <1>3, <1>4 DEF Gone, InPlace

\* What every step keeps, and what those do that put no packet before another.
LEMMA OrderSteps ==
    ASSUME StreamInv, [Next]_vars
    PROVE  /\ Fewer
           /\ \/ Orderly => Orderly'
              \/ \E n \in Peers : Duplicate(n) \/ Reorder(n) \/ Reconnect(n)
<1>1. CASE Next
  <2>1. CASE \E n \in Peers : Duplicate(n) \/ Reorder(n) \/ Reconnect(n)
    <3>1. UNCHANGED node
      BY <2>1 DEF Duplicate, Reorder, Reconnect
    <3>. QED
      BY <2>1, <3>1 DEF Fewer
  <2>2. CASE ~\E n \in Peers : Duplicate(n) \/ Reorder(n) \/ Reconnect(n)
    BY <1>1, <2>2, RecordOrder, ReadOrder, StreamOrder, JoinOrder, InitialStatusOrder,
       HeaderOrder, BlockOrder, EndOrder, PlayOrder, InterruptOrder, SignalOrder,
       LoseOrder DEF Next, Receive
  <2>. QED
    BY <2>1, <2>2
<1>2. CASE UNCHANGED vars
  BY <1>2 DEF vars, Fewer, Orderly
<1>. QED
  BY <1>1, <1>2

LEMMA OrderNext == OrderInv /\ [Next]_vars => OrderInv'
<1> SUFFICES ASSUME OrderInv, [Next]_vars PROVE OrderInv'
  OBVIOUS
<1> DEFINE kinds == {"loss", "dup", "reorder", "sigint"}
<1>1. StreamInv /\ StreamInv' /\ TypeOK /\ TypeOK'
  BY StreamNext DEF OrderInv, StreamInv
<1>2. \A k \in kinds : budget[k] <= Budget[k] /\ budget'[k] <= budget[k]
  BY <1>1, BudgetFalls DEF OrderInv
<1>3. \A k \in kinds : budget[k] \in Nat /\ budget'[k] \in Nat /\ Budget[k] \in Nat
  BY <1>1, BudgetAssumption DEF TypeOK
<1>4. \A k \in kinds : budget'[k] <= Budget[k]
  BY <1>2, <1>3
<1>5. /\ Fewer
      /\ \/ Orderly => Orderly'
         \/ \E n \in Peers : Duplicate(n) \/ Reorder(n) \/ Reconnect(n)
  BY <1>1, OrderSteps
<1>6. Gone' /\ (InPlace' => InPlace /\ \A c \in Peers : ~Reconnect(c))
  BY <1>1, <1>5, PlacesKept DEF OrderInv
<1>7. ASSUME ~Spent({"dup", "reorder"})', InPlace'
      PROVE  Orderly'
  <2>1. \A k \in {"dup", "reorder"} : budget'[k] = Budget[k] /\ budget[k] = Budget[k]
    BY <1>2, <1>3, <1>4, <1>7 DEF Spent
  <2>2. ~Spent({"dup", "reorder"})
    BY <1>3, <2>1 DEF Spent
  <2>3. Orderly
    BY <1>6, <1>7, <2>2 DEF OrderInv
  <2>4. \A n \in Peers : ~Duplicate(n) /\ ~Reorder(n)
    <3>1. ~Spend("dup") /\ ~Spend("reorder")
      <4>1. Spend("dup") => budget'["dup"] = budget["dup"] - 1
        BY <1>1 DEF Spend, TypeOK
      <4>2. Spend("reorder") => budget'["reorder"] = budget["reorder"] - 1
        BY <1>1 DEF Spend, TypeOK
      <4>. QED
        BY <1>3, <2>1, <4>1, <4>2
    <3>. QED
      BY <3>1 DEF Duplicate, Reorder
  <2>. QED
    BY <1>5, <1>6, <1>7, <2>3, <2>4
<1>. QED
  BY <1>1, <1>4, <1>6, <1>7 DEF OrderInv

LEMMA OrderInit == Init => OrderInv
<1> SUFFICES ASSUME Init PROVE OrderInv
  OBVIOUS
<1>1. StreamInv /\ Origin \in Nodes /\ Origin \notin Peers /\ Nobody \notin Nodes
  BY StreamInit, TreeAssumption DEF Nodes
<1>2. PICK z \in Fresh :
          node = [n \in Nodes |->
                    IF n = Origin
                    THEN [Blank EXCEPT !.file = SubSeq(Recorded, 1, Lead),
                                       !.prevSeq = z]
                    ELSE Blank]
  BY DEF Init
<1> DEFINE f == SubSeq(Recorded, 1, Lead)
<1>3. /\ f \in Seq(Clusters) /\ Len(f) = Lead /\ Lead <= Len(Sizes)
      /\ \A j \in 1..Lead : f[j] = Recorded[j]
  <2>1. /\ Recorded \in Seq(Clusters) /\ Len(Recorded) = Len(Sizes) /\ Len(Sizes) \in Nat
        /\ Lead \in 0..Len(Sizes)
    BY RecordedFile, SizesOf, SizesAssumption
  <2> HIDE DEF f
  <2>. QED
    BY <2>1 DEF f
<1> HIDE DEF f
<1>4. /\ node[Origin].file = f /\ node[Origin].first = 0
      /\ \A c \in Peers : node[c] = Blank
  BY <1>1, <1>2 DEF Nodes, Blank, f
<1>5. /\ \A c \in Peers : server[c] = Nobody /\ net[c] = <<>>
      /\ budget = Budget
  BY DEF Init
<1>6. Sorted(f) /\ Sorted(<<>>)
  <2>1. Sorted(f)
    BY <1>3, RecordedSorted
  <2>. QED
    BY <2>1 DEF Sorted
<1>7. Blank.file = <<>> /\ Blank.total = 0 /\ InLine(<<>>, <<>>)
  BY DEF Blank, InLine, Written, Coming
<1>8. Gone
  BY <1>5 DEF Gone
<1>9. Orderly
  <2>1. \A n \in Nodes : Sorted(node[n].file)
    BY <1>4, <1>6, <1>7 DEF Nodes
  <2>. QED
    BY <1>1, <1>3, <1>4, <1>5, <1>7, <2>1 DEF Orderly, Nodes
<1>10. \A k \in {"loss", "dup", "reorder", "sigint"} : budget[k] <= Budget[k]
  BY <1>5, BudgetAssumption
<1>. QED
  BY <1>1, <1>8, <1>9, <1>10 DEF OrderInv

\* OrderKept: whatever is lost, whoever ends and whatever ends it, whatever the
\* tree, the sizes and the memory malloc returns, as long as every peer has the
\* server it joined, it writes the blocks in the origin's order, none twice.
THEOREM LossyOrder == Spec => []OrderKept
<1>1. OrderInv => OrderKept
  BY DEF OrderInv, Orderly, OrderKept, Nodes
<1>. QED
  BY <1>1, OrderInit, OrderNext, PTL DEF Spec

=============================================================================
