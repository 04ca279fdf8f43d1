---------------------------- MODULE OverlayTree ----------------------------
(***************************************************************************)
(* What joining builds while nothing fails and nobody departs, for every   *)
(* number of peers: a tree whose links agree at both ends, ids that are    *)
(* given once and kept, and lists that name every node by its id; and that *)
(* this implements Membership.                                             *)
(***************************************************************************)
EXTENDS OverlayProofs, SequenceTheorems

-----------------------------------------------------------------------------
(* The environment and the inductive invariant.                             *)

\* No fault, no departure, no packet slower than a timer, a warm origin, and
\* more ids and layers than peers, so that neither counter wraps.
Calm ==
    /\ Settled /\ Prompt /\ OriginWarm
    /\ Budget["loss"] = 0 /\ Budget["reorder"] = 0 /\ Budget["crash"] = 0
    /\ IsFiniteSet(Peers)
    /\ Cardinality(Peers) < IdSpace /\ Cardinality(Peers) < LayerSpace

\* k is the id of n, which it may not have been told yet: the ID packet is
\* still on its way.
Named(n, k) ==
    IF n = Origin THEN k = ORIGIN_ID
    ELSE k # 0 /\ \/ My(n).id = k
                  \/ \E p \in Fly(net, Origin, n) : p.type = "ID" /\ p.body[1].id = k

NamedPeers == {n \in Peers : \E k \in Ids : Named(n, k)}

\* A status names a node by its id; a record for b names another node so.
Truthful(st) == st.ip \in Nodes /\ Named(st.ip, st.id)
Tells(b, recs) == \A st \in Elements(recs) : Truthful(st) /\ st.ip # b

\* c has slot i of m.
Serves(m, i, c) == i \in ChildSlots /\ Bit(connected[m], i) /\ dst[m][i] = c

ServedPeers == {c \in Peers : \E m \in Nodes : \E i \in ChildSlots : Serves(m, i, c)}

\* What a packet under way from a to b says.
Says(a, b, p) ==
    /\ p.type \in {"SETUP", "ID", "INITIAL_STATUS", "ADVERTISE", "REQ_LIST", "RES_LIST"}
    /\ p.type = "SETUP" =>
         /\ a \in Peers
         /\ IF b = Origin
            THEN p.body[1].id = 0 /\ \A k \in Ids : ~Named(a, k)
            ELSE p.body[1].id # 0 /\ p.body[1].id = My(a).id /\ p.body[1].ip = a
    /\ p.type = "ID" => a = Origin /\ b \in Peers /\ p.body[1].id # 0
    /\ p.type = "INITIAL_STATUS" =>
         /\ Len(p.body) >= 2 /\ p.body[2] = My(a) /\ Tells(b, Tail(p.body))
         /\ \E i \in ChildSlots : Serves(a, i, b) /\ p.body[1] = status[a][i]
    /\ p.type = "ADVERTISE" =>
         /\ dst[b][PARENT_ID] = a
         /\ p.body # <<>> /\ Tells(b, Tail(p.body))
         /\ \/ p.body[1].ip = NoAddr
            \/ p.body[1].ip \in Peers \ {b} /\ Truthful(p.body[1])
    /\ p.type = "REQ_LIST" => a \in Peers /\ ~isSetup[a] /\ p.body[1].id = My(a).id
    /\ p.type = "RES_LIST" => b \in Peers /\ ~isSetup[b] /\ Tells(b, p.body)

\* The origin tells a peer its id before anything else: q starts with an ID
\* packet when the peer has none, and holds no other.
IdFirst(q, unnamed) == \A i \in 1..Len(q) : q[i].type = "ID" <=> i = 1 /\ unnamed
InOrder(n) == IdFirst(net[Origin][n], My(n).id = 0)

\* The flags, the child count and the list of a node.
TreeNode(n) ==
    /\ up[n] # "dead" /\ ~isRetry[n] /\ childNum[n] = Kids(connected[n])
    /\ HasParent(n) <=> n \in Peers /\ ~isSetup[n]
    /\ ~isSetup[n] => My(n).layer <= Cardinality(ServedPeers)
    /\ \A e \in Elements(nodesList[n]) : Truthful(e) /\ (e.ip = n => n = Origin)

\* A peer learns its id and address together, before it is sent elsewhere;
\* it is served by the node it asked last.
TreePeer(n) ==
    /\ My(n).id = 0 => isSetup[n] /\ My(n).ip = NoAddr /\ dst[n][PARENT_ID] = Origin
    /\ My(n).id # 0 => My(n).ip = n
    /\ up[n] = "off" => \A k \in Ids : ~Named(n, k)
    /\ dst[n][PARENT_ID] # n
    /\ up[n] = "up" /\ isSetup[n] /\ dst[n][PARENT_ID] = Origin
          => ~NoToken(net, Asking(n))
    /\ ~isSetup[n] => /\ dst[n][PARENT_ID] \in Nodes
                      /\ \E i \in ChildSlots : Serves(dst[n][PARENT_ID], i, n)
    /\ InOrder(n)

\* A child slot: the child asked this node last and is one layer below; once
\* it has joined, the two ends hold each other's status.
Linked(m, i) ==
    LET c == dst[m][i] IN
    /\ c \in Peers /\ dst[c][PARENT_ID] = m
    /\ status[m][i].ip = c /\ Truthful(status[m][i])
    /\ status[m][i].layer = My(m).layer + 1
    /\ status[m][i].layer <= Cardinality(ServedPeers)
    /\ IF isSetup[c]
       THEN \E p \in Fly(net, m, c) : p.type = "INITIAL_STATUS"
       ELSE status[m][i] = My(c) /\ status[c][PARENT_ID] = My(m)

\* Ids are given once.
IdsGiven ==
    /\ \A m, n \in Nodes : \A k \in Ids : Named(m, k) /\ Named(n, k) => m = n
    /\ \A n \in Nodes : \A k, l \in Ids : Named(n, k) /\ Named(n, l) => k = l
    /\ \A n \in Nodes : \A k \in Ids : Named(n, k) => k <= nextId
    /\ nextId <= Cardinality(NamedPeers)

\* The origin is its own, and always ready.
OriginReady == My(Origin) = OriginStatus /\ cached[Origin] /\ ~isSetup[Origin]

TreeParts ==
    /\ \A a, b \in Nodes : \A p \in Fly(net, a, b) : Says(a, b, p)
    /\ \A n \in Nodes : TreeNode(n)
    /\ \A n \in Peers : TreePeer(n)
    /\ \A m \in Nodes : \A i \in ChildSlots : Bit(connected[m], i) => Linked(m, i)
    /\ \A m \in Nodes : Bit(connected[m], 0) /\ Bit(connected[m], 1) => dst[m][0] # dst[m][1]
    /\ IdsGiven /\ OriginReady

TreeInv == OrphanInv /\ ListInv /\ TreeParts

-----------------------------------------------------------------------------
(* Queues and tokens.                                                       *)

\* Two tokens under way are one.
LEMMA SameToken ==
    ASSUME NEW w \in Nets, NEW F, OneToken(w, F),
           NEW a \in Nodes, NEW b \in Nodes, NEW p \in Fly(w, a, b), p \in F[a][b],
           NEW c \in Nodes, NEW d \in Nodes, NEW q \in Fly(w, c, d), q \in F[c][d]
    PROVE  a = c /\ b = d /\ p = q
<1>1. a = c /\ b = d
  BY WithoutElements DEF OneToken, Fly
<1>2. PICK i \in 1..Len(w[a][b]), j \in 1..Len(w[a][b]) : w[a][b][i] = p /\ w[a][b][j] = q
  BY <1>1 DEF Fly, Elements
<1>3. i = j
  BY <1>1, <1>2 DEF OneToken, Once
<1>. QED
  BY <1>1, <1>2, <1>3

\* A token that is under way.
LEMMA SomeToken ==
    ASSUME NEW w, NEW F
    PROVE  ~NoToken(w, F) <=> \E a, b \in Nodes : \E p \in Fly(w, a, b) : p \in F[a][b]
BY WithoutElements DEF NoToken, Fly

\* Taking the head leaves the rest.
LEMMA TailLeaves ==
    ASSUME NEW S, NEW q \in Seq(S), q # <<>>
    PROVE  Elements(q) \subseteq Elements(Tail(q)) \cup {Head(q)}
<1>1. \A i \in 1..Len(q) : i = 1 \/ (i - 1 \in 1..Len(Tail(q)) /\ Tail(q)[i - 1] = q[i])
  OBVIOUS
<1>2. Head(q) = q[1]
  OBVIOUS
<1>. QED
  BY <1>1, <1>2 DEF Elements

\* A concatenation holds both parts.
LEMMA ConcatHolds ==
    ASSUME NEW S, NEW q \in Seq(S), NEW r \in Seq(S)
    PROVE  Elements(q) \cup Elements(r) \subseteq Elements(q \o r)
<1>1. /\ Len(q \o r) = Len(q) + Len(r) /\ Len(q) \in Nat /\ Len(r) \in Nat
      /\ \A k \in 1..Len(q) : (q \o r)[k] = q[k]
      /\ \A k \in (Len(q) + 1)..(Len(q) + Len(r)) : (q \o r)[k] = r[k - Len(q)]
  BY ConcatAt
<1>2. \A k \in 1..Len(q) : k \in 1..Len(q \o r)
  BY <1>1
<1>3. ASSUME NEW k \in 1..Len(r)
      PROVE  \E j \in 1..Len(q \o r) : (q \o r)[j] = r[k]
  <2>1. /\ k + Len(q) \in (Len(q) + 1)..(Len(q) + Len(r))
        /\ k + Len(q) \in 1..Len(q \o r) /\ (k + Len(q)) - Len(q) = k
    BY <1>1
  <2>. QED
    BY <1>1, <2>1
<1>4. \A k \in 1..Len(q) : q[k] \in Elements(q \o r)
  BY <1>1, <1>2 DEF Elements
<1>5. \A k \in 1..Len(r) : r[k] \in Elements(q \o r)
  BY <1>3 DEF Elements
<1>. QED
  BY <1>4, <1>5 DEF Elements

\* The queue from x to y once n has taken the oldest packet from s, and what
\* n puts behind it when it sends msgs to a.
Rest(s, n, x, y) == IF x = s /\ y = n THEN Tail(net[x][y]) ELSE net[x][y]
Added(n, a, msgs, x, y) == IF x = n /\ y = a /\ up[a] = "up" THEN msgs ELSE <<>>
QueueThen(s, n, a, msgs, x, y) == Rest(s, n, x, y) \o Added(n, a, msgs, x, y)

LEMMA QueueAfter ==
    ASSUME NEW s, NEW n \in Nodes, NEW a, NEW msgs,
           Reply(s, n, To(a, msgs)), NEW x \in Nodes, NEW y \in Nodes
    PROVE  net'[x][y] = QueueThen(s, n, a, msgs, x, y)
<1>1. net'[x][y] = Rest(s, n, x, y) \o (IF x = n THEN To(a, msgs)[y] ELSE <<>>)
  BY DEF Reply, Rest
<1>2. To(a, msgs)[y] = IF y = a /\ up[y] = "up" THEN msgs ELSE <<>>
  BY DEF To
<1>3. (IF x = n THEN To(a, msgs)[y] ELSE <<>>) = Added(n, a, msgs, x, y)
  BY <1>2 DEF Added
<1>. QED
  BY <1>1, <1>3 DEF QueueThen

\* What stays under way after a handler, and what it adds.
LEMMA HandlerLeaves ==
    ASSUME TypeOK, NEW s \in Nodes, NEW n \in Nodes, net[s][n] # <<>>,
           NEW a, NEW msgs \in Seq(Packet), Reply(s, n, To(a, msgs))
    PROVE  /\ \A x, y \in Nodes : \A p \in Fly(net, x, y) :
                 p \in Fly(net', x, y) \/ (x = s /\ y = n /\ p = Head(net[s][n]))
           /\ a \in Nodes /\ up[a] = "up" => Elements(msgs) \subseteq Fly(net', n, a)
<1>1. /\ \A x, y \in Nodes : net[x][y] \in Seq(Packet)
      /\ Tail(net[s][n]) \in Seq(Packet) /\ <<>> \in Seq(Packet)
  BY TailPlace DEF TypeOK
<1> DEFINE q(x, y) == Rest(s, n, x, y)
           r(x, y) == Added(n, a, msgs, x, y)
<1>2. ASSUME NEW x \in Nodes, NEW y \in Nodes
      PROVE  net'[x][y] = q(x, y) \o r(x, y)
  <2>1. net'[x][y] = QueueThen(s, n, a, msgs, x, y)
    BY QueueAfter
  <2>. QED
    BY <2>1 DEF QueueThen
<1>3. \A x, y \in Nodes : q(x, y) \in Seq(Packet) /\ r(x, y) \in Seq(Packet)
  BY <1>1 DEF Rest, Added
<1>4. \A x, y \in Nodes : \A p \in Elements(net[x][y]) :
          p \in Elements(q(x, y)) \/ (x = s /\ y = n /\ p = Head(net[s][n]))
  <2>1. Elements(net[s][n]) \subseteq Elements(Tail(net[s][n])) \cup {Head(net[s][n])}
    BY <1>1, TailLeaves
  <2>. QED
    BY <2>1 DEF Rest
<1>5. a \in Nodes /\ up[a] = "up" => r(n, a) = msgs
  BY DEF Added
<1> HIDE DEF q, r
<1>6. \A x, y \in Nodes : Elements(q(x, y)) \cup Elements(r(x, y)) \subseteq Fly(net', x, y)
  <2>1. ASSUME NEW x \in Nodes, NEW y \in Nodes
        PROVE  Elements(q(x, y)) \cup Elements(r(x, y)) \subseteq Elements(q(x, y) \o r(x, y))
    BY <1>3, ConcatHolds
  <2>. QED
    BY <1>2, <2>1 DEF Fly
<1>7. \A x, y \in Nodes : \A p \in Fly(net, x, y) :
          p \in Fly(net', x, y) \/ (x = s /\ y = n /\ p = Head(net[s][n]))
  BY <1>4, <1>6 DEF Fly
<1>8. a \in Nodes /\ up[a] = "up" => Elements(msgs) \subseteq Fly(net', n, a)
  BY <1>5, <1>6
<1>. QED
  BY <1>7, <1>8

\* The order of a queue without its head, and with more behind it.
LEMMA OrderKept ==
    ASSUME NEW q \in Seq(Packet), NEW z \in BOOLEAN, IdFirst(q, z)
    PROVE  /\ q # <<>> => IdFirst(Tail(q), FALSE) /\ (Head(q).type = "ID" <=> z)
           /\ \A r \in Seq(Packet) :
                 ~z /\ (\A p \in Elements(r) : p.type # "ID") => IdFirst(q \o r, z)
<1>1. ASSUME q # <<>>
      PROVE  IdFirst(Tail(q), FALSE) /\ (Head(q).type = "ID" <=> z)
  BY <1>1, TailPlace DEF IdFirst
<1>2. ASSUME NEW r \in Seq(Packet), ~z, \A p \in Elements(r) : p.type # "ID"
      PROVE  IdFirst(q \o r, z)
  <2>1. \A i \in 1..Len(q \o r) : (q \o r)[i] \in Elements(q) \cup Elements(r)
    BY ConcatPlace DEF Elements
  <2>2. \A p \in Elements(q) : p.type # "ID"
    BY <1>2 DEF IdFirst, Elements
  <2>. QED
    BY <1>2, <2>1, <2>2 DEF IdFirst
<1>. QED
  BY <1>1, <1>2

\* ID, then an answer.
LEMMA OrderFirst ==
    ASSUME NEW p, NEW q, p.type = "ID", q.type # "ID"
    PROVE  IdFirst(<<p, q>>, TRUE)
<1>1. \A i \in 1..Len(<<p, q>>) : i = 1 \/ i = 2
  OBVIOUS
<1>. QED
  BY <1>1 DEF IdFirst

-----------------------------------------------------------------------------
(* What the invariant says of the slots and of the packets.                 *)

\* The parts that are used everywhere.
LEMMA TreeBase ==
    ASSUME TreeInv
    PROVE  /\ TypeOK /\ TypeInv /\ LinkInv /\ net \in Nets /\ NoAddr \notin Nodes
           /\ \A n \in Nodes : OneToken(net, Asking(n)) /\ LinkNode(n) /\ TreeNode(n)
           /\ \A a, b \in Nodes : \A p \in Fly(net, a, b) :
                 p \in Packet /\ Says(a, b, p) /\ Fit(a, b, p)
           /\ Origin \in Nodes /\ Origin \notin Peers /\ Peers \subseteq Nodes
           /\ PARENT_ID = 2 /\ MY_ID = 3 /\ ChildSlots = {0, 1} /\ Slots = {0, 1, 2, 3}
<1>1. TypeOK /\ TypeInv /\ LinkInv /\ net \in Nets
  BY DEF TreeInv, OrphanInv, LinkInv, TypeInv, TypeOK, Nets
<1>2. \A a, b \in Nodes : \A p \in Fly(net, a, b) : p \in Packet
  BY <1>1 DEF Nets, Fly, Elements
<1>3. \A a, b \in Nodes : \A p \in Fly(net, a, b) : Says(a, b, p) /\ Fit(a, b, p)
  BY <1>1 DEF TreeInv, TreeParts, LinkInv
<1>4. \A n \in Nodes : OneToken(net, Asking(n)) /\ LinkNode(n) /\ TreeNode(n)
  BY <1>1 DEF TreeInv, TreeParts, LinkInv, LinkNode
<1>. QED
  BY <1>1, <1>2, <1>3, <1>4, NodesAssumption
     DEF Nodes, PARENT_ID, MY_ID, ChildSlots, Slots

\* The first record of a packet that has one.
LEMMA FirstRecord ==
    ASSUME NEW p \in Packet, p.body # <<>>
    PROVE  p.body[1] \in Status /\ p.body[1].id \in Ids /\ p.body \in Seq(Status)
<1>1. p.body \in Seq(Status)
  BY DEF Packet
<1>2. p.body[1] \in Status
  BY <1>1
<1>. QED
  BY <1>1, <1>2, StatusParts

\* Names are ids.
LEMMA NamesAreIds ==
    ASSUME TreeInv, NEW n \in Nodes, NEW k, Named(n, k)
    PROVE  k \in Ids
<1>1. My(n).id \in Ids /\ ORIGIN_ID \in Ids
  BY TreeBase, NodeParts, StatusParts, Values DEF ORIGIN_ID
<1>2. \A p \in Fly(net, Origin, n) : p.type = "ID" => p.body[1].id \in Ids
  <2>1. \A p \in Fly(net, Origin, n) : p \in Packet
    BY TreeBase
  <2>2. \A p \in Packet : p.type = "ID" => p.body # <<>>
    BY DEF Packet, Addressed, Types
  <2>. QED
    BY <2>1, <2>2, FirstRecord
<1>. QED
  BY <1>1, <1>2 DEF Named

\* A name belongs to one node, and a node has one.
LEMMA OneName ==
    ASSUME TreeInv, NEW n \in Nodes, NEW k, Named(n, k)
    PROVE  /\ \A m \in Nodes : Named(m, k) => m = n
           /\ \A l : Named(n, l) => l = k
           /\ k \in Ids /\ k <= nextId
BY NamesAreIds DEF TreeInv, TreeParts, IdsGiven

\* A node that has joined is known by its id and address.
LEMMA JoinedTruthful ==
    ASSUME TreeInv, NEW n \in Nodes, ~isSetup[n]
    PROVE  Truthful(My(n)) /\ My(n).ip = n /\ (n \in Peers => My(n).id # 0)
<1>1. CASE n = Origin
  BY <1>1, TreeBase DEF TreeInv, TreeParts, OriginReady, OriginStatus, Truthful, Named
<1>2. CASE n \in Peers
  <2>1. My(n).id # 0 /\ My(n).ip = n /\ n # Origin
    BY <1>2, TreeBase DEF TreeInv, TreeParts, TreePeer
  <2>. QED
    BY <2>1 DEF Truthful, Named
<1>. QED
  BY <1>1, <1>2 DEF Nodes

\* A peer that has an id is known by it too.
LEMMA NumberedTruthful ==
    ASSUME TreeInv, NEW n \in Peers, My(n).id # 0
    PROVE  Truthful(My(n)) /\ My(n).ip = n
<1>1. My(n).ip = n /\ n # Origin /\ n \in Nodes
  BY TreeBase DEF TreeInv, TreeParts, TreePeer
<1>. QED
  BY <1>1 DEF Truthful, Named

\* Only a node that has joined has a neighbour.
LEMMA JoinedServes ==
    ASSUME TreeInv, NEW n \in Nodes, NEW i \in Slots, Bit(connected[n], i)
    PROVE  ~isSetup[n]
BY TreeBase, NoBits DEF LinkNode

\* What a connected slot holds.
LEMMA SlotTruthful ==
    ASSUME TreeInv, NEW n \in Nodes, NEW i \in Slots, Bit(connected[n], i)
    PROVE  /\ i \in 0..2 /\ ~isSetup[n]
           /\ Truthful(status[n][i]) /\ status[n][i].ip = dst[n][i] /\ dst[n][i] \in Nodes
           /\ i # PARENT_ID => Linked(n, i) /\ dst[n][i] \in Peers
           /\ i = PARENT_ID => /\ n \in Peers /\ status[n][i] = My(dst[n][i])
                               /\ ~isSetup[dst[n][i]]
                               /\ \E j \in ChildSlots : Serves(dst[n][i], j, n)
<1>1. ~isSetup[n]
  BY JoinedServes
<1>2. i \in 0..2
  <2>1. connected[n] \in 0..7
    <3>1. connected[n] \in 0..255
      BY TreeBase DEF TypeOK
    <3>2. connected[n] < 8
      BY DEF TreeInv, OrphanInv, OrphanNode
    <3>. QED
      BY <3>1, <3>2
  <2>2. ~Bit(connected[n], 3)
    BY <2>1, SmallBits
  <2>. QED
    BY <2>2, TreeBase
<1>3. CASE i # PARENT_ID
  <2>1. i \in ChildSlots /\ Linked(n, i)
    BY <1>2, <1>3, TreeBase DEF TreeInv, TreeParts
  <2>. QED
    BY <1>1, <1>2, <1>3, <2>1, TreeBase DEF Linked, Truthful
<1>4. CASE i = PARENT_ID
  <2> DEFINE m == dst[n][PARENT_ID]
  <2>1. n \in Peers /\ m \in Nodes /\ \E j \in ChildSlots : Serves(m, j, n)
    BY <1>4, <1>1, TreeBase DEF TreeNode, HasParent, TreeInv, TreeParts, TreePeer
  <2>2. PICK j \in ChildSlots : Serves(m, j, n)
    BY <2>1
  <2>3. Linked(m, j)
    BY <2>1, <2>2 DEF Serves, TreeInv, TreeParts
  <2>4. status[n][PARENT_ID] = My(m)
    BY <1>1, <2>2, <2>3 DEF Linked, Serves
  <2>5. ~isSetup[m]
    BY <2>1, <2>2, JoinedServes, TreeBase DEF Serves
  <2>6. Truthful(My(m)) /\ My(m).ip = m
    BY <2>1, <2>5, JoinedTruthful
  <2>. QED
    BY <1>1, <1>2, <1>4, <2>1, <2>4, <2>5, <2>6
<1>. QED
  BY <1>3, <1>4

\* A request under way: its sender has not joined and nobody serves it.
LEMMA AskingUnserved ==
    ASSUME TreeInv, NEW s \in Nodes, NEW n \in Nodes, NEW h \in Fly(net, s, n),
           h.type = "SETUP"
    PROVE  /\ s \in Peers /\ isSetup[s] /\ up[s] = "up" /\ s # n /\ dst[s][PARENT_ID] = n
           /\ \A m \in Nodes : \A i \in 0..2 : Bit(connected[m], i) => dst[m][i] # s
           /\ h \in Asking(s)[s][n]
<1>1. h \in Asking(s)[s][n] /\ Says(s, n, h) /\ Fit(s, n, h)
  BY TreeBase DEF Asking
<1>2. ~NoToken(net, Asking(s))
  BY <1>1, SomeToken
<1>3. isSetup[s] /\ up[s] # "off"
  BY <1>2, TreeBase DEF LinkNode
<1>4. up[s] = "up" /\ s \in Peers /\ dst[s][PARENT_ID] = n
  <2>1. up[s] \in {"off", "up", "dead"} /\ up[s] # "dead"
    BY TreeBase DEF TypeOK, TreeNode
  <2>. QED
    BY <1>1, <1>3, <2>1 DEF Says, Fit
<1>5. s # n
  BY <1>4 DEF TreeInv, TreeParts, TreePeer
<1>6. ASSUME NEW m \in Nodes, NEW i \in 0..2, Bit(connected[m], i), dst[m][i] = s
      PROVE  FALSE
  <2>1. i \in Slots
    BY TreeBase
  <2>2. i # PARENT_ID /\ Linked(m, i)
    BY <1>3, <1>6, <2>1, SlotTruthful
  <2>3. PICK q \in Fly(net, m, s) : q.type = "INITIAL_STATUS"
    BY <1>3, <1>6, <2>2 DEF Linked
  <2>4. q \in Asking(s)[m][s]
    BY <2>3, TreeBase DEF Asking
  <2>. QED
    BY <1>1, <2>3, <2>4, SameToken, TreeBase
<1>. QED
  BY <1>1, <1>3, <1>4, <1>5, <1>6

-----------------------------------------------------------------------------
(* What the senders put in a packet.                                        *)

\* Records that are all there: none of the zeroed buffer is sent.
LEMMA RecordsWithin ==
    ASSUME NEW recs \in Seq(Status), NEW num \in Nat, num <= Len(recs)
    PROVE  /\ Records(recs, num) \in Seq(Status) /\ Len(Records(recs, num)) = num
           /\ \A k \in 1..num : Records(recs, num)[k] = recs[k]
           /\ Elements(Records(recs, num)) \subseteq Elements(recs)
           /\ num > 0 => \A e \in Elements(Tail(Records(recs, num))) :
                            \E k \in 2..Len(recs) : e = recs[k]
<1> DEFINE q == Records(recs, num)
<1>1. q \in Seq(Status)
  BY RecordsType
<1>2. Len(q) = num /\ \A k \in 1..num : q[k] = recs[k]
  BY DEF Records
<1>3. Elements(q) \subseteq Elements(recs)
  BY <1>2 DEF Elements
<1> HIDE DEF q
<1>4. ASSUME num > 0, NEW e \in Elements(Tail(q))
      PROVE  \E k \in 2..Len(recs) : e = recs[k]
  <2>1. q # <<>>
    BY <1>1, <1>2, <1>4
  <2>2. PICK i \in 1..Len(Tail(q)) : e = Tail(q)[i]
    BY <1>4 DEF Elements
  <2>3. i + 1 \in 1..Len(q) /\ e = q[i + 1] /\ i + 1 \in 2..Len(recs)
    BY <1>1, <1>2, <2>1, <2>2, TailPlace
  <2>. QED
    BY <1>2, <2>3
<1>. QED
  BY <1>1, <1>2, <1>3, <1>4 DEF q

\* A slot that is sent along.
KeptAt(n, i, skip) == i # skip /\ Bit(connected[n], i)

AsNumber(b) == IF b THEN 1 ELSE 0

\* The neighbours sent along, by number and content.
LEMMA NeighbourRecords ==
    ASSUME TypeOK, NEW n \in Nodes, NEW skip
    PROVE  /\ Neighbours(n, skip) \in Seq(Status)
           /\ Len(Neighbours(n, skip)) = AsNumber(KeptAt(n, 0, skip))
                 + AsNumber(KeptAt(n, 1, skip)) + AsNumber(KeptAt(n, 2, skip))
           /\ \A e \in Elements(Neighbours(n, skip)) :
                 \E i \in 0..2 : KeptAt(n, i, skip) /\ e = status[n][i]
<1>1. \A i \in 0..2 : /\ Kept(n, i, skip) \in Seq(Status)
                      /\ Len(Kept(n, i, skip)) = AsNumber(KeptAt(n, i, skip))
                      /\ \A e \in Elements(Kept(n, i, skip)) :
                            KeptAt(n, i, skip) /\ e = status[n][i]
  <2>1. \A i \in 0..2 : Kept(n, i, skip) \in Seq(Status)
    BY KeptType DEF Slots
  <2>2. ASSUME NEW i \in 0..2
        PROVE  /\ Len(Kept(n, i, skip)) = AsNumber(KeptAt(n, i, skip))
               /\ \A e \in Elements(Kept(n, i, skip)) :
                            KeptAt(n, i, skip) /\ e = status[n][i]
    <3>1. CASE KeptAt(n, i, skip)
      <4>1. Kept(n, i, skip) = <<status[n][i]>>
        BY <3>1 DEF Kept, KeptAt
      <4>. QED
        BY <3>1, <4>1, FewElements DEF AsNumber
    <3>2. CASE ~KeptAt(n, i, skip)
      <4>1. Kept(n, i, skip) = <<>>
        BY <3>2 DEF Kept, KeptAt
      <4>. QED
        BY <3>2, <4>1, FewElements DEF AsNumber
    <3>. QED
      BY <3>1, <3>2
  <2>. QED
    BY <2>1, <2>2
<1> DEFINE a == Kept(n, 0, skip)
           b == Kept(n, 1, skip)
           c == Kept(n, 2, skip)
<1>2. a \in Seq(Status) /\ b \in Seq(Status) /\ c \in Seq(Status)
  BY <1>1
<1>3. Neighbours(n, skip) = (a \o b) \o c
  BY DEF Neighbours
<1>4. Len(a) = AsNumber(KeptAt(n, 0, skip)) /\ Len(b) = AsNumber(KeptAt(n, 1, skip))
      /\ Len(c) = AsNumber(KeptAt(n, 2, skip))
  BY <1>1
<1>5. \A e \in Elements(a) \cup Elements(b) \cup Elements(c) :
                 \E i \in 0..2 : KeptAt(n, i, skip) /\ e = status[n][i]
  BY <1>1
<1> HIDE DEF a, b, c
<1>6. /\ a \o b \in Seq(Status) /\ (a \o b) \o c \in Seq(Status)
      /\ Elements((a \o b) \o c) \subseteq Elements(a) \cup Elements(b) \cup Elements(c)
  BY <1>2, ConcatElements
<1>7. Len((a \o b) \o c) = Len(a) + Len(b) + Len(c)
  BY <1>2, <1>6
<1>. QED
  BY <1>3, <1>4, <1>5, <1>6, <1>7

\* The child count, bit by bit.
LEMMA KidsBits ==
    ASSUME NEW c \in 0..255
    PROVE  Kids(c) = AsNumber(Bit(c, 0)) + AsNumber(Bit(c, 1))
BY DEF Kids, Bit, Weight, AsNumber

\* The neighbours of n are known by their ids; a node that asks is none.
LEMMA NeighboursTell ==
    ASSUME TreeInv, NEW s \in Nodes, NEW n \in Nodes, NEW h \in Fly(net, s, n),
           h.type = "SETUP", NEW skip
    PROVE  Tells(s, Neighbours(n, skip))
<1>1. TypeOK /\ \A i \in 0..2 : i \in Slots
  BY TreeBase
<1>2. \A e \in Elements(Neighbours(n, skip)) :
          \E i \in 0..2 : Bit(connected[n], i) /\ e = status[n][i]
  BY <1>1, NeighbourRecords DEF KeptAt
<1>3. \A i \in 0..2 : Bit(connected[n], i) =>
          Truthful(status[n][i]) /\ status[n][i].ip = dst[n][i] /\ dst[n][i] # s
  BY <1>1, SlotTruthful, AskingUnserved
<1>. QED
  BY <1>2, <1>3 DEF Tells

\* The slot NodeSetup draws for a redirection: a connected child, or the node
\* itself, when its cache is low.
DrawnAt(n, i) ==
    \/ i = MY_ID /\ n # Origin
    \/ i \in ChildSlots /\ Bit(connected[n], i)

LEMMA RedirectDrawn ==
    ASSUME TreeInv, NEW s \in Nodes, NEW n \in Nodes,
           NodeSetupDrawn(s, n) \/ NodeSetupUncached(s, n) \/ NodeSetupFull(s, n)
    PROVE  \E i \in Slots : DrawnAt(n, i) /\ Redirect(s, n, i) /\ Arrived(s, n, "SETUP")
<1> DEFINE c == connected[n]
           k == childNum[n]
<1>1. c \in 0..255 /\ k = Kids(c) /\ k \in 0..2 /\ Kids(c) = AsNumber(Bit(c, 0)) + AsNumber(Bit(c, 1))
  <2>1. c \in 0..255 /\ k = Kids(c)
    BY TreeBase DEF TypeOK, TreeNode
  <2>2. Kids(c) = AsNumber(Bit(c, 0)) + AsNumber(Bit(c, 1))
    BY <2>1, KidsBits
  <2>3. AsNumber(Bit(c, 0)) \in 0..1 /\ AsNumber(Bit(c, 1)) \in 0..1
    BY DEF AsNumber
  <2>. QED
    BY <2>1, <2>2, <2>3
<1>2. ASSUME NEW v \in 1..2, v <= k
      PROVE  DrawnSlot(c, v) \in ChildSlots /\ Bit(c, DrawnSlot(c, v))
  <2>1. v = 1 \/ v = 2
    BY <1>2
  <2>. QED
    BY <1>1, <1>2, <2>1, TreeBase DEF DrawnSlot, AsNumber
<1>3. DrawnSlot(c, 0) = MY_ID
  BY DEF DrawnSlot
<1>4. CASE NodeSetupDrawn(s, n)
  <2>1. PICK i \in GenerateRndID(n, 0, k + 1) \ {MY_ID} :
          Redirect(s, n, i) /\ Arrived(s, n, "SETUP")
    BY <1>4 DEF NodeSetupDrawn
  <2>2. Draws(0, k + 1) \subseteq 0..k
    BY <1>1 DEF Draws
  <2>3. PICK v \in 0..k : i = DrawnSlot(c, v)
    BY <2>1, <2>2 DEF GenerateRndID
  <2>4. v # 0
    BY <1>3, <2>1, <2>3
  <2>5. v \in 1..2 /\ v <= k
    BY <1>1, <2>3, <2>4
  <2>. QED
    BY <1>2, <2>1, <2>3, <2>5, TreeBase DEF DrawnAt
<1>5. CASE NodeSetupUncached(s, n)
  <2>1. n # Origin
    BY <1>5 DEF NodeSetupUncached, Ready, TreeInv, TreeParts, OriginReady
  <2>. QED
    BY <1>5, <2>1, TreeBase DEF NodeSetupUncached, DrawnAt
<1>6. CASE NodeSetupFull(s, n)
  <2>1. PICK i \in GenerateRndID(n, 1, k) : Redirect(s, n, i)
    BY <1>6 DEF NodeSetupFull
  <2>2. CheckChildNum(n) = -1 /\ Arrived(s, n, "SETUP")
    BY <1>6 DEF NodeSetupFull
  <2>3. k = 2
    BY <1>1, <2>2 DEF CheckChildNum, MAX_CHILD_NUM, AsNumber
  <2>4. Draws(1, k) \subseteq 1..2
    BY <2>3 DEF Draws
  <2>5. PICK v \in 1..2 : i = DrawnSlot(c, v)
    BY <2>1, <2>4 DEF GenerateRndID
  <2>. QED
    BY <1>2, <2>1, <2>2, <2>3, <2>5, TreeBase DEF DrawnAt
<1>. QED
  BY <1>4, <1>5, <1>6

\* A record and those behind it.
LEMMA HeadRest ==
    ASSUME NEW x \in Status, NEW r \in Seq(Status)
    PROVE  /\ <<x>> \o r \in Seq(Status) /\ (<<x>> \o r)[1] = x
           /\ Len(<<x>> \o r) = 1 + Len(r)
           /\ \A k \in 2..Len(<<x>> \o r) : (<<x>> \o r)[k] \in Elements(r)
<1>1. <<x>> \in Seq(Status) /\ Len(<<x>>) = 1 /\ Len(r) \in Nat
  OBVIOUS
<1>2. <<x>> \o r \in Seq(Status) /\ (<<x>> \o r)[1] = x /\ Len(<<x>> \o r) = 1 + Len(r)
  OBVIOUS
<1>3. ASSUME NEW k \in 2..Len(<<x>> \o r)
      PROVE  (<<x>> \o r)[k] \in Elements(r)
  <2>1. k \in 1..Len(<<x>> \o r) /\ k \notin 1..Len(<<x>>)
    BY <1>1, <1>2
  <2>2. k - Len(<<x>>) \in 1..Len(r) /\ (<<x>> \o r)[k] = r[k - Len(<<x>>)]
    BY <1>1, <2>1, ConcatPlace
  <2>. QED
    BY <2>2 DEF Elements
<1>. QED
  BY <1>2, <1>3

\* A record before two sequences.
LEMMA HeadRests ==
    ASSUME NEW x \in Status, NEW q \in Seq(Status), NEW r \in Seq(Status)
    PROVE  /\ (<<x>> \o q) \o r = <<x>> \o (q \o r) /\ q \o r \in Seq(Status)
           /\ Elements(q \o r) \subseteq Elements(q) \cup Elements(r)
           /\ Len(q \o r) = Len(q) + Len(r)
<1>1. (<<x>> \o q) \o r = <<x>> \o (q \o r) /\ Len(q \o r) = Len(q) + Len(r)
  OBVIOUS
<1>. QED
  BY <1>1, ConcatElements

\* The answer that redirects s: it names a node to ask, never the origin or s,
\* unless that node has no address yet, and tells the truth behind it.
LEMMA AdvertiseSays ==
    ASSUME TreeInv, NEW s \in Nodes, NEW n \in Nodes, NEW h \in Fly(net, s, n),
           h.type = "SETUP", NEW i \in Slots, DrawnAt(n, i)
    PROVE  LET p == SendAdvertise(n, i, status[n][i]) IN
           /\ AdvertiseNum(n) >= 0
           /\ p \in Packet /\ <<p>> \in Seq(Packet) /\ p.type = "ADVERTISE"
           /\ Says(n, s, p)
<1> DEFINE p == SendAdvertise(n, i, status[n][i])
           ad == status[n][i]
           me == IF i = MY_ID THEN <<>> ELSE <<My(n)>>
           recs == <<ad>> \o me \o Neighbours(n, i)
           num == AdvertiseNum(n)
<1>1. TypeOK /\ connected[n] \in 0..255 /\ childNum[n] = Kids(connected[n])
      /\ ad \in Status /\ My(n) \in Status
  BY TreeBase, NodeParts DEF TreeNode, TypeOK
<1> DEFINE rest == me \o Neighbours(n, i)
<1>2. /\ recs = <<ad>> \o rest /\ rest \in Seq(Status)
      /\ Elements(rest) \subseteq Elements(me) \cup Elements(Neighbours(n, i))
      /\ Len(rest) = Len(me) + Len(Neighbours(n, i))
  <2>1. Neighbours(n, i) \in Seq(Status) /\ me \in Seq(Status)
    BY <1>1, NeighbourRecords
  <2> HIDE DEF me, ad
  <2>. QED
    BY <1>1, <2>1, HeadRests
<1>3. num \in Nat /\ num > 0 /\ num <= Len(recs)
  <2> DEFINE a == AsNumber(Bit(connected[n], 0))
             b == AsNumber(Bit(connected[n], 1))
             k0 == AsNumber(KeptAt(n, 0, i))
             k1 == AsNumber(KeptAt(n, 1, i))
             k2 == AsNumber(KeptAt(n, 2, i))
  <2>1. num = a + b + 1
    BY <1>1, KidsBits DEF AdvertiseNum
  <2>2. Len(recs) = 1 + (Len(me) + (k0 + k1 + k2))
    <3>1. Len(recs) = 1 + Len(rest)
      BY <1>1, <1>2, HeadRest
    <3>2. Len(Neighbours(n, i)) = k0 + k1 + k2
      BY <1>1, NeighbourRecords
    <3>. QED
      BY <1>2, <3>1, <3>2
  <2>3. a \in 0..1 /\ b \in 0..1 /\ k2 \in 0..1
    BY DEF AsNumber
  <2>4. CASE i = MY_ID
    <3>1. k0 = a /\ k1 = b /\ Len(me) = 0
      BY <2>4, TreeBase DEF AsNumber, KeptAt
    <3> HIDE DEF num, recs, a, b, k0, k1, k2, me
    <3>. QED
      BY <2>1, <2>2, <2>3, <3>1
  <2>5. CASE i = 0
    <3>1. k1 = b /\ k0 = 0 /\ Len(me) = 1
      BY <2>5, TreeBase DEF AsNumber, KeptAt
    <3> HIDE DEF num, recs, a, b, k0, k1, k2, me
    <3>. QED
      BY <2>1, <2>2, <2>3, <3>1
  <2>6. CASE i = 1
    <3>1. k0 = a /\ k1 = 0 /\ Len(me) = 1
      BY <2>6, TreeBase DEF AsNumber, KeptAt
    <3> HIDE DEF num, recs, a, b, k0, k1, k2, me
    <3>. QED
      BY <2>1, <2>2, <2>3, <3>1
  <2>. QED
    BY <2>4, <2>5, <2>6, TreeBase DEF DrawnAt
<1>4. recs \in Seq(Status) /\ recs[1] = ad
      /\ \A k \in 2..Len(recs) : recs[k] \in Elements(rest)
  <2> HIDE DEF recs, rest, ad
  <2>. QED
    BY <1>1, <1>2, HeadRest
<1>5. p.body = Records(recs, num) /\ p.type = "ADVERTISE"
  BY DEF SendAdvertise, Msg
<1> HIDE DEF recs, num, rest
<1>6. /\ p.body # <<>> /\ p.body[1] = ad
      /\ \A e \in Elements(Tail(p.body)) : e \in Elements(me) \cup Elements(Neighbours(n, i))
  <2>1. /\ Records(recs, num) \in Seq(Status) /\ Len(Records(recs, num)) = num
        /\ Records(recs, num)[1] = recs[1]
        /\ \A e \in Elements(Tail(Records(recs, num))) : \E k \in 2..Len(recs) : e = recs[k]
    <3>1. 1 \in 1..num
      BY <1>3
    <3>. QED
      BY <1>3, <1>4, <3>1, RecordsWithin
  <2> DEFINE q == Records(recs, num)
  <2>2. p.body = q /\ q \in Seq(Status) /\ Len(q) > 0 /\ q[1] = ad
    BY <1>3, <1>4, <1>5, <2>1
  <2>3. \A e \in Elements(Tail(q)) : e \in Elements(rest)
    BY <1>4, <2>1
  <2>4. \A e \in Elements(Tail(q)) : e \in Elements(me) \cup Elements(Neighbours(n, i))
    BY <1>2, <2>3
  <2> HIDE DEF p, q, ad, me
  <2>5. q # <<>>
    BY <2>2
  <2>. QED
    BY <2>2, <2>4, <2>5
<1>7. /\ isSetup[s] /\ s # n /\ dst[s][PARENT_ID] = n
      /\ \A j \in 0..2 : Bit(connected[n], j) => dst[n][j] # s
  BY AskingUnserved
<1>8. Tells(s, Tail(p.body))
  <2>1. Tells(s, Neighbours(n, i))
    BY NeighboursTell
  <2>2. ASSUME i # MY_ID
        PROVE  Truthful(My(n)) /\ My(n).ip # s
    <3>1. Bit(connected[n], i)
      BY <2>2 DEF DrawnAt
    <3>. QED
      BY <1>7, <3>1, JoinedServes, JoinedTruthful
  <2>3. \A e \in Elements(me) : Truthful(e) /\ e.ip # s
    BY <2>2, FewElements
  <2>. QED
    BY <1>6, <2>1, <2>3 DEF Tells
<1>9. \/ ad.ip = NoAddr
      \/ ad.ip \in Peers \ {s} /\ Truthful(ad)
  <2>1. CASE i = MY_ID
    <3>1. n \in Peers /\ ad = My(n)
      BY <2>1, TreeBase DEF DrawnAt, Nodes, My
    <3>2. CASE My(n).id = 0
      BY <3>1, <3>2 DEF TreeInv, TreeParts, TreePeer
    <3>3. CASE My(n).id # 0
      BY <1>7, <3>1, <3>3, NumberedTruthful
    <3>. QED
      BY <3>2, <3>3
  <2>2. CASE i # MY_ID
    <3>1. Bit(connected[n], i) /\ i \in 0..2 /\ i # PARENT_ID
      BY <2>2, TreeBase DEF DrawnAt
    <3>. QED
      BY <1>7, <3>1, SlotTruthful
  <2>. QED
    BY <2>1, <2>2
<1>10. Says(n, s, p)
  BY <1>5, <1>6, <1>7, <1>8, <1>9 DEF Says
<1>11. <<p>> \in Seq(Packet)
  <2>1. num >= 0
    BY <1>3
  <2>. QED
    BY <1>1, <2>1, SendAdvertiseType DEF num
<1>12. p \in Packet
  BY <1>11
<1>. QED
  BY <1>3, <1>5, <1>10, <1>11, <1>12 DEF num

\* A packet that is read.
LEMMA ReadSays ==
    ASSUME TreeInv, NEW s \in Nodes, NEW n \in Nodes, NEW type, Arrived(s, n, type)
    PROVE  LET h == Head(net[s][n]) IN
           /\ h \in Fly(net, s, n) /\ h \in Packet /\ h.type = type /\ Body(s, n) = h.body
           /\ net[s][n] # <<>> /\ up[n] = "up" /\ Says(s, n, h) /\ Fit(s, n, h)
<1>1. net \in Nets /\ net[s][n] # <<>> /\ up[n] = "up" /\ Head(net[s][n]).type = type
  BY TreeBase DEF Arrived
<1>2. Head(net[s][n]) \in Fly(net, s, n)
  BY <1>1, AfterDropped
<1>. QED
  BY <1>1, <1>2, TreeBase DEF Body

\* Every peer that has an id is one of finitely many, and so is every peer
\* that is served.
LEMMA Counts ==
    ASSUME Calm, TreeInv
    PROVE  /\ IsFiniteSet(NamedPeers) /\ Cardinality(NamedPeers) \in Nat
           /\ IsFiniteSet(ServedPeers) /\ Cardinality(ServedPeers) \in Nat
           /\ Cardinality(Peers) \in Nat
           /\ \A s \in Peers \ NamedPeers : Cardinality(NamedPeers) + 1 <= Cardinality(Peers)
           /\ \A s \in Peers \ ServedPeers : Cardinality(ServedPeers) + 1 <= Cardinality(Peers)
<1>1. ASSUME NEW S \in SUBSET Peers
      PROVE  /\ IsFiniteSet(S) /\ Cardinality(S) \in Nat /\ Cardinality(Peers) \in Nat
             /\ \A s \in Peers \ S : Cardinality(S) + 1 <= Cardinality(Peers)
  <2>1. IsFiniteSet(S) /\ Cardinality(S) \in Nat /\ Cardinality(Peers) \in Nat
    BY FS_Subset, FS_CardinalityType DEF Calm
  <2>2. ASSUME NEW s \in Peers \ S
        PROVE  Cardinality(S) + 1 <= Cardinality(Peers)
    <3>1. Cardinality(S \cup {s}) = Cardinality(S) + 1
      BY <2>1, FS_AddElement
    <3>2. Cardinality(S \cup {s}) <= Cardinality(Peers)
      BY FS_Subset DEF Calm
    <3>. QED
      BY <3>1, <3>2
  <2>. QED
    BY <2>1, <2>2
<1>2. NamedPeers \in SUBSET Peers /\ ServedPeers \in SUBSET Peers
  BY DEF NamedPeers, ServedPeers
<1>. QED
  BY <1>1, <1>2

\* A request that reaches the origin is the first of its sender, which gets
\* the next id.
LEMMA FirstRequest ==
    ASSUME Calm, TreeInv, NEW s \in Nodes, Arrived(s, Origin, "SETUP")
    PROVE  /\ Numbers(s, Origin) /\ CurrentId(s, Origin) = nextId + 1
           /\ nextId \in Nat /\ nextId + 1 \in Ids /\ s \in Peers /\ My(s).id = 0
           /\ \A k : ~Named(s, k)
           /\ net[Origin][s] = <<>>
           /\ SendID(s, Origin) = <<Msg("ID", <<[OnlyId(nextId + 1) EXCEPT !.ip = s]>>)>>
<1> DEFINE h == Head(net[s][Origin])
<1>1. /\ h \in Fly(net, s, Origin) /\ h.type = "SETUP" /\ Body(s, Origin) = h.body
      /\ Says(s, Origin, h)
  BY ReadSays, TreeBase
<1>2. s \in Peers /\ h.body[1].id = 0 /\ \A k \in Ids : ~Named(s, k)
  BY <1>1 DEF Says
<1>3. \A k : ~Named(s, k)
  BY <1>2, NamesAreIds
<1>4. My(s).id = 0
  BY <1>2, <1>3, TreeBase DEF Named
<1>5. Numbers(s, Origin)
  BY <1>1, <1>2 DEF Numbers
<1>6. nextId \in Nat /\ nextId + 1 \in Ids
  <2>1. nextId \in Nat /\ nextId <= Cardinality(NamedPeers)
    BY TreeBase, SpaceAssumption DEF TypeOK, Ids, TreeInv, TreeParts, IdsGiven
  <2>2. s \notin NamedPeers
    BY <1>2 DEF NamedPeers
  <2>3. Cardinality(NamedPeers) + 1 <= Cardinality(Peers) /\ Cardinality(NamedPeers) \in Nat
        /\ Cardinality(Peers) \in Nat
    BY <1>2, <2>2, Counts
  <2>. QED
    BY <2>1, <2>3, SpaceAssumption DEF Calm, Ids
<1>7. CurrentId(s, Origin) = nextId + 1
  BY <1>5, <1>6, SpaceAssumption DEF CurrentId, Ids
<1>8. net[Origin][s] = <<>>
  <2>1. SUFFICES ASSUME net[Origin][s] # <<>>
                 PROVE  FALSE
    OBVIOUS
  <2>2. net[Origin][s] \in Seq(Packet) /\ s \in Nodes /\ s # Origin
    BY <1>2, TreeBase DEF Nets
  <2>3. 1 \in 1..Len(net[Origin][s])
    BY <2>1, <2>2
  <2>4. net[Origin][s][1].type = "ID"
    BY <1>2, <1>4, <2>3 DEF TreeInv, TreeParts, TreePeer, InOrder, IdFirst
  <2>5. net[Origin][s][1] \in Fly(net, Origin, s)
    BY <2>3 DEF Fly, Elements
  <2>6. net[Origin][s][1].body[1].id # 0
    BY <2>2, <2>4, <2>5, TreeBase DEF Says
  <2>. QED
    BY <1>3, <2>2, <2>4, <2>5, <2>6 DEF Named
<1>. QED
  BY <1>2, <1>3, <1>4, <1>5, <1>6, <1>7, <1>8 DEF SendID

\* A request to another node carries the id of its sender.
LEMMA LaterRequest ==
    ASSUME TreeInv, NEW s \in Nodes, NEW n \in Peers, Arrived(s, n, "SETUP")
    PROVE  /\ ~Numbers(s, n) /\ CurrentId(s, n) = nextId /\ SendID(s, n) = <<>>
           /\ Body(s, n)[1].id = My(s).id /\ Body(s, n)[1].ip = s
           /\ My(s).id # 0 /\ Named(s, My(s).id) /\ s \in Peers
<1>1. n # Origin /\ n \in Nodes
  BY TreeBase
<1>2. s \in Peers /\ Body(s, n)[1].id = My(s).id /\ Body(s, n)[1].ip = s /\ My(s).id # 0
  BY <1>1, ReadSays DEF Says
<1>. QED
  BY <1>1, <1>2, TreeBase DEF Numbers, CurrentId, SendID, Named

\* The status of the new child: its id, its address, one layer below.
LEMMA NewChildIs ==
    ASSUME Calm, TreeInv, NEW s \in Nodes, NEW n \in Nodes, Arrived(s, n, "SETUP"),
           ~isSetup[n], NEW child \in NewChild(s, n)
    PROVE  /\ child \in Status /\ child.ip = s /\ child.id # 0
           /\ child.id = IF n = Origin THEN nextId + 1 ELSE My(s).id
           /\ child.layer = My(n).layer + 1
           /\ My(n).layer + 1 <= Cardinality(ServedPeers) + 1
<1>1. child \in Status
  BY TreeBase, NewChildType
<1>2. PICK h \in Fly(net, s, n) : h.type = "SETUP"
  BY ReadSays
<1>3. s \in Peers /\ s \notin ServedPeers
  <2>1. s \in Peers /\ \A m \in Nodes : \A i \in 0..2 : Bit(connected[m], i) => dst[m][i] # s
    BY <1>2, AskingUnserved
  <2>2. ChildSlots \subseteq 0..2
    BY TreeBase
  <2>. QED
    BY <2>1, <2>2 DEF ServedPeers, Serves
<1>4. child.layer = NextLayer(n)
  BY DEF NewChild
<1>5. NextLayer(n) = My(n).layer + 1 /\ My(n).layer + 1 <= Cardinality(ServedPeers) + 1
  <2>1. My(n).layer <= Cardinality(ServedPeers)
    BY TreeBase DEF TreeNode
  <2>2. My(n).layer \in 0..(LayerSpace - 1)
    BY TreeBase, NodeParts, StatusParts
  <2>3. /\ Cardinality(ServedPeers) + 1 <= Cardinality(Peers)
        /\ Cardinality(ServedPeers) \in Nat /\ Cardinality(Peers) \in Nat
    BY <1>3, Counts
  <2>4. Cardinality(Peers) < LayerSpace /\ LayerSpace \in Nat
    BY SpaceAssumption DEF Calm
  <2> DEFINE l == My(n).layer
  <2>5. NextLayer(n) = (l + 1) % LayerSpace
    BY DEF NextLayer
  <2> HIDE DEF l
  <2>6. l + 1 < LayerSpace /\ l \in Nat
    BY <2>1, <2>2, <2>3, <2>4 DEF l
  <2>7. (l + 1) % LayerSpace = l + 1
    BY <2>4, <2>6
  <2>. QED
    BY <2>1, <2>2, <2>3, <2>5, <2>7 DEF l
<1>6. CASE n = Origin
  <2>1. My(n).id = ORIGIN_ID
    BY <1>6 DEF TreeInv, TreeParts, OriginReady, OriginStatus
  <2>2. CurrentId(s, n) = nextId + 1 /\ nextId \in Nat
    BY <1>6, FirstRequest
  <2>3. child.id = CurrentId(s, n) /\ child.ip = s
    BY <1>6, <2>1 DEF NewChild
  <2>. QED
    BY <1>1, <1>4, <1>5, <1>6, <2>2, <2>3
<1>7. CASE n \in Peers
  <2>1. My(n).id # ORIGIN_ID /\ n # Origin
    BY <1>7, JoinedTruthful, TreeBase DEF ORIGIN_ID
  <2>2. Body(s, n)[1].id = My(s).id /\ Body(s, n)[1].ip = s /\ My(s).id # 0
    BY <1>7, LaterRequest
  <2>3. child.id = My(s).id /\ child.ip = s
    BY <2>1, <2>2 DEF NewChild
  <2>. QED
    BY <1>1, <1>4, <1>5, <2>1, <2>2, <2>3
<1>. QED
  BY <1>6, <1>7 DEF Nodes

\* The answer that takes s: s and the node it now belongs to, then the truth
\* about the neighbours.
LEMMA InitialStatusSays ==
    ASSUME TreeInv, NEW s \in Nodes, NEW n \in Nodes, NEW h \in Fly(net, s, n),
           h.type = "SETUP", ~isSetup[n], NEW i \in ChildSlots, ~Bit(connected[n], i),
           NEW child \in Status
    PROVE  LET p == SendInitialStatus(n, i, child) IN
           /\ InitialStatusNum(n) >= 0
           /\ <<p>> \in Seq(Packet) /\ p.type = "INITIAL_STATUS"
           /\ Len(p.body) >= 2 /\ p.body[1] = child /\ p.body[2] = My(n)
           /\ Tells(s, Tail(p.body))
<1> DEFINE p == SendInitialStatus(n, i, child)
           near == Neighbours(n, i)
           rest == <<My(n)>> \o near
           recs == <<child>> \o rest
           num == InitialStatusNum(n)
           a == AsNumber(Bit(connected[n], 0))
           b == AsNumber(Bit(connected[n], 1))
           d == AsNumber(Bit(connected[n], 2))
<1>1. TypeOK /\ connected[n] \in 0..255 /\ childNum[n] = Kids(connected[n])
      /\ My(n) \in Status
  BY TreeBase, NodeParts DEF TreeNode, TypeOK
<1>2. near \in Seq(Status) /\ Len(near) = a + b + d
  <2>1. /\ AsNumber(KeptAt(n, 0, i)) = a /\ AsNumber(KeptAt(n, 1, i)) = b
        /\ AsNumber(KeptAt(n, 2, i)) = d
    BY TreeBase DEF KeptAt, AsNumber
  <2>2. /\ near \in Seq(Status)
        /\ Len(near) = AsNumber(KeptAt(n, 0, i)) + AsNumber(KeptAt(n, 1, i))
                           + AsNumber(KeptAt(n, 2, i))
    BY <1>1, NeighbourRecords
  <2> HIDE DEF a, b, d, near
  <2>. QED
    BY <2>1, <2>2
<1>3. num = a + b + d + 2
  <2>1. d = IF HasParent(n) THEN 1 ELSE 0
    BY TreeBase DEF HasParent, AsNumber
  <2>2. childNum[n] = a + b
    BY <1>1, KidsBits
  <2>3. a \in Int /\ b \in Int
    BY DEF AsNumber
  <2>4. num = childNum[n] + 2 + d
    BY <2>1 DEF InitialStatusNum
  <2> HIDE DEF a, b, d, num
  <2>5. d \in Int
    BY <2>1
  <2>. QED
    BY <2>2, <2>3, <2>4, <2>5
<1>4. a \in 0..1 /\ b \in 0..1 /\ d \in 0..1
  BY DEF AsNumber
<1>5. SendInitialStatus(n, i, child) = Msg("INITIAL_STATUS", Records(recs, num))
  <2>1. <<child, My(n)>> \o near = <<child>> \o (<<My(n)>> \o near)
    BY <1>1, <1>2
  <2>. QED
    BY <2>1 DEF SendInitialStatus
<1>6. p.body = Records(recs, num) /\ p.type = "INITIAL_STATUS"
  BY <1>5 DEF Msg
<1>7. Tells(s, near)
  BY NeighboursTell
<1>8. Truthful(My(n)) /\ My(n).ip # s
  BY AskingUnserved, JoinedTruthful
<1> HIDE DEF near, a, b, d
<1>9. /\ rest \in Seq(Status) /\ rest[1] = My(n) /\ Len(rest) = 1 + Len(near)
      /\ \A k \in 2..Len(rest) : rest[k] \in Elements(near)
  BY <1>1, <1>2, HeadRest
<1>10. num \in Nat /\ num >= 2 /\ num = 1 + Len(rest)
  BY <1>2, <1>3, <1>4, <1>9
<1>11. \A e \in Elements(rest) : Truthful(e) /\ e.ip # s
  <2>1. ASSUME NEW e \in Elements(rest)
        PROVE  e = My(n) \/ e \in Elements(near)
    <3>1. PICK k \in 1..Len(rest) : e = rest[k]
      BY DEF Elements
    <3>2. k = 1 \/ k \in 2..Len(rest)
      BY <1>9
    <3>. QED
      BY <1>9, <3>1, <3>2
  <2>. QED
    BY <1>7, <1>8, <2>1 DEF Tells
<1> HIDE DEF rest, num
<1>12. /\ recs \in Seq(Status) /\ recs[1] = child /\ Len(recs) = 1 + Len(rest)
       /\ \A k \in 2..Len(recs) : recs[k] \in Elements(rest)
  BY <1>9, HeadRest
<1>13. recs[2] = My(n)
  <2>1. Len(<<child>>) = 1 /\ <<child>> \in Seq(Status)
    OBVIOUS
  <2>2. 2 \in (1 + 1)..(1 + Len(rest)) /\ 2 - 1 = 1
    BY <1>10
  <2>3. \A k \in (1 + 1)..(1 + Len(rest)) : recs[k] = rest[k - 1]
    BY <1>9, <2>1, ConcatAt
  <2>. QED
    BY <1>9, <2>2, <2>3
<1> HIDE DEF recs
<1>14. /\ Len(p.body) = num /\ p.body[1] = child /\ p.body[2] = My(n)
       /\ \A e \in Elements(Tail(p.body)) : e \in Elements(rest)
  <2>1. /\ Len(Records(recs, num)) = num
        /\ \A k \in 1..num : Records(recs, num)[k] = recs[k]
        /\ \A e \in Elements(Tail(Records(recs, num))) : \E k \in 2..Len(recs) : e = recs[k]
    <3>1. num <= Len(recs) /\ num > 0
      BY <1>9, <1>10, <1>12
    <3>. QED
      BY <1>10, <1>12, <3>1, RecordsWithin
  <2>2. 1 \in 1..num /\ 2 \in 1..num
    BY <1>10
  <2>. QED
    BY <1>6, <1>12, <1>13, <2>1, <2>2
<1>15. InitialStatusNum(n) >= 0
  BY <1>10 DEF num
<1>16. <<p>> \in Seq(Packet)
  BY <1>1, <1>15, SendInitialStatusType
<1>. QED
  BY <1>6, <1>10, <1>11, <1>14, <1>15, <1>16 DEF Tells

\* A node with two different child slots does not serve one node twice, and
\* does not serve the node that serves it.
LEMMA OtherChildren ==
    ASSUME TreeInv, NEW n \in Nodes, NEW i \in Slots, Bit(connected[n], i),
           NEW j \in ChildSlots, Bit(connected[n], j), i # j
    PROVE  dst[n][i] # dst[n][j]
<1>1. CASE i \in ChildSlots
  <2>1. (i = 0 /\ j = 1) \/ (i = 1 /\ j = 0)
    BY <1>1, TreeBase
  <2>. QED
    BY <2>1 DEF TreeInv, TreeParts
<1>2. CASE i \notin ChildSlots
  <2> DEFINE m == dst[n][i]
  <2>1. i = PARENT_ID /\ n \in Peers /\ ~isSetup[n] /\ m \in Nodes /\ ~isSetup[m]
        /\ \E k \in ChildSlots : Serves(m, k, n)
    BY <1>2, SlotTruthful, TreeBase
  <2>2. PICK k \in ChildSlots : Serves(m, k, n)
    BY <2>1
  <2>3. Linked(m, k) /\ dst[m][k] = n
    BY <2>1, <2>2 DEF Serves, TreeInv, TreeParts
  <2>4. My(n).layer = My(m).layer + 1
    BY <2>1, <2>3 DEF Linked
  <2>5. SUFFICES ASSUME dst[n][j] = m
                 PROVE  FALSE
    OBVIOUS
  <2>6. Linked(n, j)
    BY DEF TreeInv, TreeParts
  <2>7. My(m).layer = My(n).layer + 1
    BY <2>1, <2>5, <2>6 DEF Linked
  <2>8. My(m).layer \in 0..(LayerSpace - 1) /\ My(n).layer \in 0..(LayerSpace - 1)
    BY <2>1, TreeBase, NodeParts, StatusParts
  <2> DEFINE x == My(m).layer
             y == My(n).layer
  <2>9. x = y + 1 /\ y = x + 1 /\ x \in Int /\ y \in Int
    BY <2>4, <2>7, <2>8, SpaceAssumption
  <2> HIDE DEF x, y
  <2>. QED
    BY <2>9
<1>. QED
  BY <1>1, <1>2

\* The slot REQ_LIST finds is that of its sender.
LEMMA SlotOfFinds ==
    ASSUME TreeInv, NEW m \in Nodes, NEW n \in Nodes, ~isSetup[n],
           SlotOf(m, My(n).id) # -1 \/ \E j \in Connected(m) : status[m][j].id = My(n).id
    PROVE  LET i == SlotOf(m, My(n).id) IN
           /\ i # -1 /\ i \in Slots /\ Bit(connected[m], i) /\ i \in 0..2
           /\ status[m][i].id = My(n).id /\ dst[m][i] = n /\ Target(m, i) = {n}
<1> DEFINE at == {i \in Connected(m) : status[m][i].id = My(n).id}
           i == SlotOf(m, My(n).id)
<1>1. at # {}
  BY DEF SlotOf
<1>2. at \in SUBSET (0..3)
  BY TreeBase DEF Connected
<1>3. \E x \in at : \A y \in at : y <= x
  BY <1>1, <1>2
<1>4. i = CHOOSE x \in at : \A y \in at : y <= x
  BY <1>1 DEF SlotOf
<1>5. i \in at
  BY <1>3, <1>4
<1>6. i \in Slots /\ Bit(connected[m], i) /\ status[m][i].id = My(n).id
  BY <1>5 DEF Connected
<1>7. i \in 0..2 /\ Truthful(status[m][i]) /\ status[m][i].ip = dst[m][i] /\ dst[m][i] \in Nodes
  BY <1>6, SlotTruthful
<1>8. dst[m][i] = n
  <2>1. Named(dst[m][i], My(n).id)
    BY <1>6, <1>7 DEF Truthful
  <2>2. Named(n, My(n).id)
    BY JoinedTruthful DEF Truthful
  <2>. QED
    BY <1>7, <2>1, <2>2, OneName
<1>9. Target(m, i) = {n}
  BY <1>7, <1>8, TreeBase DEF Target
<1>10. i # -1
  BY <1>7
<1>. QED
  BY <1>6, <1>7, <1>8, <1>9, <1>10

\* What a list without a node holds.
LEMMA ListedAre ==
    ASSUME TypeOK, NEW n \in Nodes, NEW id, nodesList[n][1].id # id
    PROVE  /\ ListedWithout(n, id) \in Seq(Status) /\ Len(ListedWithout(n, id)) >= 1
           /\ \A e \in Elements(ListedWithout(n, id)) :
                 e \in Elements(nodesList[n]) /\ e.id # id
<1> DEFINE list == nodesList[n]
           F == {k \in 1..Len(list) : list[k].id # id}
<1>1. list \in Seq(Status) /\ list # <<>>
  BY NodeParts
<1>2. ListedWithout(n, id) = [j \in 1..Cardinality(F) |-> list[Nth(F, j)]]
  BY DEF ListedWithout
<1>3. 1 \in F /\ F \in SUBSET (1..Len(list))
  BY <1>1
<1>4. IsFiniteSet(F) /\ Cardinality(F) \in Nat
  <2>1. Len(list) \in Nat
    BY <1>1
  <2> HIDE DEF F
  <2>. QED
    BY <1>3, <2>1, PositionsFinite
<1>5. Cardinality(F) >= 1
  <2>1. Cardinality({1}) = 1 /\ {1} \subseteq F
    BY <1>3, FS_Singleton
  <2>. QED
    BY <1>4, <2>1, FS_Subset
<1>6. \A j \in 1..Cardinality(F) : Nth(F, j) \in F
  <2>1. Len(list) \in Nat
    BY <1>1
  <2> HIDE DEF F
  <2>. QED
    BY <1>3, <2>1, NthExists
<1>7. \A j \in 1..Cardinality(F) : list[Nth(F, j)] \in Elements(list) /\ list[Nth(F, j)].id # id
  BY <1>6 DEF Elements
<1> HIDE DEF F, list
<1> DEFINE q == ListedWithout(n, id)
<1>8. Len(q) = Cardinality(F) /\ \A j \in 1..Len(q) : q[j] = list[Nth(F, j)]
  BY <1>2, <1>4
<1>9. \A e \in Elements(q) : e \in Elements(list) /\ e.id # id
  BY <1>7, <1>8 DEF Elements
<1>. QED
  BY <1>5, <1>8, <1>9, ListedWithoutType DEF list

\* A kept slot, alone.
LEMMA KeptAlone ==
    ASSUME TypeOK, NEW n \in Nodes, NEW j \in Slots, NEW skip
    PROVE  /\ Kept(n, j, skip) \in Seq(Status)
           /\ Len(Kept(n, j, skip)) = AsNumber(KeptAt(n, j, skip))
           /\ \A e \in Elements(Kept(n, j, skip)) : KeptAt(n, j, skip) /\ e = status[n][j]
<1>1. CASE KeptAt(n, j, skip)
  <2>1. Kept(n, j, skip) = <<status[n][j]>>
    BY <1>1 DEF Kept, KeptAt
  <2>. QED
    BY <1>1, <2>1, FewElements, KeptType DEF AsNumber
<1>2. CASE ~KeptAt(n, j, skip)
  <2>1. Kept(n, j, skip) = <<>>
    BY <1>2 DEF Kept, KeptAt
  <2>. QED
    BY <1>2, <2>1, FewElements, KeptType DEF AsNumber
<1>. QED
  BY <1>1, <1>2

\* Three sequences.
LEMMA ThreeRests ==
    ASSUME NEW q \in Seq(Status), NEW r \in Seq(Status), NEW t \in Seq(Status)
    PROVE  /\ q \o r \o t \in Seq(Status) /\ Len(q \o r \o t) = Len(q) + Len(r) + Len(t)
           /\ Elements(q \o r \o t) \subseteq Elements(q) \cup Elements(r) \cup Elements(t)
<1>1. q \o r \in Seq(Status) /\ Len(q \o r) = Len(q) + Len(r)
      /\ Elements(q \o r) \subseteq Elements(q) \cup Elements(r)
  BY ConcatElements
<1> DEFINE x == q \o r
<1> HIDE DEF x
<1>2. x \in Seq(Status) => /\ x \o t \in Seq(Status) /\ Len(x \o t) = Len(x) + Len(t)
                           /\ Elements(x \o t) \subseteq Elements(x) \cup Elements(t)
  BY ConcatElements
<1>. QED
  BY <1>1, <1>2 DEF x

\* The answer to REQ_LIST goes back to who asked, and tells it the truth.
LEMMA ResListSays ==
    ASSUME TreeInv, ListInv, NEW s \in Peers, NEW n \in Nodes, ~isSetup[s],
           NEW i, i = SlotOf(n, My(s).id), i # -1
    PROVE  LET p == SendResList(n, i) IN
           /\ Target(n, i) = {s} /\ ResListNum(n, i) >= 0
           /\ <<p>> \in Seq(Packet) /\ p.type = "RES_LIST" /\ Tells(s, p.body)
<1> DEFINE p == SendResList(n, i)
           id == status[n][i].id
           k0 == Kept(n, 0, i)
           k1 == Kept(n, 1, i)
           list == ListedWithout(n, id)
           num == ResListNum(n, i)
           a == AsNumber(Bit(connected[n], 0))
           b == AsNumber(Bit(connected[n], 1))
<1>1. /\ i \in Slots /\ i \in 0..2 /\ Bit(connected[n], i) /\ Target(n, i) = {s}
      /\ id = My(s).id /\ dst[n][i] = s
  BY SlotOfFinds, TreeBase
<1>2. TypeOK /\ connected[n] \in 0..255 /\ childNum[n] = Kids(connected[n])
  BY TreeBase DEF TreeNode, TypeOK
<1>3. childNum[n] = a + b /\ a \in 0..1 /\ b \in 0..1
  <2>1. a \in 0..1 /\ b \in 0..1
    BY DEF AsNumber
  <2>. QED
    BY <1>2, <2>1, KidsBits
<1>4. nodesList[n][1].id # id
  <2>1. nodesList[n][1].id = ORIGIN_ID
    BY DEF ListInv, ListGood
  <2>2. My(s).id # 0
    BY JoinedTruthful, TreeBase
  <2>. QED
    BY <1>1, <2>1, <2>2 DEF ORIGIN_ID
<1>5. /\ list \in Seq(Status) /\ Len(list) >= 1
      /\ \A e \in Elements(list) : e \in Elements(nodesList[n]) /\ e.id # id
  BY <1>2, <1>4, ListedAre
<1>6. /\ k0 \in Seq(Status) /\ Len(k0) = AsNumber(KeptAt(n, 0, i))
      /\ k1 \in Seq(Status) /\ Len(k1) = AsNumber(KeptAt(n, 1, i))
      /\ \A e \in Elements(k0) : KeptAt(n, 0, i) /\ e = status[n][0]
      /\ \A e \in Elements(k1) : KeptAt(n, 1, i) /\ e = status[n][1]
  <2>1. 0 \in Slots /\ 1 \in Slots
    BY TreeBase
  <2> HIDE DEF id
  <2>. QED
    BY <1>2, <2>1, KeptAlone
<1>7. a + b - 1 <= Len(k0) + Len(k1)
  <2>1. CASE i = 0
    <3>1. a = 1 /\ Len(k1) = b /\ Len(k0) = 0
      BY <1>1, <1>6, <2>1 DEF AsNumber, KeptAt
    <3> HIDE DEF a, b, k0, k1
    <3>. QED
      BY <1>3, <3>1
  <2>2. CASE i = 1
    <3>1. b = 1 /\ Len(k0) = a /\ Len(k1) = 0
      BY <1>1, <1>6, <2>2 DEF AsNumber, KeptAt
    <3> HIDE DEF a, b, k0, k1
    <3>. QED
      BY <1>3, <3>1
  <2>3. CASE i = 2
    <3>1. Len(k0) = a /\ Len(k1) = b
      BY <1>1, <1>6, <2>3 DEF AsNumber, KeptAt
    <3> HIDE DEF a, b, k0, k1
    <3>. QED
      BY <1>3, <3>1
  <2>. QED
    BY <1>1, <2>1, <2>2, <2>3
<1>8. num = childNum[n] - 1 + Len(list)
  BY DEF ResListNum
<1>9. p = Msg("RES_LIST", Records(k0 \o k1 \o list, num))
  BY DEF SendResList
<1>10. \A e \in Elements(k0) \cup Elements(k1) : Truthful(e) /\ e.ip # s
  <2>1. ASSUME NEW j \in ChildSlots, KeptAt(n, j, i)
        PROVE  Truthful(status[n][j]) /\ status[n][j].ip # s
    <3>1. Bit(connected[n], j) /\ j # i /\ j \in Slots
      BY <2>1, TreeBase DEF KeptAt
    <3>2. Truthful(status[n][j]) /\ status[n][j].ip = dst[n][j]
      BY <3>1, SlotTruthful
    <3>3. dst[n][i] # dst[n][j]
      BY <1>1, <3>1, OtherChildren
    <3>. QED
      BY <1>1, <3>2, <3>3
  <2>. QED
    BY <1>6, <2>1, TreeBase
<1>11. \A e \in Elements(list) : Truthful(e) /\ e.ip # s
  <2>1. \A e \in Elements(nodesList[n]) : Truthful(e)
    BY TreeBase DEF TreeNode
  <2>2. Named(s, My(s).id)
    BY JoinedTruthful, TreeBase DEF Truthful
  <2>3. \A l : Named(s, l) => l = My(s).id
    BY <2>2, OneName, TreeBase
  <2>. QED
    BY <1>1, <1>5, <2>1, <2>3 DEF Truthful
<1> HIDE DEF k0, k1, list, a, b, num
<1> DEFINE recs == k0 \o k1 \o list
<1>12. /\ recs \in Seq(Status) /\ Len(recs) = Len(k0) + Len(k1) + Len(list)
       /\ Elements(recs) \subseteq Elements(k0) \cup Elements(k1) \cup Elements(list)
  BY <1>5, <1>6, ThreeRests
<1> HIDE DEF recs
<1>13. num \in Nat /\ num <= Len(recs)
  <2>1. Len(k0) \in Int /\ Len(k1) \in Int /\ Len(list) \in Int
    BY <1>5, <1>6
  <2>2. num = a + b - 1 + Len(list)
    BY <1>3, <1>8
  <2>. QED
    BY <1>3, <1>5, <1>7, <1>12, <2>1, <2>2
<1>14. Elements(Records(recs, num)) \subseteq Elements(recs)
  BY <1>12, <1>13, RecordsWithin
<1>15. p.type = "RES_LIST" /\ p.body = Records(recs, num)
  BY <1>9 DEF Msg, recs
<1>16. ResListNum(n, i) >= 0
  BY <1>13 DEF num
<1>17. <<p>> \in Seq(Packet)
  BY <1>2, <1>16, SendResListType
<1>18. Tells(s, p.body)
  BY <1>10, <1>11, <1>12, <1>14, <1>15 DEF Tells
<1>. QED
  BY <1>1, <1>15, <1>16, <1>17, <1>18

-----------------------------------------------------------------------------
(* What a step leaves of the invariant where it changes nothing.            *)

\* No step takes back an id, a node that has joined, a child or a process.
Grows ==
    /\ \A n \in Nodes : \A k : Named(n, k) => Named(n, k)'
    /\ \A n \in Nodes : ~isSetup[n] => ~isSetup'[n] /\ My(n)' = My(n)
    /\ \A n \in Nodes : My(n).id # 0 => (My(n).id)' = My(n).id
    /\ \A m, c \in Nodes : \A i \in ChildSlots : Serves(m, i, c) =>
          Serves(m, i, c)' /\ status'[m][i] = status[m][i]
    /\ \A n \in Nodes : up'[n] # "dead" /\ (up'[n] = "off" => up[n] = "off")

\* No id is given.
NoNewNames ==
    /\ \A n \in Nodes : \A k : Named(n, k)' => Named(n, k)
    /\ nextId' = nextId

\* What is said truly stays true.
LEMMA TruthStays ==
    ASSUME Grows
    PROVE  /\ \A st : Truthful(st) => Truthful(st)'
           /\ \A b, recs : Tells(b, recs) => Tells(b, recs)'
<1>1. \A st : Truthful(st) => Truthful(st)'
  BY DEF Grows, Truthful
<1>. QED
  BY <1>1 DEF Tells

LEMMA ServedGrow ==
    ASSUME Calm, TreeInv, Grows
    PROVE  /\ ServedPeers \subseteq ServedPeers' /\ IsFiniteSet(ServedPeers')
           /\ Cardinality(ServedPeers) <= Cardinality(ServedPeers')
           /\ Cardinality(ServedPeers) \in Nat /\ Cardinality(ServedPeers') \in Nat
<1>1. ServedPeers \subseteq ServedPeers'
  BY TreeBase DEF Grows, ServedPeers
<1>2. ServedPeers' \subseteq Peers
  BY DEF ServedPeers
<1>3. IsFiniteSet(ServedPeers')
  BY <1>2, FS_Subset DEF Calm
<1>4. Cardinality(ServedPeers) <= Cardinality(ServedPeers')
  BY <1>1, <1>3, FS_Subset
<1>. QED
  BY <1>1, <1>3, <1>4, Counts, FS_CardinalityType

\* What a packet says stays so.
LEMMA SaysStays ==
    ASSUME Grows, NEW a \in Nodes, NEW b \in Nodes, NEW p, Says(a, b, p),
           p.type = "INITIAL_STATUS" => ~isSetup[a],
           p.type = "SETUP" /\ b = Origin => \A k : Named(a, k)' => Named(a, k),
           p.type = "ADVERTISE" => dst'[b][PARENT_ID] = dst[b][PARENT_ID]
    PROVE  Says(a, b, p)'
<1>1. Says(a, b, p)
  OBVIOUS
<1>2. p.type = "SETUP" => Says(a, b, p)'
  BY <1>1 DEF Says, Grows
<1>3. p.type = "INITIAL_STATUS" => Says(a, b, p)'
  <2>1. SUFFICES ASSUME p.type = "INITIAL_STATUS"
                 PROVE  Says(a, b, p)'
    OBVIOUS
  <2>2. ~isSetup[a] /\ My(a)' = My(a)
    BY <2>1 DEF Grows
  <2>3. PICK i \in ChildSlots : Serves(a, i, b) /\ p.body[1] = status[a][i]
    BY <1>1, <2>1 DEF Says
  <2>4. Serves(a, i, b)' /\ status'[a][i] = status[a][i]
    BY <2>3 DEF Grows
  <2>5. Tells(b, Tail(p.body)) /\ p.body[2] = My(a) /\ Len(p.body) >= 2
    BY <1>1, <2>1 DEF Says
  <2>6. Tells(b, Tail(p.body))'
    BY <2>5, TruthStays
  <2>. QED
    BY <2>1, <2>2, <2>3, <2>4, <2>5, <2>6 DEF Says
<1>4. p.type = "ADVERTISE" => Says(a, b, p)'
  BY <1>1, TruthStays DEF Says
<1>5. p.type \in {"ID", "REQ_LIST", "RES_LIST"} => Says(a, b, p)'
  <2>1. ~isSetup[a] => ~isSetup'[a] /\ (My(a).id)' = My(a).id
    BY DEF Grows
  <2>2. ~isSetup[b] => ~isSetup'[b]
    BY DEF Grows
  <2>. QED
    BY <1>1, <2>1, <2>2, TruthStays DEF Says
<1>. QED
  BY <1>1, <1>2, <1>3, <1>4, <1>5 DEF Says

\* A node whose flags, links and list stay.
LEMMA NodeStays ==
    ASSUME Calm, TreeInv, TypeOK', Grows, NEW n \in Nodes,
           isSetup'[n] = isSetup[n], isRetry'[n] = isRetry[n],
           connected'[n] = connected[n], childNum'[n] = childNum[n],
           \A e \in Elements(nodesList'[n]) :
               e \in Elements(nodesList[n]) \/ (Truthful(e) /\ e.ip # n)
    PROVE  TreeNode(n)'
<1>1. TreeNode(n)
  BY TreeBase
<1>2. up'[n] # "dead"
  BY DEF Grows
<1>3. HasParent(n)' <=> HasParent(n)
  BY DEF HasParent
<1>4. ~isSetup'[n] => (My(n).layer)' <= Cardinality(ServedPeers')
  <2>1. SUFFICES ASSUME ~isSetup'[n]
                 PROVE  (My(n).layer)' <= Cardinality(ServedPeers')
    OBVIOUS
  <2>2. My(n)' = My(n) /\ My(n).layer <= Cardinality(ServedPeers)
    BY <1>1, <2>1 DEF Grows, TreeNode
  <2>3. My(n).layer \in 0..(LayerSpace - 1)
    BY TreeBase, NodeParts, StatusParts
  <2> DEFINE l == My(n).layer
  <2>4. (My(n).layer)' = l
    BY <2>2
  <2>5. l \in Int
    BY <2>3, SpaceAssumption
  <2> HIDE DEF l
  <2>6. l <= Cardinality(ServedPeers')
    <3>1. l <= Cardinality(ServedPeers)
      BY <2>2 DEF l
    <3>. QED
      BY <2>5, <3>1, ServedGrow
  <2>. QED
    BY <2>4, <2>6
<1>5. \A e \in Elements(nodesList'[n]) : Truthful(e)' /\ (e.ip = n => n = Origin)
  BY <1>1, TruthStays DEF TreeNode
<1>. QED
  BY <1>1, <1>2, <1>3, <1>4, <1>5 DEF TreeNode

\* A peer whose own status and parent stay.
LEMMA PeerStays ==
    ASSUME TreeInv, Grows, NEW n \in Peers,
           isSetup'[n] = isSetup[n], My(n)' = My(n),
           dst'[n][PARENT_ID] = dst[n][PARENT_ID],
           up'[n] = "off" => \A k : Named(n, k)' => Named(n, k),
           up'[n] = "up" /\ isSetup[n] /\ dst[n][PARENT_ID] = Origin
               => ~NoToken(net', Asking(n)),
           InOrder(n)'
    PROVE  TreePeer(n)'
<1>1. TreePeer(n)
  BY DEF TreeInv, TreeParts
<1>2. up'[n] = "off" => \A k \in Ids : ~Named(n, k)'
  BY <1>1 DEF TreePeer, Grows, Nodes
<1>3. ~isSetup'[n] => /\ dst'[n][PARENT_ID] \in Nodes
                      /\ \E i \in ChildSlots : Serves(dst[n][PARENT_ID], i, n)'
  BY <1>1, TreeBase DEF TreePeer, Grows
<1>. QED
  BY <1>1, <1>2, <1>3 DEF TreePeer

\* A child slot whose child stays where it is.
LEMMA LinkStays ==
    ASSUME Calm, TreeInv, Grows, NEW m \in Nodes, NEW i \in ChildSlots,
           Bit(connected[m], i), NEW c, c = dst[m][i],
           dst'[c][PARENT_ID] = dst[c][PARENT_ID],
           isSetup'[c] = isSetup[c],
           \A p \in Fly(net, m, c) : p.type = "INITIAL_STATUS" => p \in Fly(net', m, c),
           ~isSetup[c] => status'[c][PARENT_ID] = status[c][PARENT_ID]
    PROVE  Linked(m, i)'
<1>1. Linked(m, i) /\ c \in Nodes
  BY TreeBase DEF TreeInv, TreeParts, Linked
<1>2. dst'[m][i] = c /\ status'[m][i] = status[m][i]
  BY <1>1 DEF Serves, Grows
<1>3. ~isSetup[m] /\ My(m)' = My(m)
  BY JoinedServes, TreeBase DEF Grows
<1>4. ~isSetup[c] => My(c)' = My(c)
  BY <1>1 DEF Grows
<1>5. Truthful(status[m][i])'
  <2>1. Truthful(status[m][i])
    BY <1>1 DEF Linked
  <2>. QED
    BY <1>2, <2>1 DEF Truthful, Grows
<1>6. status'[m][i].layer <= Cardinality(ServedPeers')
  <2> DEFINE l == status[m][i].layer
  <2>1. l <= Cardinality(ServedPeers)
    BY <1>1 DEF Linked
  <2>2. i \in Slots
    BY TreeBase
  <2>3. l \in Int
    BY <2>2, TreeBase, NodeParts, StatusParts, SpaceAssumption
  <2>4. status'[m][i].layer = l
    BY <1>2
  <2> HIDE DEF l
  <2>. QED
    BY <2>1, <2>3, <2>4, ServedGrow
<1>. QED
  BY <1>1, <1>2, <1>3, <1>4, <1>5, <1>6 DEF Linked

\* Names that stay.
LEMMA NamesStay ==
    ASSUME TreeInv, Grows, NoNewNames
    PROVE  IdsGiven'
<1>1. IdsGiven
  BY DEF TreeInv, TreeParts
<1>2. NamedPeers' = NamedPeers
  BY TreeBase DEF Grows, NoNewNames, NamedPeers
<1>. QED
  BY <1>1, <1>2 DEF Grows, NoNewNames, IdsGiven

-----------------------------------------------------------------------------
(* What a step does to the queues.                                          *)

\* The names, when ids and ID packets stay.
LEMMA NamesSame ==
    ASSUME \A x \in Nodes : (My(x).id)' = My(x).id,
           \A x \in Nodes : \A p : p.type = "ID" =>
               (p \in Fly(net', Origin, x) <=> p \in Fly(net, Origin, x))
    PROVE  \A n \in Nodes : \A k : Named(n, k)' <=> Named(n, k)
BY DEF Named

\* The origin's queue to a peer, after a handler.
LEMMA OrderHandler ==
    ASSUME TreeInv, NEW s \in Nodes, NEW n \in Nodes, net[s][n] # <<>>,
           NEW a, NEW msgs \in Seq(Packet), Reply(s, n, To(a, msgs)), NEW y \in Peers,
           IF s = Origin /\ n = y THEN (My(y).id)' # 0
           ELSE (My(y).id)' = 0 <=> My(y).id = 0,
           n = Origin /\ y = a =>
               \/ net[Origin][y] = <<>> /\ IdFirst(msgs, My(y).id = 0)
               \/ My(y).id # 0 /\ \A p \in Elements(msgs) : p.type # "ID"
    PROVE  InOrder(y)'
<1> DEFINE q == net[Origin][y]
           r == net'[Origin][y]
<1>1. y \in Nodes /\ y # Origin /\ Origin \in Nodes /\ q \in Seq(Packet)
  BY TreeBase DEF Nets
<1>2. r = Rest(s, n, Origin, y) \o Added(n, a, msgs, Origin, y)
  <2>1. r = QueueThen(s, n, a, msgs, Origin, y)
    BY <1>1, QueueAfter
  <2>. QED
    BY <2>1 DEF QueueThen
<1>9. /\ Rest(s, n, Origin, y) = IF Origin = s /\ y = n THEN Tail(q) ELSE q
      /\ Added(n, a, msgs, Origin, y)
            = IF Origin = n /\ y = a /\ up[a] = "up" THEN msgs ELSE <<>>
  BY DEF Rest, Added
<1>3. IdFirst(q, My(y).id = 0)
  BY DEF TreeInv, TreeParts, TreePeer, InOrder
<1>4. \A t \in Seq(Packet) : t \o <<>> = t /\ <<>> \o t = t
  OBVIOUS
<1>5. InOrder(y)' <=> IdFirst(r, (My(y).id)' = 0)
  BY DEF InOrder
<1> HIDE DEF r
<1>6. CASE Origin = s /\ y = n
  <2>1. q # <<>>
    BY <1>6
  <2>2. r = Tail(q) /\ Tail(q) \in Seq(Packet)
    <3>1. Tail(q) \in Seq(Packet)
      BY <1>1, <2>1, TailPlace
    <3>2. r = Tail(q) \o <<>>
      BY <1>1, <1>2, <1>9, <1>6
    <3>. QED
      BY <1>4, <3>1, <3>2
  <2>3. IdFirst(Tail(q), FALSE)
    BY <1>1, <1>3, <2>1, OrderKept
  <2>4. ((My(y).id)' = 0) = FALSE
    BY <1>6
  <2>. QED
    BY <1>5, <2>2, <2>3, <2>4
<1>7. CASE ~(Origin = s /\ y = n)
  <2>1. ((My(y).id)' = 0) = (My(y).id = 0)
    BY <1>7
  <2> DEFINE z == My(y).id = 0
  <2>2. InOrder(y)' <=> IdFirst(r, z)
    BY <1>5, <2>1
  <2>3. CASE Origin = n /\ y = a /\ up[a] = "up"
    <3>1. r = q \o msgs
      BY <1>2, <1>9, <1>7, <2>3
    <3>2. CASE q = <<>> /\ IdFirst(msgs, z)
      BY <1>4, <2>2, <3>1, <3>2
    <3>3. CASE ~z /\ \A p \in Elements(msgs) : p.type # "ID"
      <4>1. IdFirst(q \o msgs, z)
        <5>1. z \in BOOLEAN /\ IdFirst(q, z)
          BY <1>3
        <5> HIDE DEF q, z
        <5>. QED
          BY <1>1, <3>3, <5>1, OrderKept
      <4>. QED
        BY <2>2, <3>1, <4>1
    <3>. QED
      BY <2>3, <3>2, <3>3
  <2>4. CASE ~(Origin = n /\ y = a /\ up[a] = "up")
    <3>1. r = q
      BY <1>1, <1>2, <1>9, <1>4, <1>7, <2>4
    <3>. QED
      BY <1>3, <2>2, <3>1
  <2>. QED
    BY <2>3, <2>4
<1>. QED
  BY <1>6, <1>7

\* A request stays under way unless it is read and not answered.
LEMMA TokenHandler ==
    ASSUME TreeInv, NEW s \in Nodes, NEW n \in Nodes, net[s][n] # <<>>,
           NEW a, NEW msgs \in Seq(Packet), Reply(s, n, To(a, msgs)), NEW x \in Nodes,
           ~NoToken(net, Asking(x)),
           \/ Head(net[s][n]) \notin Asking(x)[s][n]
           \/ /\ a \in Nodes /\ up[a] = "up"
              /\ \E p \in Elements(msgs) : p \in Asking(x)[n][a]
    PROVE  ~NoToken(net', Asking(x))
<1>1. PICK b \in Nodes, c \in Nodes : \E p \in Fly(net, b, c) : p \in Asking(x)[b][c]
  BY SomeToken
<1>0. PICK p \in Fly(net, b, c) : p \in Asking(x)[b][c]
  BY <1>1
<1>2. p \in Fly(net', b, c) \/ (b = s /\ c = n /\ p = Head(net[s][n]))
  BY TreeBase, HandlerLeaves
<1>3. CASE p \in Fly(net', b, c)
  BY <1>0, <1>3, SomeToken
<1>4. CASE b = s /\ c = n /\ p = Head(net[s][n])
  <2>1. PICK q \in Elements(msgs) : a \in Nodes /\ up[a] = "up" /\ q \in Asking(x)[n][a]
    BY <1>0, <1>4
  <2>2. q \in Fly(net', n, a)
    BY <2>1, TreeBase, HandlerLeaves
  <2>. QED
    BY <2>1, <2>2, SomeToken
<1>. QED
  BY <1>2, <1>3, <1>4

\* A step that changes no status, no link and no name.
LEMMA QuietKeeps ==
    ASSUME Calm, TreeInv, OrphanInv', ListInv',
           UNCHANGED <<status, dst, connected, childNum, isSetup, isRetry, nextId>>,
           \A n \in Nodes : up'[n] # "dead" /\ (up'[n] = "off" => up[n] = "off"),
           cached'[Origin],
           \A n \in Nodes : \A e \in Elements(nodesList'[n]) :
               e \in Elements(nodesList[n]) \/ (Truthful(e) /\ e.ip # n),
           \A x \in Nodes : \A p : p.type = "ID" =>
               (p \in Fly(net', Origin, x) <=> p \in Fly(net, Origin, x)),
           \A x, y \in Nodes : \A p \in Fly(net, x, y) :
               p.type = "INITIAL_STATUS" => p \in Fly(net', x, y),
           \A x, y \in Nodes : \A p \in Fly(net', x, y) :
               p \in Fly(net, x, y) \/ (Says(x, y, p) /\ p.type # "INITIAL_STATUS"),
           \A n \in Peers : up'[n] = "up" /\ isSetup[n] /\ dst[n][PARENT_ID] = Origin
               => ~NoToken(net', Asking(n)),
           \A n \in Peers : InOrder(n)'
    PROVE  TreeInv'
<1>1. \A n \in Nodes : My(n)' = My(n) /\ (My(n).id)' = My(n).id
  BY DEF My
<1>2. \A n \in Nodes : \A k : Named(n, k)' <=> Named(n, k)
  BY <1>1, NamesSame
<1>3. Grows
  BY <1>1, <1>2 DEF Grows, Serves
<1>4. NoNewNames
  BY <1>2 DEF NoNewNames
<1>5. TypeOK'
  BY DEF OrphanInv, LinkInv, TypeInv
<1>6. ASSUME NEW x \in Nodes, NEW y \in Nodes, NEW p \in Fly(net', x, y)
      PROVE  Says(x, y, p)'
  <2>1. Says(x, y, p) /\ (p.type = "INITIAL_STATUS" => ~isSetup[x])
    <3>1. p \in Fly(net, x, y) => Says(x, y, p) /\ Fit(x, y, p)
      BY TreeBase
    <3>. QED
      BY <1>6, <3>1 DEF Fit
  <2>. QED
    BY <1>2, <1>3, <2>1, SaysStays
<1>7. ASSUME NEW n \in Nodes
      PROVE  TreeNode(n)'
  BY <1>3, <1>5, NodeStays
<1>8. ASSUME NEW n \in Peers
      PROVE  TreePeer(n)'
  BY <1>1, <1>2, <1>3, PeerStays, TreeBase
<1>9. ASSUME NEW m \in Nodes, NEW i \in ChildSlots, Bit(connected[m], i)
      PROVE  Linked(m, i)'
  <2>1. dst[m][i] \in Nodes
    BY <1>9, TreeBase DEF TreeInv, TreeParts, Linked
  <2>. QED
    BY <1>3, <1>9, <2>1, LinkStays
<1>10. IdsGiven'
  BY <1>3, <1>4, NamesStay
<1>11. OriginReady'
  BY <1>1, TreeBase DEF TreeInv, TreeParts, OriginReady
<1>12. \A m \in Nodes : \A i \in ChildSlots : Bit(connected'[m], i) => Linked(m, i)'
  BY <1>9
<1>13. \A m \in Nodes : Bit(connected'[m], 0) /\ Bit(connected'[m], 1) => dst'[m][0] # dst'[m][1]
  BY DEF TreeInv, TreeParts
<1>. QED
  BY <1>6, <1>7, <1>8, <1>10, <1>11, <1>12, <1>13 DEF TreeInv, TreeParts

-----------------------------------------------------------------------------
(* Steps that change no status and no link.                                 *)

\* The oldest packet of the origin is ID for the peers without an id.
LEMMA HeadOrder ==
    ASSUME TreeInv, NEW y \in Peers, net[Origin][y] # <<>>
    PROVE  Head(net[Origin][y]).type = "ID" <=> My(y).id = 0
<1>1. y \in Nodes /\ Origin \in Nodes /\ net[Origin][y] \in Seq(Packet)
  BY TreeBase DEF Nets
<1>2. IdFirst(net[Origin][y], My(y).id = 0)
  BY DEF TreeInv, TreeParts, TreePeer, InOrder
<1> DEFINE q == net[Origin][y]
           z == My(y).id = 0
<1>3. q \in Seq(Packet) /\ z \in BOOLEAN /\ IdFirst(q, z) /\ q # <<>>
  BY <1>1, <1>2
<1> HIDE DEF q, z
<1>4. Head(q).type = "ID" <=> z
  BY <1>3, OrderKept
<1>. QED
  BY <1>4 DEF q, z

\* Handlers of that kind.
LEMMA QuietHandler ==
    ASSUME Calm, TreeInv, OrphanInv', ListInv',
           NEW s \in Nodes, NEW n \in Nodes, NEW h, h = Head(net[s][n]), net[s][n] # <<>>,
           NEW a, NEW msgs \in Seq(Packet), Reply(s, n, To(a, msgs)),
           UNCHANGED <<status, dst, connected, childNum, isSetup, isRetry, nextId, cached>>,
           \A x \in Nodes : up'[x] = up[x],
           \A x \in Nodes : \A e \in Elements(nodesList'[x]) :
               e \in Elements(nodesList[x]) \/ (Truthful(e) /\ e.ip # x),
           \A p \in Elements(msgs) : /\ p.type \notin {"ID", "INITIAL_STATUS"}
                                     /\ a \in Nodes => Says(n, a, p),
           n = Origin /\ a \in Peers => My(a).id # 0,
           \/ h.type \in {"REQ_LIST", "RES_LIST"}
           \/ h.type = "SETUP" /\ a = s /\ \E p \in Elements(msgs) : p.type = "ADVERTISE"
    PROVE  TreeInv'
<1>1. TypeOK /\ h.type \notin {"ID", "INITIAL_STATUS", "ADVERTISE"} /\ h \in Fly(net, s, n)
  <2>1. net \in Nets
    BY TreeBase
  <2>. QED
    BY <2>1, TreeBase, AfterDropped
<1>2. \A x, y \in Nodes : \A p \in Fly(net, x, y) : p \in Fly(net', x, y) \/ p = h
  BY <1>1, HandlerLeaves
<1>3. \A x, y \in Nodes : \A p \in Fly(net', x, y) :
          p \in Fly(net, x, y) \/ (x = n /\ y = a /\ p \in Elements(msgs))
  BY <1>1, AfterHandler
<1>4. \A x \in Nodes : \A p : p.type = "ID" =>
          (p \in Fly(net', Origin, x) <=> p \in Fly(net, Origin, x))
  BY <1>1, <1>2, <1>3, TreeBase
<1>5. \A x, y \in Nodes : \A p \in Fly(net, x, y) :
          p.type = "INITIAL_STATUS" => p \in Fly(net', x, y)
  BY <1>1, <1>2
<1>6. \A x, y \in Nodes : \A p \in Fly(net', x, y) :
          p \in Fly(net, x, y) \/ (Says(x, y, p) /\ p.type # "INITIAL_STATUS")
  BY <1>3
<1>7. ASSUME NEW x \in Peers, isSetup[x], up[x] = "up", dst[x][PARENT_ID] = Origin
      PROVE  ~NoToken(net', Asking(x))
  <2>1. ~NoToken(net, Asking(x)) /\ x \in Nodes
    BY <1>7, TreeBase DEF TreeInv, TreeParts, TreePeer
  <2>2. CASE h \notin Asking(x)[s][n]
    BY <2>1, <2>2, TokenHandler
  <2>3. CASE h \in Asking(x)[s][n]
    <3>1. h.type = "SETUP" /\ x = s
      BY <1>1, <2>3 DEF Asking
    <3>2. PICK p \in Elements(msgs) : p.type = "ADVERTISE" /\ a = s
      BY <3>1
    <3>3. p \in Packet
      BY DEF Elements
    <3>4. p \in Asking(x)[n][a] /\ a \in Nodes /\ up[a] = "up"
      BY <1>7, <3>1, <3>2, <3>3 DEF Asking
    <3>. QED
      BY <2>1, <3>4, TokenHandler
  <2>. QED
    BY <2>2, <2>3
<1>8. \A x \in Nodes : My(x)' = My(x) /\ (My(x).id)' = My(x).id
  BY DEF My
<1>9. ASSUME NEW y \in Peers
      PROVE  InOrder(y)'
  <2>1. y \in Nodes /\ (My(y).id)' = My(y).id
    BY <1>8, TreeBase
  <2>2. s = Origin /\ n = y => (My(y).id)' # 0
    BY <1>1, <2>1, HeadOrder
  <2>3. IF s = Origin /\ n = y THEN (My(y).id)' # 0 ELSE ((My(y).id)' = 0 <=> My(y).id = 0)
    BY <2>1, <2>2
  <2>. QED
    BY <2>3, OrderHandler
<1>10. \A x \in Nodes : up'[x] # "dead" /\ (up'[x] = "off" => up[x] = "off")
  BY TreeBase DEF TreeNode
<1>11. cached'[Origin]
  BY DEF TreeInv, TreeParts, OriginReady
<1>12. \A x \in Peers : up'[x] = "up" /\ isSetup[x] /\ dst[x][PARENT_ID] = Origin
          => ~NoToken(net', Asking(x))
  BY <1>7, TreeBase
<1>. QED
  BY <1>4, <1>5, <1>6, <1>9, <1>10, <1>11, <1>12, QuietKeeps

\* NodeSetup of a peer that redirects.
LEMMA TreeRedirect ==
    ASSUME Calm, TreeInv, OrphanInv', ListInv', NEW s \in Nodes, NEW n \in Peers,
           NodeSetupDrawn(s, n) \/ NodeSetupUncached(s, n) \/ NodeSetupFull(s, n)
    PROVE  TreeInv'
<1>1. n \in Nodes /\ n # Origin
  BY TreeBase
<1>2. PICK i \in Slots : DrawnAt(n, i) /\ Redirect(s, n, i) /\ Arrived(s, n, "SETUP")
  BY <1>1, RedirectDrawn
<1> DEFINE h == Head(net[s][n])
           p == SendAdvertise(n, i, status[n][i])
<1>3. h \in Fly(net, s, n) /\ h.type = "SETUP" /\ net[s][n] # <<>>
  BY <1>1, <1>2, ReadSays
<1>4. /\ AdvertiseNum(n) >= 0 /\ p \in Packet /\ <<p>> \in Seq(Packet)
      /\ p.type = "ADVERTISE" /\ Says(n, s, p)
  BY <1>1, <1>2, <1>3, AdvertiseSays
<1>5. SendID(s, n) = <<>> /\ CurrentId(s, n) = nextId
  BY <1>2, LaterRequest
<1>6. AdvertiseNum(n) \in Int
  BY <1>1, TreeBase, NodeParts DEF AdvertiseNum
<1> HIDE DEF p, h
<1>7. Reply(s, n, To(s, <<p>>))
  <2>1. SlotRecord(n, i) = {status[n][i]}
    BY DEF SlotRecord
  <2>2. Reply(s, n, To(s, SendID(s, n) \o
            IF AdvertiseNum(n) < 0 THEN <<>> ELSE <<p>>))
    BY <1>2, <2>1 DEF Redirect, p
  <2>3. (IF AdvertiseNum(n) < 0 THEN <<>> ELSE <<p>>) = <<p>>
    BY <1>4, <1>6
  <2>4. <<>> \o <<p>> = <<p>>
    BY <1>4
  <2>. QED
    BY <1>5, <2>2, <2>3, <2>4
<1>8. UNCHANGED <<status, dst, connected, childNum, isSetup, isRetry, nextId, cached, nodesList>>
  BY <1>2, <1>5 DEF Redirect, slotVars, linkVars, flagVars, listVars
<1>9. \A x \in Nodes : up'[x] = up[x]
  <2>1. Survives(n, AdvertiseNum(n))
    BY <1>2 DEF Redirect
  <2>. QED
    BY <1>4, <1>6, <2>1, TreeBase DEF Survives, TypeOK
<1>10. \A q \in Elements(<<p>>) : q = p
  BY FewElements
<1>11. p \in Elements(<<p>>)
  BY FewElements
<1>. QED
  BY <1>1, <1>3, <1>4, <1>7, <1>8, <1>9, <1>10, <1>11, QuietHandler DEF h

\* What the store loops leave in a list.
LEMMA StoreElements ==
    ASSUME NEW list \in Seq(Status), NEW recs \in Seq(Status)
    PROVE  /\ StoreNew(list, recs) \in Seq(Status)
           /\ Elements(StoreNew(list, recs)) \subseteq Elements(list) \cup Elements(recs)
           /\ Elements(StoreUpdate(list, recs)) \subseteq Elements(list) \cup Elements(recs)
<1> DEFINE F == FreshAt(list, recs)
           new == [j \in 1..Cardinality(F) |-> recs[Nth(F, j)]]
           grown == StoreNew(list, recs)
<1>1. F \in SUBSET (1..Len(recs))
  BY DEF FreshAt
<1>2. grown = list \o new
  BY DEF StoreNew
<1> HIDE DEF F
<1>3. /\ new \in Seq(Status) /\ Len(new) = Cardinality(F) /\ Cardinality(F) \in Nat
      /\ \A j \in 1..Cardinality(F) : Nth(F, j) \in F
  BY <1>1, Picked
<1>4. Elements(new) \subseteq Elements(recs)
  <2>1. \A j \in 1..Cardinality(F) : Nth(F, j) \in 1..Len(recs)
    BY <1>1, <1>3
  <2>. QED
    BY <1>3, <2>1 DEF Elements
<1> HIDE DEF new, grown
<1>5. grown \in Seq(Status) /\ Elements(grown) \subseteq Elements(list) \cup Elements(recs)
  <2>1. list \o new \in Seq(Status) /\ Elements(list \o new) \subseteq Elements(list) \cup Elements(new)
    BY <1>3, ConcatElements
  <2>. QED
    BY <1>2, <1>4, <2>1
<1>6. ASSUME NEW st
      PROVE  Latest(recs, st) = st \/ Latest(recs, st) \in Elements(recs)
  <2> DEFINE at == {k \in 1..Len(recs) : recs[k].id = st.id}
  <2>1. CASE at = {}
    BY <2>1 DEF Latest
  <2>2. CASE at # {}
    <3>1. Latest(recs, st) = recs[Max(at)]
      BY <2>2 DEF Latest
    <3>2. at \in SUBSET (1..Len(recs)) /\ Len(recs) \in Nat
      OBVIOUS
    <3> HIDE DEF at
    <3>3. Max(at) \in at
      BY <2>2, <3>2, MinMaxExist
    <3>. QED
      BY <3>1, <3>2, <3>3 DEF Elements
  <2>. QED
    BY <2>1, <2>2
<1>7. StoreUpdate(list, recs) = [k \in 1..Len(grown) |-> Latest(recs, grown[k])]
  <2>1. DOMAIN grown = 1..Len(grown)
    BY <1>5
  <2>. QED
    BY <2>1 DEF StoreUpdate, grown
<1>8. Len(grown) \in Nat
  BY <1>5
<1> DEFINE upd == StoreUpdate(list, recs)
<1>9. /\ Len(upd) = Len(grown)
      /\ \A k \in 1..Len(grown) : upd[k] = Latest(recs, grown[k])
  BY <1>7, <1>8
<1>10. \A k \in 1..Len(grown) : grown[k] \in Elements(grown)
  BY DEF Elements
<1> HIDE DEF upd
<1>11. Elements(upd) \subseteq Elements(grown) \cup Elements(recs)
  BY <1>6, <1>9, <1>10 DEF Elements
<1>. QED
  BY <1>5, <1>11 DEF grown, upd

\* REQ_LIST and RES_LIST.
LEMMA TreeLists ==
    ASSUME Calm, TreeInv, OrphanInv', ListInv', NEW s \in Nodes, NEW n \in Nodes,
           NodeReqListUnknown(s, n) \/ NodeReqList(s, n) \/ NodeResList(s, n)
    PROVE  TreeInv'
<1> DEFINE h == Head(net[s][n])
<1>1. NoAddr \notin Nodes /\ NoAddr \notin Peers /\ <<>> \in Seq(Packet) /\ Silence = To(NoAddr, <<>>)
      /\ Elements(<<>>) = {}
  BY TreeBase, SilenceTo, FewElements
<1>2. CASE NodeReqListUnknown(s, n)
  <2>1. Arrived(s, n, "REQ_LIST") /\ Reply(s, n, To(NoAddr, <<>>))
        /\ UNCHANGED <<status, dst, connected, childNum, isSetup, isRetry, nextId, cached,
                       nodesList, up>>
    BY <1>1, <1>2 DEF NodeReqListUnknown, nodeVars, slotVars, linkVars, flagVars, listVars
  <2>2. h.type = "REQ_LIST" /\ net[s][n] # <<>>
    BY <2>1, ReadSays
  <2> HIDE DEF h
  <2>. QED
    BY <1>1, <2>1, <2>2, QuietHandler DEF h
<1>3. CASE NodeReqList(s, n)
  <2> DEFINE i == SlotOf(n, Body(s, n)[1].id)
             p == SendResList(n, i)
  <2>1. Arrived(s, n, "REQ_LIST") /\ i # -1 /\ Survives(n, ResListNum(n, i))
        /\ UNCHANGED <<status, dst, connected, childNum, isSetup, isRetry, nextId, cached,
                       nodesList>>
    BY <1>3 DEF NodeReqList, slotVars, linkVars, flagVars, listVars
  <2>2. h.type = "REQ_LIST" /\ net[s][n] # <<>> /\ s \in Peers /\ ~isSetup[s]
        /\ Body(s, n)[1].id = My(s).id
    BY <2>1, ReadSays DEF Says
  <2>3. i = SlotOf(n, My(s).id)
    BY <2>2
  <2> HIDE DEF i, h
  <2>4. /\ Target(n, i) = {s} /\ ResListNum(n, i) >= 0
        /\ <<p>> \in Seq(Packet) /\ p.type = "RES_LIST" /\ Tells(s, p.body)
    BY <2>1, <2>2, <2>3, ResListSays DEF TreeInv
  <2>5. ResListNum(n, i) \in Int
    BY TreeBase, SendResListType
  <2>6. Says(n, s, p)
    BY <2>2, <2>4 DEF Says
  <2> HIDE DEF p
  <2>7. Reply(s, n, To(s, <<p>>))
    <3>1. PICK a \in Target(n, i) :
             Reply(s, n, IF ResListNum(n, i) < 0 THEN Silence ELSE To(a, <<p>>))
      BY <1>3 DEF NodeReqList, i, p
    <3>2. ~(ResListNum(n, i) < 0) /\ a = s
      BY <2>4, <2>5, <3>1
    <3>. QED
      BY <3>1, <3>2
  <2>8. \A x \in Nodes : up'[x] = up[x]
    BY <2>1, <2>4, <2>5, TreeBase DEF Survives, TypeOK
  <2>9. \A q \in Elements(<<p>>) : q = p
    BY FewElements
  <2>10. My(s).id # 0
    BY <2>2, JoinedTruthful, TreeBase
  <2>. QED
    BY <2>1, <2>2, <2>4, <2>6, <2>7, <2>8, <2>9, <2>10, QuietHandler DEF h
<1>4. CASE NodeResList(s, n)
  <2>1. Arrived(s, n, "RES_LIST") /\ Reply(s, n, To(NoAddr, <<>>))
        /\ UNCHANGED <<status, dst, connected, childNum, isSetup, isRetry, nextId, cached, up>>
        /\ nodesList' = [nodesList EXCEPT ![n] = StoreUpdate(nodesList[n], Body(s, n))]
    BY <1>1, <1>4 DEF NodeResList, nodeVars, slotVars, linkVars, flagVars
  <2>2. h.type = "RES_LIST" /\ net[s][n] # <<>> /\ Tells(n, Body(s, n)) /\ Body(s, n) \in Seq(Status)
    <3>1. h.type = "RES_LIST" /\ net[s][n] # <<>> /\ Tells(n, Body(s, n)) /\ h \in Packet
          /\ Body(s, n) = h.body
      BY <2>1, ReadSays DEF Says
    <3>. QED
      BY <3>1 DEF Packet
  <2> HIDE DEF h
  <2>3. \A x \in Nodes : \A e \in Elements(nodesList'[x]) :
               e \in Elements(nodesList[x]) \/ (Truthful(e) /\ e.ip # x)
    <3>1. nodesList \in [Nodes -> Seq(Status) \ {<<>>}]
      BY TreeBase DEF TypeOK
    <3>2. nodesList'[n] = StoreUpdate(nodesList[n], Body(s, n))
          /\ \A x \in Nodes \ {n} : nodesList'[x] = nodesList[x]
      BY <2>1, <3>1
    <3>3. Elements(StoreUpdate(nodesList[n], Body(s, n)))
             \subseteq Elements(nodesList[n]) \cup Elements(Body(s, n))
      BY <2>2, <3>1, StoreElements
    <3>. QED
      BY <2>2, <3>2, <3>3 DEF Tells
  <2>. QED
    BY <1>1, <2>1, <2>2, <2>3, QuietHandler DEF h
<1>. QED
  BY <1>2, <1>3, <1>4

-----------------------------------------------------------------------------
(* The TIME thread and the start of a process.                              *)

\* What a peer sends joins what is under way.
LEMMA SendLeaves ==
    ASSUME TypeOK, NEW n \in Nodes, NEW out \in Outs, Send(n, out)
    PROVE  /\ \A x, y \in Nodes : Fly(net, x, y) \subseteq Fly(net', x, y)
           /\ \A x, y \in Nodes : \A p \in Fly(net', x, y) :
                 p \in Fly(net, x, y) \/ (x = n /\ p \in Elements(out[y]))
           /\ \A y \in Nodes : Elements(out[y]) \subseteq Fly(net', n, y)
           /\ \A x, y \in Nodes : x # n => net'[x][y] = net[x][y]
<1>1. net' = Sent(net, n, out) /\ net \in Nets
      /\ \A x, y \in Nodes : \A p \in Fly(net', x, y) :
            p \in Fly(net, x, y) \/ (x = n /\ p \in Elements(out[y]))
  BY AfterTimer
<1>2. \A x, y \in Nodes : net[x][y] \in Seq(Packet) /\ out[y] \in Seq(Packet)
  BY <1>1 DEF Nets, Outs
<1>3. \A x, y \in Nodes : net'[x][y] = IF x = n THEN net[x][y] \o out[y] ELSE net[x][y]
  BY <1>1 DEF Sent
<1>4. \A x, y \in Nodes : Elements(net[x][y]) \cup Elements(out[y]) \subseteq Elements(net[x][y] \o out[y])
  BY <1>2, ConcatHolds
<1>. QED
  BY <1>1, <1>3, <1>4 DEF Fly

\* A peer sends, and nothing else changes but that it may have started.
LEMMA QuietTimer ==
    ASSUME Calm, TreeInv, OrphanInv', ListInv', NEW n \in Peers,
           NEW out \in Outs, Send(n, out),
           UNCHANGED <<status, dst, connected, childNum, isSetup, isRetry, nextId, cached,
                       nodesList>>,
           up' = up \/ up' = [up EXCEPT ![n] = "up"],
           \A y \in Nodes : \A p \in Elements(out[y]) :
               Says(n, y, p) /\ p.type \notin {"ID", "INITIAL_STATUS"},
           up[n] = "off" => \E y \in Nodes : \E p \in Elements(out[y]) : p \in Asking(n)[n][y]
    PROVE  TreeInv'
<1>1. TypeOK /\ n \in Nodes /\ n # Origin /\ Origin \in Nodes
  BY TreeBase
<1>2. /\ \A x, y \in Nodes : Fly(net, x, y) \subseteq Fly(net', x, y)
      /\ \A x, y \in Nodes : \A p \in Fly(net', x, y) :
            p \in Fly(net, x, y) \/ (x = n /\ p \in Elements(out[y]))
      /\ \A y \in Nodes : Elements(out[y]) \subseteq Fly(net', n, y)
      /\ \A x, y \in Nodes : x # n => net'[x][y] = net[x][y]
  BY <1>1, SendLeaves
<1>3. \A x \in Nodes : \A p : p.type = "ID" =>
          (p \in Fly(net', Origin, x) <=> p \in Fly(net, Origin, x))
  BY <1>1, <1>2
<1>4. \A x \in Nodes : up'[x] # "dead" /\ (up'[x] = "off" => up[x] = "off")
  BY <1>1, TreeBase DEF TreeNode, TypeOK
<1>5. ASSUME NEW x \in Peers, up'[x] = "up", isSetup[x], dst[x][PARENT_ID] = Origin
      PROVE  ~NoToken(net', Asking(x))
  <2>1. x \in Nodes /\ up[x] \in {"off", "up", "dead"} /\ up[x] # "dead"
    BY <1>1, TreeBase DEF TypeOK, TreeNode
  <2>2. CASE up[x] = "up"
    <3>1. ~NoToken(net, Asking(x))
      BY <1>5, <2>2 DEF TreeInv, TreeParts, TreePeer
    <3>2. PICK a \in Nodes, b \in Nodes : \E p \in Fly(net, a, b) : p \in Asking(x)[a][b]
      BY <3>1, SomeToken
    <3>. QED
      BY <1>2, <3>2, SomeToken
  <2>3. CASE up[x] = "off"
    <3>1. x = n
      BY <1>1, <1>5, <2>1, <2>3 DEF TypeOK
    <3>. QED
      BY <1>1, <1>2, <2>3, <3>1, SomeToken
  <2>. QED
    BY <2>1, <2>2, <2>3
<1>6. ASSUME NEW x \in Peers
      PROVE  InOrder(x)'
  <2>1. net'[Origin][x] = net[Origin][x] /\ My(x)' = My(x)
    BY <1>1, <1>2, TreeBase DEF My
  <2>. QED
    BY <2>1 DEF TreeInv, TreeParts, TreePeer, InOrder
<1>7. cached'[Origin]
  BY DEF TreeInv, TreeParts, OriginReady
<1>8. \A x, y \in Nodes : \A p \in Fly(net', x, y) :
          p \in Fly(net, x, y) \/ (Says(x, y, p) /\ p.type # "INITIAL_STATUS")
  BY <1>2
<1>9. \A x, y \in Nodes : \A p \in Fly(net, x, y) :
          p.type = "INITIAL_STATUS" => p \in Fly(net', x, y)
  BY <1>2
<1>. QED
  BY <1>3, <1>4, <1>5, <1>6, <1>7, <1>8, <1>9, QuietKeeps

\* A peer that has joined, or still asks: its process may be running.
LEMMA OriginUp ==
    ASSUME TreeInv
    PROVE  up[Origin] = "up" /\ ~isSetup[Origin]
<1>1. ~isSetup[Origin] /\ up[Origin] # "off"
  BY TreeBase DEF TreeInv, TreeParts, OriginReady, LinkNode
<1>. QED
  BY <1>1, TreeBase DEF TreeNode, TypeOK

\* SETUP again.
LEMMA TreeSetupTimer ==
    ASSUME Calm, TreeInv, OrphanInv', ListInv', NEW n \in Nodes, SetupTimer(n)
    PROVE  TreeInv'
<1> DEFINE p == SendSetup(n)
           m == dst[n][PARENT_ID]
           out == To(m, <<p>>)
<1>1. n \in Peers /\ up[n] = "up" /\ isSetup[n]
  BY OriginUp DEF SetupTimer, Nodes
<1>2. TypeOK /\ <<p>> \in Seq(Packet) /\ p.type = "SETUP"
  BY TreeBase, SendSetupType DEF SendSetup, Msg
<1>3. out \in Outs /\ \A y \in Nodes : \A q \in Elements(out[y]) : q = p /\ y = m /\ up[m] = "up"
  BY <1>2, ToOne
<1>4. /\ Send(n, out)
      /\ UNCHANGED <<status, dst, connected, childNum, isSetup, isRetry, nextId, cached,
                     nodesList, up>>
  BY DEF SetupTimer, nodeVars, slotVars, linkVars, flagVars, listVars
<1>5. ASSUME m \in Nodes, up[m] = "up"
      PROVE  Says(n, m, p)
  <2>1. NoToken(net, Asking(n))
    BY <1>5, SetupAgain, TreeBase DEF Calm, Settled
  <2>2. m # Origin
    BY <1>1, <2>1 DEF TreeInv, TreeParts, TreePeer
  <2>3. My(n).id # 0 /\ My(n).ip = n
    BY <1>1, <2>2 DEF TreeInv, TreeParts, TreePeer
  <2>4. My(n) \in Status
    BY <1>2, NodeParts
  <2>5. p.body[1].id = My(n).id /\ p.body[1].ip = My(n).ip
    <3>1. p.body[1] = [My(n) EXCEPT !.layer = 0]
      BY <2>3 DEF SendSetup, Msg
    <3> HIDE DEF p
    <3>. QED
      BY <2>4, <3>1 DEF Status
  <2>. QED
    BY <1>1, <1>2, <2>2, <2>3, <2>5 DEF Says
<1> HIDE DEF p, m, out
<1>6. \A y \in Nodes : \A q \in Elements(out[y]) : Says(n, y, q) /\ q.type \notin {"ID", "INITIAL_STATUS"}
  BY <1>2, <1>3, <1>5
<1>. QED
  BY <1>1, <1>3, <1>4, <1>6, QuietTimer

\* main of a peer.
LEMMA TreeStart ==
    ASSUME Calm, TreeInv, OrphanInv', ListInv', NEW n \in Nodes, Start(n)
    PROVE  TreeInv'
<1> DEFINE p == SendSetup(n)
           out == To(Origin, <<p>>)
<1>1. n \in Peers /\ n # Origin /\ up[n] = "off" /\ Origin \in Nodes /\ up[Origin] = "up"
  BY OriginUp, TreeBase DEF Start, Nodes
<1>2. TypeOK /\ <<p>> \in Seq(Packet) /\ p \in Packet /\ p.type = "SETUP"
  <2>1. <<p>> \in Seq(Packet)
    BY TreeBase, SendSetupType
  <2>. QED
    BY <2>1, TreeBase DEF SendSetup, Msg
<1>3. out \in Outs /\ \A y \in Nodes : \A q \in Elements(out[y]) : q = p /\ y = Origin
  BY <1>2, ToOne
<1>4. /\ Send(n, out) /\ up' = [up EXCEPT ![n] = "up"]
      /\ UNCHANGED <<status, dst, connected, childNum, isSetup, isRetry, nextId, cached,
                     nodesList>>
  BY DEF Start, slotVars, linkVars, flagVars, listVars
<1>5. \A k \in Ids : ~Named(n, k)
  BY <1>1 DEF TreeInv, TreeParts, TreePeer
<1>6. Says(n, Origin, p)
  <2>1. My(n).id \in Ids
    BY <1>2, NodeParts, StatusParts
  <2>2. My(n).id = 0
    BY <1>1, <1>5, <2>1 DEF Named
  <2>3. p.body[1] = [ZeroStatus EXCEPT !.p = My(n).p]
    BY <2>2 DEF SendSetup, Msg
  <2> HIDE DEF p
  <2>4. p.body[1].id = 0
    BY <2>3 DEF ZeroStatus
  <2>. QED
    BY <1>1, <1>2, <1>5, <2>4 DEF Says
<1>7. p \in Elements(out[Origin]) /\ p \in Asking(n)[n][Origin]
  <2>1. Elements(out[Origin]) = Elements(<<p>>)
    BY <1>1, <1>2, ToElements
  <2> HIDE DEF p, out
  <2>. QED
    BY <1>1, <1>2, <2>1, FewElements DEF Asking
<1> HIDE DEF p, out
<1>8. \A y \in Nodes : \A q \in Elements(out[y]) : Says(n, y, q) /\ q.type \notin {"ID", "INITIAL_STATUS"}
  BY <1>2, <1>3, <1>6
<1>. QED
  BY <1>1, <1>3, <1>4, <1>7, <1>8, QuietTimer

\* REQ_LIST to the parent and to every candidate.
LEMMA TreeListTimer ==
    ASSUME Calm, TreeInv, OrphanInv', ListInv', NEW n \in Nodes, ListTimer(n)
    PROVE  TreeInv'
<1> DEFINE req == Msg("REQ_LIST", <<OnlyId(My(n).id)>>)
<1>1. n \in Peers /\ ~isSetup[n] /\ up[n] = "up" /\ TypeOK
  BY TreeBase DEF ListTimer, TreeNode
<1>2. req.type = "REQ_LIST" /\ req.body[1].id = My(n).id
  BY DEF Msg, OnlyId, ZeroStatus
<1>3. Says(n, n, req) /\ \A y : Says(n, y, req)
  BY <1>1, <1>2 DEF Says
<1>4. /\ UNCHANGED <<status, dst, connected, childNum, isSetup, isRetry, nextId, cached,
                     nodesList, up>>
  BY DEF ListTimer, nodeVars, slotVars, linkVars, flagVars, listVars
<1> HIDE DEF req
<1>5. PICK out \in Outs :
         Send(n, out) /\ \A y \in Nodes : \A q \in Elements(out[y]) : q = req
  <2> DEFINE entries(m) == {k \in 1..Len(nodesList[n]) :
                               GtoPIP(n, nodesList[n][k]) = m}
             copies(m) == Cardinality(entries(m))
                            + IF dst[n][PARENT_ID] = m THEN 1 ELSE 0
             out == [m \in Nodes |-> IF up[m] = "up" THEN [k \in 1..copies(m) |-> req]
                                     ELSE <<>>]
  <2>1. Len(nodesList[n]) \in Nat
    BY <1>1, NodeParts
  <2>2. \A m : entries(m) \in SUBSET (1..Len(nodesList[n]))
    OBVIOUS
  <2> HIDE DEF entries
  <2>3. \A m : Cardinality(entries(m)) \in Nat
    BY <2>1, <2>2, PositionsFinite
  <2>4. \A m : copies(m) \in Nat
    <3>1. \A c \in Nat : \A m : c + (IF dst[n][PARENT_ID] = m THEN 1 ELSE 0) \in Nat
      OBVIOUS
    <3>. QED
      BY <2>3, <3>1
  <2>5. req \in Packet
    BY <1>1, ConnectTypes, OneRecord DEF Types, Msg, req
  <2> HIDE DEF copies
  <2>6. \A m : /\ [k \in 1..copies(m) |-> req] \in Seq(Packet)
               /\ \A p \in Elements([k \in 1..copies(m) |-> req]) : p = req
    BY <2>4, <2>5 DEF Elements
  <2>7. out \in Outs
    BY <2>6 DEF Outs
  <2>8. \A y \in Nodes : \A p \in Elements(out[y]) : p = req
    BY <2>6, FewElements
  <2>9. Send(n, out)
    BY DEF ListTimer, entries, copies, req
  <2> HIDE DEF out
  <2>. QED
    BY <2>7, <2>8, <2>9
<1>6. \A y \in Nodes : \A q \in Elements(out[y]) : Says(n, y, q) /\ q.type \notin {"ID", "INITIAL_STATUS"}
  BY <1>2, <1>3, <1>5
<1>. QED
  BY <1>1, <1>4, <1>5, <1>6, QuietTimer

\* The caches and the keepalives.
LEMMA TreeCaches ==
    ASSUME Calm, TreeInv, OrphanInv', ListInv',
           \/ \E n \in Nodes : CacheFull(n) \/ CacheDrains(n)
           \/ \E k, m, n \in Nodes : KeepAlive(k, m, n)
           \/ UNCHANGED vars
    PROVE  TreeInv'
<1>1. TypeOK
  BY TreeBase
<1>2. UNCHANGED <<status, dst, connected, childNum, isSetup, isRetry, nextId, net, up,
                  nodesList>>
  <2>1. CASE \E n \in Nodes : CacheFull(n) \/ CacheDrains(n)
    BY <2>1 DEF CacheFull, CacheDrains, nodeVars, slotVars, linkVars, flagVars, listVars
  <2>2. CASE \E k, m, n \in Nodes : KeepAlive(k, m, n)
    BY <2>2 DEF KeepAlive, nodeVars, linkVars, flagVars, listVars
  <2>3. CASE UNCHANGED vars
    BY <2>3 DEF vars
  <2>. QED
    BY <2>1, <2>2, <2>3
<1>7. cached[Origin] => cached'[Origin]
  <2>1. ASSUME NEW n \in Nodes, CacheFull(n)
        PROVE  cached[Origin] => cached'[Origin]
    <3>1. cached' = [cached EXCEPT ![n] = TRUE]
      BY <2>1 DEF CacheFull
    <3>. QED
      BY <1>1, <3>1, TreeBase DEF TypeOK
  <2>2. ASSUME NEW n \in Nodes, CacheDrains(n)
        PROVE  cached[Origin] => cached'[Origin]
    <3>1. cached' = [cached EXCEPT ![n] = FALSE] /\ n # Origin
      BY <2>2 DEF CacheDrains
    <3>. QED
      BY <1>1, <3>1, TreeBase DEF TypeOK
  <2>3. CASE \E k, m, n \in Nodes : KeepAlive(k, m, n)
    BY <2>3 DEF KeepAlive
  <2>4. CASE UNCHANGED vars
    BY <2>4 DEF vars
  <2>. QED
    BY <2>1, <2>2, <2>3, <2>4
<1>3. cached'[Origin]
  BY <1>7 DEF TreeInv, TreeParts, OriginReady
<1>4. \A x \in Nodes : up'[x] # "dead" /\ (up'[x] = "off" => up[x] = "off")
  BY <1>2, TreeBase DEF TreeNode
<1>5. ASSUME NEW x \in Peers
      PROVE  /\ InOrder(x)'
             /\ up'[x] = "up" /\ isSetup[x] /\ dst[x][PARENT_ID] = Origin
                  => ~NoToken(net', Asking(x))
  BY <1>2 DEF TreeInv, TreeParts, TreePeer, InOrder, My
<1>6. \A x, y \in Nodes : Fly(net', x, y) = Fly(net, x, y)
  BY <1>2
<1>. QED
  BY <1>2, <1>3, <1>4, <1>5, <1>6, TreeBase, QuietKeeps

-----------------------------------------------------------------------------
(* Steps that are never taken.                                              *)

\* The neighbour in a slot is alive, has joined and knows this node.
LEMMA NeighbourAnswers ==
    ASSUME Calm, TreeInv, NEW n \in Nodes, up[n] = "up", Timely(n),
           NEW i \in Connected(n)
    PROVE  Answers(n, dst[n][i], n) /\ My(dst[n][i]).id = status[n][i].id
           /\ dst[n][i] \in Nodes
<1> DEFINE m == dst[n][i]
<1>1. i \in Slots /\ Bit(connected[n], i)
  BY DEF Connected
<1>2. i \in 0..2 /\ ~isSetup[n] /\ m \in Nodes /\ i # MY_ID
  BY <1>1, SlotTruthful, TreeBase
<1>3. /\ ~isSetup[m] /\ status[n][i] = My(m)
      /\ \E j \in Connected(m) : status[m][j].id = My(n).id
  <2>1. CASE i # PARENT_ID
    <3>1. Linked(n, i) /\ m \in Peers
      BY <1>1, <2>1, SlotTruthful
    <3>2. ~isSetup[m]
      <4>1. SUFFICES ASSUME isSetup[m]
                     PROVE  FALSE
        OBVIOUS
      <4>2. PICK p \in Fly(net, n, m) : p.type = "INITIAL_STATUS"
        BY <3>1, <4>1 DEF Linked
      <4>3. p \in Asking(m)[n][m]
        BY <1>2, <4>2, TreeBase DEF Asking
      <4>4. ~NoToken(net, Asking(m))
        BY <1>2, <4>2, <4>3, SomeToken
      <4>5. up[m] = "up"
        BY <1>2, <4>4, TreeBase DEF LinkNode, TreeNode, TypeOK
      <4>6. net[n][m] = <<>>
        BY <1>2, <4>5 DEF Calm, Timely
      <4>. QED
        BY <4>2, <4>6, FewElements DEF Fly
    <3>3. status[n][i] = My(m) /\ status[m][PARENT_ID] = My(n)
      BY <3>1, <3>2 DEF Linked
    <3>4. HasParent(m)
      BY <1>2, <3>1, <3>2, TreeBase DEF TreeNode
    <3>5. PARENT_ID \in Connected(m)
      BY <3>4, TreeBase DEF HasParent, Connected
    <3>. QED
      BY <3>2, <3>3, <3>5
  <2>2. CASE i = PARENT_ID
    <3>1. n \in Peers /\ status[n][i] = My(m) /\ ~isSetup[m] /\ \E j \in ChildSlots : Serves(m, j, n)
      BY <1>1, <2>2, SlotTruthful
    <3>2. PICK j \in ChildSlots : Serves(m, j, n)
      BY <3>1
    <3>3. Bit(connected[m], j) /\ dst[m][j] = n /\ Linked(m, j)
      BY <1>2, <3>2 DEF Serves, TreeInv, TreeParts
    <3>4. status[m][j] = My(n)
      BY <1>2, <3>3 DEF Linked
    <3>5. j \in Connected(m)
      BY <3>3, TreeBase DEF Connected
    <3>. QED
      BY <3>1, <3>4, <3>5
  <2>. QED
    BY <2>1, <2>2
<1>4. up[m] = "up"
  BY <1>2, <1>3, TreeBase DEF LinkNode, TreeNode, TypeOK
<1>5. SlotOf(m, My(n).id) # -1 /\ Target(m, SlotOf(m, My(n).id)) = {n}
  BY <1>2, <1>3, SlotOfFinds
<1>6. m \in Target(n, i)
  BY <1>2 DEF Target
<1>. QED
  BY <1>2, <1>3, <1>4, <1>5, <1>6 DEF Answers

\* Nothing fails, expires, retries or departs.
LEMMA NeverTaken ==
    ASSUME Calm, TreeInv, NEW n \in Nodes
    PROVE  /\ ~Crash(n) /\ \A s \in Nodes : ~Network(s, n)
           /\ \A i \in Slots : ~ExpireSlot(n, i)
           /\ ~ExpireParent(n) /\ ~RetryTimer(n) /\ ~DepartTimer(n)
<1>1. /\ ~Spend("loss") /\ ~Spend("dup") /\ ~Spend("reorder") /\ ~Spend("crash") /\ ~Spend("depart")
      /\ \A s, m \in Nodes : ~Misdirect(s, n, m)
  BY Unaffordable, NoRace DEF Calm, Settled, Unrepeated, TreeInv, OrphanInv, LinkInv, Kinds
<1>2. ~Crash(n) /\ ~DepartTimer(n)
  BY <1>1 DEF Crash, DepartTimer
<1>3. ~RetryTimer(n)
  BY TreeBase DEF RetryTimer, TreeNode
<1>4. ASSUME NEW s \in Nodes, Network(s, n)
      PROVE  FALSE
  <2> DEFINE h == Head(net[s][n])
  <2>1. net[s][n] # <<>> /\ Unhandled(n, h.type)
    BY <1>1, <1>4 DEF Network, Lose, Duplicate, Reorder
  <2>2. h \in Fly(net, s, n)
    BY <2>1, AfterDropped, TreeBase
  <2>3. Says(s, n, h)
    BY <2>2, TreeBase
  <2>. QED
    BY <2>1, <2>3, TreeBase DEF Unhandled, Says
<1>5. ASSUME NEW i \in Slots
      PROVE  ~Overdue(n, i)
  <2>1. SUFFICES ASSUME Overdue(n, i)
                 PROVE  FALSE
    OBVIOUS
  <2>2. up[n] = "up" /\ Timely(n) /\ i \in Connected(n)
    BY <2>1 DEF Overdue
  <2>3. Answers(n, dst[n][i], n) /\ My(dst[n][i]).id = status[n][i].id /\ dst[n][i] \in Nodes
    BY <2>2, NeighbourAnswers
  <2>. QED
    BY <2>1, <2>3 DEF Overdue, Calm
<1>6. PARENT_ID \in Slots
  BY TreeBase
<1>. QED
  BY <1>2, <1>3, <1>4, <1>5, <1>6 DEF ExpireSlot, ExpireParent

\* Nobody moves.
LEMMA NeverRead ==
    ASSUME TreeInv, NEW s \in Nodes, NEW n \in Nodes, Receive(s, n)
    PROVE  \/ NodeSetupDrawn(s, n) \/ NodeSetupUncached(s, n) \/ NodeSetupFull(s, n)
           \/ NodeSetupJoin(s, n) \/ NodeID(s, n) \/ NodeInitialStatus(s, n)
           \/ NodeAdvertise(s, n)
           \/ NodeReqListUnknown(s, n) \/ NodeReqList(s, n) \/ NodeResList(s, n)
<1>1. ASSUME NEW type \in Moving
      PROVE  ~Arrived(s, n, type)
  BY <1>1, ReadSays DEF Says, Moving
<1>2. /\ ~Arrived(s, n, "CONNECT") /\ ~Arrived(s, n, "ACCEPT") /\ ~Arrived(s, n, "UNACCEPT")
      /\ ~Arrived(s, n, "DEPART") /\ ~Arrived(s, n, "DETACH")
  BY <1>1 DEF Moving
<1>. QED
  BY <1>2 DEF Receive, NodeConnectRefused, NodeConnectDuplicate, NodeConnectAccepted,
     NodeAccept, NodeUnaccept, NodeDepart, NodeDetach

-----------------------------------------------------------------------------
(* ID: a peer learns its number.                                            *)

LEMMA TreeID ==
    ASSUME Calm, TreeInv, OrphanInv', ListInv', NEW s \in Nodes, NEW n \in Nodes,
           NodeID(s, n)
    PROVE  TreeInv'
<1> DEFINE h == Head(net[s][n])
           id == h.body[1].id
<1>1. /\ TypeOK /\ TypeOK' /\ n \in Peers /\ n # Origin /\ Origin \in Nodes
      /\ <<>> \in Seq(Packet) /\ Elements(<<>>) = {}
  BY TreeBase, FewElements DEF NodeID, Nodes, OrphanInv, LinkInv, TypeInv
<1>2. /\ h \in Fly(net, s, n) /\ h.type = "ID" /\ net[s][n] # <<>> /\ up[n] = "up"
      /\ s = Origin /\ id # 0 /\ h.body[1].ip = n /\ Body(s, n) = h.body
  BY ReadSays DEF NodeID, Says, Fit
<1>3. My(n).id = 0
  BY <1>1, <1>2, HeadOrder
<1>4. isSetup[n] /\ My(n).ip = NoAddr /\ dst[n][PARENT_ID] = Origin
  BY <1>1, <1>3 DEF TreeInv, TreeParts, TreePeer
<1>5. /\ UNCHANGED <<up, nextId, dst, connected, childNum, isSetup, isRetry, nodesList, cached>>
      /\ status' = [status EXCEPT ![n][MY_ID] = [status[n][MY_ID] EXCEPT !.id = id, !.ip = n]]
      /\ Reply(s, n, To(NoAddr, <<>>))
  BY <1>2, SilenceTo DEF NodeID, nodeVars, linkVars, flagVars, listVars
<1> HIDE DEF h, id
<1>6. /\ \A x \in Nodes \ {n} : status'[x] = status[x] /\ My(x)' = My(x)
      /\ \A i \in Slots \ {MY_ID} : status'[n][i] = status[n][i]
      /\ (My(n).id)' = id /\ (My(n).ip)' = n
  <2>1. status \in [Nodes -> [Slots -> Status]] /\ MY_ID \in Slots
    BY <1>1, TreeBase DEF TypeOK
  <2>2. status'[n][MY_ID] = [status[n][MY_ID] EXCEPT !.id = id, !.ip = n]
    BY <1>1, <1>5, <2>1
  <2>3. status[n][MY_ID] \in Status
    BY <2>1
  <2>4. status'[n][MY_ID].id = id /\ status'[n][MY_ID].ip = n
    BY <2>2, <2>3 DEF Status
  <2>. QED
    BY <1>1, <1>5, <2>1, <2>4 DEF My
<1>7. /\ \A x, y \in Nodes : \A p \in Fly(net, x, y) : p \in Fly(net', x, y) \/ (x = Origin /\ y = n /\ p = h)
      /\ \A x, y \in Nodes : Fly(net', x, y) \subseteq Fly(net, x, y)
  <2> DEFINE msgs == <<>>
             h0 == Head(net[s][n])
  <2>1. msgs \in Seq(Packet) /\ Elements(msgs) = {} /\ Reply(s, n, To(NoAddr, msgs))
    BY <1>1, <1>5
  <2> HIDE DEF msgs
  <2>2. \A x, y \in Nodes : \A p \in Fly(net, x, y) :
           p \in Fly(net', x, y) \/ (x = s /\ y = n /\ p = h0)
    BY <1>1, <1>2, <2>1, HandlerLeaves
  <2>3. /\ \A x, y \in Nodes : Fly(Dropped(net, s, n), x, y) \subseteq Fly(net, x, y)
        /\ \A x, y \in Nodes : \A p \in Fly(net', x, y) :
                 \/ p \in Fly(Dropped(net, s, n), x, y)
                 \/ x = n /\ y = NoAddr /\ up[NoAddr] = "up" /\ p \in Elements(msgs)
    BY <1>1, <1>2, <2>1, AfterHandler
  <2>. QED
    BY <1>1, <1>2, <2>1, <2>2, <2>3 DEF h
<1>8. ASSUME NEW x \in Peers
      PROVE  InOrder(x)'
  <2>1. x = n => (My(x).id)' # 0
    BY <1>2, <1>6
  <2>2. x # n => (My(x).id)' = My(x).id
    BY <1>6, TreeBase
  <2>3. IF s = Origin /\ n = x THEN (My(x).id)' # 0 ELSE ((My(x).id)' = 0 <=> My(x).id = 0)
    BY <1>2, <2>1, <2>2
  <2>. QED
    BY <1>1, <1>2, <1>5, <2>3, OrderHandler
<1>9. \A p \in Fly(net', Origin, n) : p.type # "ID"
  <2>1. IdFirst(net'[Origin][n], FALSE)
    BY <1>1, <1>2, <1>6, <1>8 DEF InOrder
  <2>. QED
    BY <2>1 DEF IdFirst, Fly, Elements
<1>10. \A x \in Nodes : \A k : Named(x, k)' <=> Named(x, k)
  <2>1. ASSUME NEW x \in Nodes \ {n}, NEW k
        PROVE  Named(x, k)' <=> Named(x, k)
    <3>1. \A p : p \in Fly(net', Origin, x) <=> p \in Fly(net, Origin, x)
      BY <1>1, <1>7, <2>1
    <3>2. My(x)' = My(x)
      BY <1>6, <2>1
    <3>. QED
      BY <3>1, <3>2 DEF Named
  <2>2. ASSUME NEW k
        PROVE  Named(n, k)' <=> Named(n, k)
    <3>1. Named(n, id)
      BY <1>1, <1>2 DEF Named, id
    <3>2. Named(n, k)' <=> k = id
      BY <1>1, <1>2, <1>6, <1>9 DEF Named
    <3>3. Named(n, k) => k = id
      BY <1>1, <3>1, OneName, TreeBase
    <3>. QED
      BY <3>1, <3>2, <3>3
  <2>. QED
    BY <2>1, <2>2
<1>11. Grows /\ NoNewNames
  <2>1. \A x \in Nodes : ~isSetup[x] => x # n
    BY <1>4
  <2>2. \A x \in Nodes : My(x).id # 0 => (My(x).id)' = My(x).id
    BY <1>3, <1>6
  <2>3. \A m, c \in Nodes : \A i \in ChildSlots : Serves(m, i, c) =>
          Serves(m, i, c)' /\ status'[m][i] = status[m][i]
    BY <1>5, <1>6, TreeBase DEF Serves
  <2>4. \A x \in Nodes : up'[x] # "dead"
    BY <1>5, TreeBase DEF TreeNode
  <2>. QED
    BY <1>5, <1>6, <1>10, <2>1, <2>2, <2>3, <2>4 DEF Grows, NoNewNames
<1>12. ASSUME NEW x \in Nodes, NEW y \in Nodes, NEW p \in Fly(net', x, y)
       PROVE  Says(x, y, p)'
  <2>1. p \in Fly(net, x, y)
    BY <1>7
  <2>2. Says(x, y, p) /\ (p.type = "INITIAL_STATUS" => ~isSetup[x])
    BY <2>1, TreeBase DEF Fit
  <2>. QED
    BY <1>5, <1>10, <1>11, <2>2, SaysStays
<1>13. ASSUME NEW x \in Nodes
       PROVE  TreeNode(x)'
  BY <1>1, <1>5, <1>11, NodeStays
<1>14. ASSUME NEW x \in Peers, up[x] = "up", isSetup[x], dst[x][PARENT_ID] = Origin
       PROVE  ~NoToken(net', Asking(x))
  <2>1. ~NoToken(net, Asking(x)) /\ x \in Nodes
    BY <1>14, TreeBase DEF TreeInv, TreeParts, TreePeer
  <2>2. h \notin Asking(x)[s][n]
    BY <1>2, TreeBase DEF Asking
  <2>. QED
    BY <1>1, <1>2, <1>5, <2>1, <2>2, TokenHandler DEF h
<1>15. ASSUME NEW x \in Peers
       PROVE  TreePeer(x)'
  <2>1. CASE x # n
    <3>1. My(x)' = My(x) /\ x \in Nodes
      BY <1>6, <2>1, TreeBase
    <3>. QED
      BY <1>5, <1>8, <1>10, <1>11, <1>14, <3>1, PeerStays
  <2>2. CASE x = n
    <3>1. TreePeer(n)
      BY <1>1 DEF TreeInv, TreeParts
    <3>2. up'[n] = "up" /\ isSetup'[n] /\ dst'[n][PARENT_ID] = dst[n][PARENT_ID]
      BY <1>2, <1>4, <1>5
    <3>3. up'[n] = "up" /\ isSetup'[n] /\ dst'[n][PARENT_ID] = Origin => ~NoToken(net', Asking(n))
      BY <1>1, <1>2, <1>4, <1>14
    <3>4. InOrder(n)'
      BY <1>1, <1>8
    <3>. QED
      BY <1>2, <1>6, <2>2, <3>1, <3>2, <3>3, <3>4 DEF TreePeer
  <2>. QED
    BY <2>1, <2>2
<1>16. ASSUME NEW m \in Nodes, NEW i \in ChildSlots, Bit(connected[m], i)
       PROVE  Linked(m, i)'
  <2> DEFINE c == dst[m][i]
  <2>1. c \in Nodes /\ PARENT_ID \in Slots \ {MY_ID}
    BY <1>16, TreeBase DEF TreeInv, TreeParts, Linked
  <2>2. status'[c][PARENT_ID] = status[c][PARENT_ID]
    BY <1>6, <2>1
  <2>3. \A p \in Fly(net, m, c) : p.type = "INITIAL_STATUS" => p \in Fly(net', m, c)
    BY <1>2, <1>7, <2>1
  <2>. QED
    BY <1>5, <1>11, <1>16, <2>2, <2>3, LinkStays
<1>17. IdsGiven'
  BY <1>11, NamesStay
<1>18. OriginReady'
  <2>1. My(Origin)' = My(Origin)
    BY <1>1, <1>6
  <2>. QED
    BY <1>5, <2>1 DEF TreeInv, TreeParts, OriginReady
<1>19. \A m \in Nodes : \A i \in ChildSlots : Bit(connected'[m], i) => Linked(m, i)'
  BY <1>5, <1>16
<1>20. \A m \in Nodes : Bit(connected'[m], 0) /\ Bit(connected'[m], 1) => dst'[m][0] # dst'[m][1]
  BY <1>5 DEF TreeInv, TreeParts
<1>. QED
  BY <1>12, <1>13, <1>15, <1>17, <1>18, <1>19, <1>20 DEF TreeInv, TreeParts

-----------------------------------------------------------------------------
(* ADVERTISE: a peer asks the next node.                                    *)

\* What a handler leaves under way, both ways.
LEMMA HandlerNet ==
    ASSUME TypeOK, NEW s \in Nodes, NEW n \in Nodes, net[s][n] # <<>>,
           NEW a, NEW msgs \in Seq(Packet), Reply(s, n, To(a, msgs))
    PROVE  /\ \A x, y \in Nodes : \A p \in Fly(net, x, y) :
                 p \in Fly(net', x, y) \/ (x = s /\ y = n /\ p = Head(net[s][n]))
           /\ \A x, y \in Nodes : \A p \in Fly(net', x, y) :
                 \/ p \in Fly(net, x, y) /\ p \in Fly(Dropped(net, s, n), x, y)
                 \/ x = n /\ y = a /\ p \in Elements(msgs)
           /\ a \in Nodes /\ up[a] = "up" => Elements(msgs) \subseteq Fly(net', n, a)
<1>1. /\ \A x, y \in Nodes : Fly(Dropped(net, s, n), x, y) \subseteq Fly(net, x, y)
      /\ \A x, y \in Nodes : \A p \in Fly(net', x, y) :
            \/ p \in Fly(Dropped(net, s, n), x, y)
            \/ x = n /\ y = a /\ up[a] = "up" /\ p \in Elements(msgs)
  BY AfterHandler
<1>. QED
  BY <1>1, HandlerLeaves

\* The first answer to a request is the only one.
LEMMA OneAnswer ==
    ASSUME TreeInv, NEW s \in Nodes, NEW n \in Nodes, net[s][n] # <<>>,
           Head(net[s][n]).type \in {"ADVERTISE", "INITIAL_STATUS"}
    PROVE  /\ n \in Peers /\ isSetup[n] /\ My(n).id # 0 /\ My(n).ip = n /\ s # n
           /\ dst[n][PARENT_ID] = s /\ Head(net[s][n]) \in Asking(n)[s][n]
           /\ connected[n] = 0 /\ up[n] = "up"
           /\ \A x, y \in Nodes : \A p \in Fly(Dropped(net, s, n), x, y) : p \notin Asking(n)[x][y]
<1> DEFINE h == Head(net[s][n])
<1>1. h \in Fly(net, s, n) /\ net \in Nets
  BY TreeBase, AfterDropped
<1>2. h \in Asking(n)[s][n] /\ Says(s, n, h) /\ Fit(s, n, h)
  BY <1>1, TreeBase DEF Asking
<1>3. ~NoToken(net, Asking(n))
  BY <1>1, <1>2, SomeToken
<1>4. isSetup[n] /\ up[n] = "up" /\ connected[n] = 0
  BY <1>3, TreeBase DEF LinkNode, TreeNode, TypeOK
<1>5. n \in Peers
  BY <1>4, OriginUp DEF Nodes
<1>6. dst[n][PARENT_ID] = s
  BY <1>2 DEF Says, Fit
<1>7. My(n).id # 0
  <2>1. SUFFICES ASSUME My(n).id = 0
                 PROVE  FALSE
    OBVIOUS
  <2>2. s = Origin
    BY <1>5, <1>6, <2>1 DEF TreeInv, TreeParts, TreePeer
  <2>. QED
    BY <1>5, <2>1, <2>2, HeadOrder
<1>8. My(n).ip = n /\ dst[n][PARENT_ID] # n
  BY <1>5, <1>7 DEF TreeInv, TreeParts, TreePeer
<1>9. NoToken(Dropped(net, s, n), Asking(n))
  BY <1>1, <1>2, TreeBase, TokenDropped
<1>10. \A x, y \in Nodes : \A p \in Fly(Dropped(net, s, n), x, y) : p \notin Asking(n)[x][y]
  BY <1>9, SomeToken
<1>. QED
  BY <1>2, <1>4, <1>5, <1>6, <1>7, <1>8, <1>10

\* The rest of a packet, from its second record.
LEMMA RestOf ==
    ASSUME NEW body \in Seq(Status)
    PROVE  /\ body # <<>> => /\ SubSeq(body, 2, Len(body)) \in Seq(Status)
                             /\ Elements(SubSeq(body, 2, Len(body))) \subseteq Elements(Tail(body))
           /\ Len(body) >= 2 => /\ SubSeq(body, 3, Len(body)) \in Seq(Status)
                                /\ Elements(SubSeq(body, 3, Len(body))) \subseteq Elements(Tail(body))
<1> DEFINE l == Len(body)
<1>1. l \in Nat /\ \A i \in 1..l : body[i] \in Status
  OBVIOUS
<1>2. ASSUME body # <<>>
      PROVE  SubSeq(body, 2, Len(body)) = Tail(body) /\ Tail(body) \in Seq(Status)
  BY <1>2, TailIsSubSeq, HeadTailProperties
<1>3. ASSUME Len(body) >= 2
      PROVE  /\ SubSeq(body, 3, Len(body)) \in Seq(Status)
             /\ Elements(SubSeq(body, 3, Len(body))) \subseteq Elements(Tail(body))
  <2> DEFINE q == SubSeq(body, 3, l)
             t == Tail(body)
  <2>1. \A i \in 3..l : body[i] \in Status
    BY <1>1
  <2>2. /\ q \in Seq(Status) /\ Len(q) = IF 3 <= l THEN l - 3 + 1 ELSE 0
        /\ \A i \in 1..l - 3 + 1 : q[i] = body[3 + i - 1]
    <3> HIDE DEF l
    <3>. QED
      BY <1>1, <2>1, SubSeqProperties
  <2>3. body # <<>>
    BY <1>3
  <2>4. Len(t) = l - 1 /\ \A i \in 1..Len(t) : t[i] = body[i + 1]
    BY <2>3, HeadTailProperties
  <2> HIDE DEF q, t, l
  <2>5. ASSUME NEW i \in 1..Len(q)
        PROVE  i + 1 \in 1..Len(t) /\ q[i] = t[i + 1]
    <3>1. i \in 1..l - 3 + 1 /\ i + 1 \in 1..Len(t) /\ 3 + i - 1 = (i + 1) + 1
      BY <1>1, <2>2, <2>4
    <3>. QED
      BY <2>2, <2>4, <3>1
  <2>6. Elements(q) \subseteq Elements(t)
    BY <2>5 DEF Elements
  <2>. QED
    BY <2>2, <2>6 DEF q, t, l
<1>. QED
  BY <1>2, <1>3

\* The SETUP that goes to the node an ADVERTISE names.
LEMMA AdvertiseStep ==
    ASSUME TreeInv, NEW s \in Nodes, NEW n \in Nodes, NodeAdvertise(s, n)
    PROVE  \E t \in Addrs :
              /\ n \in Peers /\ t \notin {n, Origin} /\ Reply(s, n, To(t, <<SendSetup(n)>>))
              /\ dst' = [dst EXCEPT ![n][PARENT_ID] = t]
              /\ \A x \in Nodes : \A e \in Elements(nodesList'[x]) :
                    e \in Elements(nodesList[x]) \/ (Truthful(e) /\ e.ip # x)
              /\ UNCHANGED <<up, nextId, status, connected, childNum, isSetup, isRetry, cached>>
<1> DEFINE h == Head(net[s][n])
           body == h.body
           ad == body[1]
<1>1. /\ h \in Fly(net, s, n) /\ h \in Packet /\ h.type = "ADVERTISE" /\ Body(s, n) = body
      /\ net[s][n] # <<>> /\ Says(s, n, h) /\ Arrived(s, n, "ADVERTISE")
  BY ReadSays DEF NodeAdvertise
<1>2. n \in Peers /\ My(n).ip = n
  BY <1>1, OneAnswer
<1>3. /\ body # <<>> /\ Tells(n, Tail(body)) /\ body \in Seq(Status)
      /\ ad.ip = NoAddr \/ ad.ip \in Peers \ {n}
  BY <1>1 DEF Says, Packet
<1>4. RecordAt(body, 1) = {ad}
  <2>1. 1 <= Len(body)
    BY <1>3
  <2>. QED
    BY <2>1 DEF RecordAt
<1> DEFINE rest == SubSeq(body, 2, Len(body))
<1>5. /\ nodesList' = [nodesList EXCEPT ![n] = StoreNew(nodesList[n], rest)]
      /\ \E a \in RecordAt(body, 1) : /\ dst' = [dst EXCEPT ![n][PARENT_ID] = GtoPIP(n, a)]
                                      /\ Reply(s, n, To(GtoPIP(n, a), <<SendSetup(n)>>))
      /\ UNCHANGED <<up, nextId, status, connected, childNum, isSetup, isRetry, cached>>
  BY <1>1 DEF NodeAdvertise, nodeVars, linkVars, flagVars
<1>6. GtoPIP(n, ad) = ad.ip
  BY <1>2, <1>3, TreeBase DEF GtoPIP
<1>7. rest \in Seq(Status) /\ Elements(rest) \subseteq Elements(Tail(body))
  BY <1>3, RestOf
<1> HIDE DEF rest, body, h
<1>8. \A x \in Nodes : \A e \in Elements(nodesList'[x]) :
                    e \in Elements(nodesList[x]) \/ (Truthful(e) /\ e.ip # x)
  <2>1. nodesList \in [Nodes -> Seq(Status) \ {<<>>}]
    BY TreeBase DEF TypeOK
  <2>2. nodesList'[n] = StoreNew(nodesList[n], rest)
        /\ \A x \in Nodes \ {n} : nodesList'[x] = nodesList[x]
    BY <1>5, <2>1
  <2>3. Elements(StoreNew(nodesList[n], rest)) \subseteq Elements(nodesList[n]) \cup Elements(rest)
    BY <1>7, <2>1, StoreElements
  <2>. QED
    BY <1>3, <1>7, <2>2, <2>3 DEF Tells
<1>9. ad.ip \in Addrs /\ ad.ip \notin {n, Origin}
  BY <1>2, <1>3, TreeBase, Values
<1>. QED
  BY <1>2, <1>4, <1>5, <1>6, <1>8, <1>9

LEMMA TreeAdvertise ==
    ASSUME Calm, TreeInv, OrphanInv', ListInv', NEW s \in Nodes, NEW n \in Nodes,
           NodeAdvertise(s, n)
    PROVE  TreeInv'
<1> DEFINE h == Head(net[s][n])
           p == SendSetup(n)
<1>1. /\ h \in Fly(net, s, n) /\ h.type = "ADVERTISE" /\ net[s][n] # <<>>
      /\ TypeOK /\ TypeOK' /\ Origin \in Nodes
  BY ReadSays, TreeBase DEF NodeAdvertise, OrphanInv, LinkInv, TypeInv
<1>2. /\ n \in Peers /\ isSetup[n] /\ My(n).id # 0 /\ My(n).ip = n /\ s # n
      /\ up[n] = "up" /\ h \in Asking(n)[s][n]
      /\ \A x, y \in Nodes : \A q \in Fly(Dropped(net, s, n), x, y) : q \notin Asking(n)[x][y]
  BY <1>1, OneAnswer
<1>3. PICK t \in Addrs :
        /\ t \notin {n, Origin} /\ Reply(s, n, To(t, <<p>>))
        /\ dst' = [dst EXCEPT ![n][PARENT_ID] = t]
        /\ \A x \in Nodes : \A e \in Elements(nodesList'[x]) :
              e \in Elements(nodesList[x]) \/ (Truthful(e) /\ e.ip # x)
        /\ UNCHANGED <<up, nextId, status, connected, childNum, isSetup, isRetry, cached>>
  BY AdvertiseStep
<1>4. <<p>> \in Seq(Packet) /\ p.type = "SETUP" /\ Elements(<<p>>) = {p}
  BY <1>1, SendSetupType, FewElements DEF SendSetup, Msg
<1>5. p.body[1].id = My(n).id /\ p.body[1].ip = n
  <2>1. My(n) \in Status
    BY <1>1, NodeParts
  <2>2. p.body[1] = [My(n) EXCEPT !.layer = 0]
    BY <1>2 DEF SendSetup, Msg
  <2> HIDE DEF p
  <2>. QED
    BY <1>2, <2>1, <2>2 DEF Status
<1> HIDE DEF h, p
<1>6. /\ \A x, y \in Nodes : \A q \in Fly(net, x, y) : q \in Fly(net', x, y) \/ (x = s /\ y = n /\ q = h)
      /\ \A x, y \in Nodes : \A q \in Fly(net', x, y) :
            \/ q \in Fly(net, x, y) /\ q \in Fly(Dropped(net, s, n), x, y)
            \/ x = n /\ y = t /\ q = p
  <2> DEFINE msgs == <<p>>
             h0 == Head(net[s][n])
  <2>1. msgs \in Seq(Packet) /\ Elements(msgs) = {p} /\ Reply(s, n, To(t, msgs))
    BY <1>3, <1>4
  <2> HIDE DEF msgs
  <2>2. /\ \A x, y \in Nodes : \A q \in Fly(net, x, y) :
                 q \in Fly(net', x, y) \/ (x = s /\ y = n /\ q = h0)
        /\ \A x, y \in Nodes : \A q \in Fly(net', x, y) :
                 \/ q \in Fly(net, x, y) /\ q \in Fly(Dropped(net, s, n), x, y)
                 \/ x = n /\ y = t /\ q \in Elements(msgs)
    BY <1>1, <2>1, HandlerNet
  <2>. QED
    BY <2>1, <2>2 DEF h
<1>7. /\ \A x \in Nodes \ {n} : dst'[x] = dst[x]
      /\ \A i \in ChildSlots : dst'[n][i] = dst[n][i]
      /\ dst'[n][PARENT_ID] = t
  <2>1. dst \in [Nodes -> [0..PARENT_ID -> Addrs]] /\ PARENT_ID \in 0..PARENT_ID
        /\ ChildSlots \subseteq 0..PARENT_ID /\ PARENT_ID \notin ChildSlots
    BY <1>1 DEF TypeOK, PARENT_ID, ChildSlots
  <2>. QED
    BY <1>3, <2>1
<1>8. \A x \in Nodes : My(x)' = My(x) /\ (My(x).id)' = My(x).id
  BY <1>3 DEF My
<1>9. \A x \in Nodes : \A q : q.type = "ID" =>
          (q \in Fly(net', Origin, x) <=> q \in Fly(net, Origin, x))
  BY <1>1, <1>4, <1>6
<1>10. \A x \in Nodes : \A k : Named(x, k)' <=> Named(x, k)
  BY <1>8, <1>9, NamesSame
<1>11. Grows /\ NoNewNames
  <2>1. \A m, c \in Nodes : \A i \in ChildSlots : Serves(m, i, c) => Serves(m, i, c)'
    <3>1. \A m \in Nodes : \A i \in ChildSlots : dst'[m][i] = dst[m][i]
      BY <1>7
    <3>. QED
      BY <1>3, <3>1 DEF Serves
  <2>2. \A x \in Nodes : up'[x] # "dead"
    BY <1>3, TreeBase DEF TreeNode
  <2>. QED
    BY <1>3, <1>8, <1>10, <2>1, <2>2 DEF Grows, NoNewNames
<1>12. ASSUME NEW x \in Nodes, NEW y \in Nodes, NEW q \in Fly(net', x, y)
       PROVE  Says(x, y, q)'
  <2>1. CASE q \in Fly(net, x, y) /\ q \in Fly(Dropped(net, s, n), x, y)
    <3>1. Says(x, y, q) /\ q \in Packet /\ (q.type = "INITIAL_STATUS" => ~isSetup[x])
      BY <2>1, TreeBase DEF Fit
    <3>2. q.type = "ADVERTISE" => y # n
      BY <1>2, <2>1, <3>1 DEF Asking
    <3>3. q.type = "ADVERTISE" => dst'[y][PARENT_ID] = dst[y][PARENT_ID]
      BY <1>7, <3>2
    <3>. QED
      BY <1>10, <1>11, <3>1, <3>3, SaysStays
  <2>2. CASE x = n /\ y = t /\ q = p
    <3>1. t # Origin /\ (My(n).id)' = My(n).id
      BY <1>3, <1>8
    <3>. QED
      BY <1>2, <1>4, <1>5, <2>2, <3>1 DEF Says
  <2>. QED
    BY <1>6, <2>1, <2>2
<1>13. ASSUME NEW x \in Nodes
       PROVE  TreeNode(x)'
  BY <1>1, <1>3, <1>11, NodeStays
<1>14. ASSUME NEW x \in Peers
       PROVE  InOrder(x)'
  <2>1. x \in Nodes /\ (My(x).id)' = My(x).id
    BY <1>8, TreeBase
  <2>2. n # Origin
    BY <1>2, TreeBase
  <2>3. IF s = Origin /\ n = x THEN (My(x).id)' # 0 ELSE ((My(x).id)' = 0 <=> My(x).id = 0)
    BY <1>2, <2>1
  <2>. QED
    BY <1>1, <1>3, <1>4, <2>2, <2>3, OrderHandler
<1>15. ASSUME NEW x \in Peers
       PROVE  TreePeer(x)'
  <2>1. CASE x # n
    <3>1. My(x)' = My(x) /\ x \in Nodes /\ dst'[x][PARENT_ID] = dst[x][PARENT_ID]
      BY <1>7, <1>8, <2>1, TreeBase
    <3>2. ASSUME up'[x] = "up", isSetup[x], dst[x][PARENT_ID] = Origin
          PROVE  ~NoToken(net', Asking(x))
      <4>1. ~NoToken(net, Asking(x))
        BY <1>3, <3>2 DEF TreeInv, TreeParts, TreePeer
      <4>2. h \notin Asking(x)[s][n]
        BY <1>1, <2>1, <3>1 DEF Asking
      <4>. QED
        BY <1>1, <1>3, <1>4, <3>1, <4>1, <4>2, TokenHandler DEF h
    <3>. QED
      BY <1>3, <1>10, <1>11, <1>14, <3>1, <3>2, PeerStays
  <2>2. CASE x = n
    <3>1. InOrder(n)' /\ up'[n] = "up" /\ isSetup'[n] /\ My(n)' = My(n)
      BY <1>2, <1>3, <1>8, <1>14
    <3>2. dst'[n][PARENT_ID] # Origin /\ dst'[n][PARENT_ID] # n
      BY <1>3, <1>7
    <3>. QED
      BY <1>2, <2>2, <3>1, <3>2 DEF TreePeer
  <2>. QED
    BY <2>1, <2>2
<1>16. ASSUME NEW m \in Nodes, NEW i \in ChildSlots, Bit(connected[m], i)
       PROVE  Linked(m, i)'
  <2> DEFINE c == dst[m][i]
  <2>1. Linked(m, i) /\ c \in Nodes
    BY <1>16, TreeBase DEF TreeInv, TreeParts, Linked
  <2>2. c # n
    <3>1. SUFFICES ASSUME c = n
                   PROVE  FALSE
      OBVIOUS
    <3>2. PICK q \in Fly(net, m, n) : q.type = "INITIAL_STATUS"
      BY <1>2, <2>1, <3>1 DEF Linked
    <3>3. q \in Asking(n)[m][n]
      BY <1>2, <3>2, TreeBase DEF Asking
    <3>4. q = h
      BY <1>1, <1>2, <3>2, <3>3, SameToken, TreeBase
    <3>. QED
      BY <1>1, <3>2, <3>4
  <2>3. dst'[c][PARENT_ID] = dst[c][PARENT_ID]
    BY <1>7, <2>1, <2>2
  <2>4. \A q \in Fly(net, m, c) : q.type = "INITIAL_STATUS" => q \in Fly(net', m, c)
    BY <1>1, <1>6, <2>1
  <2>. QED
    BY <1>3, <1>11, <1>16, <2>3, <2>4, LinkStays
<1>17. IdsGiven'
  BY <1>11, NamesStay
<1>18. OriginReady'
  <2>1. My(Origin)' = My(Origin)
    BY <1>1, <1>8
  <2>. QED
    BY <1>3, <2>1 DEF TreeInv, TreeParts, OriginReady
<1>19. \A m \in Nodes : \A i \in ChildSlots : Bit(connected'[m], i) => Linked(m, i)'
  BY <1>3, <1>16
<1>20. ASSUME NEW m \in Nodes, Bit(connected'[m], 0), Bit(connected'[m], 1)
       PROVE  dst'[m][0] # dst'[m][1]
  <2>1. dst'[m][0] = dst[m][0] /\ dst'[m][1] = dst[m][1]
    BY <1>7, TreeBase
  <2>. QED
    BY <1>3, <1>20, <2>1 DEF TreeInv, TreeParts
<1>. QED
  BY <1>12, <1>13, <1>15, <1>17, <1>18, <1>19, <1>20 DEF TreeInv, TreeParts

-----------------------------------------------------------------------------
(* INITIAL_STATUS: a peer has joined.                                       *)

\* What the peer takes over from its new parent.
LEMMA JoinedStep ==
    ASSUME TreeInv, NEW s \in Nodes, NEW n \in Nodes, NodeInitialStatus(s, n)
    PROVE  /\ \E i \in ChildSlots : Serves(s, i, n) /\ My(n)' = status[s][i]
           /\ status'[n][PARENT_ID] = My(s)
           /\ \A x \in Nodes \ {n} : status'[x] = status[x] /\ My(x)' = My(x)
           /\ connected' = [connected EXCEPT ![n] = SetBit(0, PARENT_ID)]
           /\ isSetup' = [isSetup EXCEPT ![n] = FALSE]
           /\ Reply(s, n, To(NoAddr, <<>>))
           /\ \A x \in Nodes : \A e \in Elements(nodesList'[x]) :
                 e \in Elements(nodesList[x]) \/ (Truthful(e) /\ e.ip # x)
           /\ UNCHANGED <<up, nextId, dst, childNum, isRetry, cached>>
<1> DEFINE h == Head(net[s][n])
           body == h.body
<1>1. /\ h \in Fly(net, s, n) /\ h \in Packet /\ h.type = "INITIAL_STATUS" /\ Body(s, n) = body
      /\ net[s][n] # <<>> /\ Says(s, n, h) /\ Arrived(s, n, "INITIAL_STATUS")
  BY ReadSays DEF NodeInitialStatus
<1>2. connected[n] = 0
  BY <1>1, OneAnswer
<1>3. /\ Len(body) >= 2 /\ body[2] = My(s) /\ Tells(n, Tail(body)) /\ body \in Seq(Status)
      /\ \E i \in ChildSlots : Serves(s, i, n) /\ body[1] = status[s][i]
  BY <1>1 DEF Says, Packet
<1>4. RecordAt(body, 1) = {body[1]} /\ RecordAt(body, 2) = {body[2]}
  BY <1>3 DEF RecordAt
<1> DEFINE rest == SubSeq(body, 3, Len(body))
<1>5. /\ nodesList' = [nodesList EXCEPT ![n] = StoreNew(nodesList[n], rest)]
      /\ \E me \in RecordAt(body, 1), parent \in RecordAt(body, 2) :
            status' = [status EXCEPT ![n] = [status[n] EXCEPT ![MY_ID] = me,
                                                              ![PARENT_ID] = parent]]
      /\ connected' = [connected EXCEPT ![n] = SetBit(connected[n], PARENT_ID)]
      /\ isSetup' = [isSetup EXCEPT ![n] = FALSE]
      /\ Reply(s, n, To(NoAddr, <<>>))
      /\ UNCHANGED <<up, nextId, dst, childNum, isRetry, cached>>
  BY <1>1, SilenceTo DEF NodeInitialStatus, nodeVars
<1>6. rest \in Seq(Status) /\ Elements(rest) \subseteq Elements(Tail(body))
  BY <1>3, RestOf
<1> HIDE DEF rest, body, h
<1>7. /\ status'[n][MY_ID] = body[1] /\ status'[n][PARENT_ID] = body[2]
      /\ \A x \in Nodes \ {n} : status'[x] = status[x]
  <2>1. status' = [status EXCEPT ![n] = [status[n] EXCEPT ![MY_ID] = body[1],
                                                          ![PARENT_ID] = body[2]]]
    BY <1>4, <1>5
  <2>2. status \in [Nodes -> [Slots -> Status]] /\ MY_ID \in Slots /\ PARENT_ID \in Slots
        /\ MY_ID # PARENT_ID
    <3>1. TypeOK /\ MY_ID \in Slots /\ PARENT_ID \in Slots /\ MY_ID # PARENT_ID
      BY TreeBase
    <3>. QED
      BY <3>1 DEF TypeOK
  <2>. QED
    BY <2>1, <2>2
<1>8. \A x \in Nodes : \A e \in Elements(nodesList'[x]) :
                    e \in Elements(nodesList[x]) \/ (Truthful(e) /\ e.ip # x)
  <2>1. nodesList \in [Nodes -> Seq(Status) \ {<<>>}]
    BY TreeBase DEF TypeOK
  <2>2. nodesList'[n] = StoreNew(nodesList[n], rest)
        /\ \A x \in Nodes \ {n} : nodesList'[x] = nodesList[x]
    BY <1>5, <2>1
  <2>3. Elements(StoreNew(nodesList[n], rest)) \subseteq Elements(nodesList[n]) \cup Elements(rest)
    BY <1>6, <2>1, StoreElements
  <2>. QED
    BY <1>3, <1>6, <2>2, <2>3 DEF Tells
<1>9. My(n)' = body[1] /\ \A x \in Nodes \ {n} : My(x)' = My(x)
  BY <1>7 DEF My
<1>. QED
  BY <1>2, <1>3, <1>5, <1>7, <1>8, <1>9

LEMMA TreeJoined ==
    ASSUME Calm, TreeInv, OrphanInv', ListInv', NEW s \in Nodes, NEW n \in Nodes,
           NodeInitialStatus(s, n)
    PROVE  TreeInv'
<1> DEFINE h == Head(net[s][n])
           msgs == <<>>
<1>1. /\ h \in Fly(net, s, n) /\ h.type = "INITIAL_STATUS" /\ net[s][n] # <<>>
      /\ TypeOK /\ TypeOK' /\ Origin \in Nodes /\ Origin \notin Peers
  BY ReadSays, TreeBase DEF NodeInitialStatus, OrphanInv, LinkInv, TypeInv
<1>2. /\ n \in Peers /\ isSetup[n] /\ My(n).id # 0 /\ My(n).ip = n /\ s # n
      /\ dst[n][PARENT_ID] = s /\ connected[n] = 0 /\ up[n] = "up"
  BY <1>1, OneAnswer
<1>3. /\ status'[n][PARENT_ID] = My(s)
      /\ \A x \in Nodes \ {n} : status'[x] = status[x] /\ My(x)' = My(x)
      /\ connected' = [connected EXCEPT ![n] = SetBit(0, PARENT_ID)]
      /\ isSetup' = [isSetup EXCEPT ![n] = FALSE]
      /\ Reply(s, n, To(NoAddr, msgs))
      /\ \A x \in Nodes : \A e \in Elements(nodesList'[x]) :
                 e \in Elements(nodesList[x]) \/ (Truthful(e) /\ e.ip # x)
      /\ UNCHANGED <<up, nextId, dst, childNum, isRetry, cached>>
  BY JoinedStep
<1>4. PICK i \in ChildSlots : Serves(s, i, n) /\ My(n)' = status[s][i]
  BY JoinedStep
<1>5. msgs \in Seq(Packet) /\ Elements(msgs) = {}
  BY FewElements
<1> HIDE DEF h, msgs
<1>6. /\ \A x, y \in Nodes : \A q \in Fly(net, x, y) : q \in Fly(net', x, y) \/ (x = s /\ y = n /\ q = h)
      /\ \A x, y \in Nodes : Fly(net', x, y) \subseteq Fly(net, x, y)
  <2> DEFINE h0 == Head(net[s][n])
  <2>1. /\ \A x, y \in Nodes : \A q \in Fly(net, x, y) :
                 q \in Fly(net', x, y) \/ (x = s /\ y = n /\ q = h0)
        /\ \A x, y \in Nodes : \A q \in Fly(net', x, y) :
                 \/ q \in Fly(net, x, y) /\ q \in Fly(Dropped(net, s, n), x, y)
                 \/ x = n /\ y = NoAddr /\ q \in Elements(msgs)
    BY <1>1, <1>3, <1>5, HandlerNet
  <2>. QED
    BY <1>5, <2>1 DEF h
<1>7. /\ Bit(connected[s], i) /\ dst[s][i] = n /\ Linked(s, i) /\ ~isSetup[s] /\ i \in Slots
      /\ status[s][i].ip = n /\ Truthful(status[s][i])
  <2>1. Bit(connected[s], i) /\ dst[s][i] = n /\ Linked(s, i) /\ i \in Slots
    BY <1>4, TreeBase DEF Serves, TreeInv, TreeParts
  <2>. QED
    BY <2>1, JoinedServes DEF Linked
<1>8. (My(n).id)' = My(n).id /\ (My(n).ip)' = n
  <2>1. Named(n, status[s][i].id)
    BY <1>7 DEF Truthful
  <2>2. Named(n, My(n).id)
    BY <1>2, NumberedTruthful DEF Truthful
  <2>3. status[s][i].id = My(n).id
    BY <2>1, <2>2, OneName
  <2>. QED
    BY <1>4, <1>7, <2>3 DEF My
<1>9. \A x \in Nodes : (My(x).id)' = My(x).id
  <2>1. \A x \in Nodes \ {n} : (My(x).id)' = My(x).id
    BY <1>3 DEF My
  <2>. QED
    BY <1>8, <2>1
<1>10. \A x \in Nodes : \A k : Named(x, k)' <=> Named(x, k)
  <2>1. \A x \in Nodes : \A q : q.type = "ID" =>
          (q \in Fly(net', Origin, x) <=> q \in Fly(net, Origin, x))
    BY <1>1, <1>6
  <2>. QED
    BY <1>9, <2>1, NamesSame
<1>11. /\ \A x \in Nodes \ {n} : connected'[x] = connected[x] /\ isSetup'[x] = isSetup[x]
       /\ ~isSetup'[n]
       /\ \A j \in Slots : Bit(connected'[n], j) <=> j = PARENT_ID
       /\ Kids(connected'[n]) = Kids(connected[n])
  <2>1. /\ connected'[n] = SetBit(0, PARENT_ID) /\ ~isSetup'[n]
        /\ \A x \in Nodes \ {n} : connected'[x] = connected[x] /\ isSetup'[x] = isSetup[x]
    BY <1>1, <1>3 DEF TypeOK
  <2>2. \A j \in Slots : Bit(SetBit(0, PARENT_ID), j) <=> j = PARENT_ID
    <3>1. 0 \in 0..7 /\ PARENT_ID \in 0..2 /\ PARENT_ID \in Slots
      BY TreeBase
    <3>. QED
      BY <3>1, SmallBits, NoBits
  <2>3. Kids(SetBit(0, PARENT_ID)) = Kids(0)
    <3>1. 0 \in 0..255
      OBVIOUS
    <3>. QED
      BY ONLY <3>1, SetParentBit
  <2>. QED
    BY <1>2, <2>1, <2>2, <2>3
<1>12. Grows /\ NoNewNames
  <2>1. \A m, c \in Nodes : \A j \in ChildSlots : Serves(m, j, c) =>
           Serves(m, j, c)' /\ status'[m][j] = status[m][j]
    <3>1. \A j \in ChildSlots : ~Bit(connected[n], j)
      BY <1>2, NoBits, TreeBase
    <3>. QED
      BY <1>3, <1>11, <3>1 DEF Serves
  <2>2. \A x \in Nodes : up'[x] # "dead" /\ up'[x] = up[x]
    BY <1>3, TreeBase DEF TreeNode
  <2>3. \A x \in Nodes : ~isSetup[x] => ~isSetup'[x] /\ My(x)' = My(x)
    BY <1>2, <1>3, <1>11
  <2>. QED
    BY <1>3, <1>9, <1>10, <2>1, <2>2, <2>3 DEF Grows, NoNewNames
<1>13. ASSUME NEW x \in Nodes, NEW y \in Nodes, NEW q \in Fly(net', x, y)
       PROVE  Says(x, y, q)'
  <2>1. q \in Fly(net, x, y)
    BY <1>6
  <2>2. Says(x, y, q) /\ (q.type = "INITIAL_STATUS" => ~isSetup[x])
    BY <2>1, TreeBase DEF Fit
  <2>. QED
    BY <1>3, <1>10, <1>12, <2>2, SaysStays
<1>14. \A m \in Nodes : \A j \in ChildSlots : status[m][j].layer <= Cardinality(ServedPeers)
           /\ status[m][j].layer \in Int
       => status[m][j].layer <= Cardinality(ServedPeers')
  BY <1>12, ServedGrow
<1>15. ASSUME NEW x \in Nodes
       PROVE  TreeNode(x)'
  <2>1. CASE x # n
    BY <1>1, <1>3, <1>11, <1>12, <2>1, NodeStays
  <2>2. CASE x = n
    <3>1. TreeNode(n) /\ ~isRetry[n]
      BY TreeBase DEF TreeNode
    <3>2. up'[n] # "dead" /\ ~isRetry'[n] /\ childNum'[n] = Kids(connected'[n])
      BY <1>3, <1>11, <3>1 DEF TreeNode
    <3>3. HasParent(n)' <=> n \in Peers /\ ~isSetup'[n]
      BY <1>2, <1>11, TreeBase DEF HasParent
    <3>4. (My(n).layer)' <= Cardinality(ServedPeers')
      <4>1. status[s][i].layer <= Cardinality(ServedPeers)
        BY <1>7 DEF Linked
      <4>2. status[s][i].layer \in Int
        BY <1>7, TreeBase, NodeParts, StatusParts, SpaceAssumption
      <4>3. status[s][i].layer <= Cardinality(ServedPeers')
        BY <1>14, <4>1, <4>2
      <4>. QED
        BY <1>4, <4>3 DEF My
    <3>5. \A e \in Elements(nodesList'[n]) : Truthful(e)' /\ (e.ip = n => n = Origin)
      BY <1>3, <1>12, <3>1, TruthStays DEF TreeNode
    <3>. QED
      BY <2>2, <3>2, <3>3, <3>4, <3>5 DEF TreeNode
  <2>. QED
    BY <2>1, <2>2
<1>16. ASSUME NEW x \in Peers
       PROVE  InOrder(x)'
  <2>1. x \in Nodes /\ (My(x).id)' = My(x).id
    BY <1>9, TreeBase
  <2>2. n # Origin
    BY <1>1, <1>2
  <2>3. IF s = Origin /\ n = x THEN (My(x).id)' # 0 ELSE ((My(x).id)' = 0 <=> My(x).id = 0)
    BY <1>2, <2>1
  <2>. QED
    BY <1>1, <1>3, <1>5, <2>2, <2>3, OrderHandler
<1>17. ASSUME NEW x \in Peers
       PROVE  TreePeer(x)'
  <2>1. CASE x # n
    <3>1. My(x)' = My(x) /\ x \in Nodes /\ isSetup'[x] = isSetup[x]
      BY <1>3, <1>11, <2>1, TreeBase
    <3>2. ASSUME up'[x] = "up", isSetup[x], dst[x][PARENT_ID] = Origin
          PROVE  ~NoToken(net', Asking(x))
      <4>1. ~NoToken(net, Asking(x))
        BY <1>3, <3>2 DEF TreeInv, TreeParts, TreePeer
      <4>2. h \notin Asking(x)[s][n]
        BY <1>1, <2>1, <3>1 DEF Asking
      <4>. QED
        BY <1>1, <1>3, <1>5, <3>1, <4>1, <4>2, TokenHandler DEF h
    <3>. QED
      BY <1>3, <1>10, <1>12, <1>16, <3>1, <3>2, PeerStays
  <2>2. CASE x = n
    <3>1. InOrder(n)' /\ up'[n] = "up" /\ ~isSetup'[n] /\ (My(n).id)' # 0 /\ (My(n).ip)' = n
      BY <1>2, <1>3, <1>8, <1>11, <1>16
    <3>2. dst'[n][PARENT_ID] = s
      BY <1>2, <1>3
    <3>3. Serves(s, i, n)'
      BY <1>2, <1>4, <1>12 DEF Grows
    <3>4. \E j \in ChildSlots : Serves(dst[n][PARENT_ID], j, n)'
      BY <3>2, <3>3 DEF Serves
    <3>. QED
      BY <1>2, <1>3, <2>2, <3>1, <3>2, <3>4 DEF TreePeer
  <2>. QED
    BY <2>1, <2>2
<1>18. ASSUME NEW m \in Nodes, NEW j \in ChildSlots, Bit(connected'[m], j)
       PROVE  Linked(m, j)'
  <2> DEFINE c == dst[m][j]
  <2>1. m # n /\ Bit(connected[m], j)
    BY <1>11, <1>18, TreeBase
  <2>2. Linked(m, j) /\ c \in Peers /\ c \in Nodes /\ dst[c][PARENT_ID] = m
    BY <2>1, TreeBase DEF TreeInv, TreeParts, Linked
  <2>3. CASE c # n
    <3>1. isSetup'[c] = isSetup[c] /\ dst'[c][PARENT_ID] = dst[c][PARENT_ID]
          /\ status'[c][PARENT_ID] = status[c][PARENT_ID]
      BY <1>3, <1>11, <2>2, <2>3
    <3>2. \A q \in Fly(net, m, c) : q.type = "INITIAL_STATUS" => q \in Fly(net', m, c)
      BY <1>6, <2>2, <2>3
    <3>. QED
      BY <1>12, <2>1, <3>1, <3>2, LinkStays
  <2>4. CASE c = n
    <3>1. m = s
      BY <1>2, <2>2, <2>4
    <3>2. j = i
      BY <1>7, <2>1, <2>4, <3>1, OtherChildren
    <3>3. /\ dst'[s][i] = n /\ dst'[n][PARENT_ID] = s /\ status'[s][i] = status[s][i]
          /\ My(s)' = My(s) /\ Truthful(status[s][i])'
      <4>1. Truthful(status[s][i])
        BY <1>7
      <4>2. status'[s][i] = status[s][i] /\ My(s)' = My(s)
        BY <1>2, <1>3
      <4>3. Truthful(status[s][i])'
        BY <1>10, <4>1, <4>2 DEF Truthful
      <4>. QED
        BY <1>2, <1>3, <1>7, <4>2, <4>3
    <3>4. status[s][i].layer <= Cardinality(ServedPeers')
      <4>1. status[s][i].layer <= Cardinality(ServedPeers)
        BY <1>7 DEF Linked
      <4>2. status[s][i].layer \in Int
        BY <1>7, TreeBase, NodeParts, StatusParts, SpaceAssumption
      <4>. QED
        BY <1>14, <4>1, <4>2
    <3>5. status[s][i].layer = My(s).layer + 1 /\ status[s][i].ip = n
      BY <1>7 DEF Linked
    <3>6. status'[s][i] = My(n)' /\ status'[n][PARENT_ID] = My(s)'
      BY <1>3, <1>4, <3>3
    <3>. QED
      BY <1>2, <1>11, <3>1, <3>2, <3>3, <3>4, <3>5, <3>6 DEF Linked
  <2>. QED
    BY <2>3, <2>4
<1>19. IdsGiven'
  BY <1>12, NamesStay
<1>20. OriginReady'
  <2>1. My(Origin)' = My(Origin) /\ isSetup'[Origin] = isSetup[Origin]
    BY <1>1, <1>2, <1>3, <1>11
  <2>. QED
    BY <1>3, <2>1 DEF TreeInv, TreeParts, OriginReady
<1>21. ASSUME NEW m \in Nodes, Bit(connected'[m], 0), Bit(connected'[m], 1)
       PROVE  dst'[m][0] # dst'[m][1]
  <2>1. m # n /\ connected'[m] = connected[m]
    BY <1>11, <1>21, TreeBase
  <2>. QED
    BY <1>3, <1>21, <2>1 DEF TreeInv, TreeParts
<1>. QED
  BY <1>13, <1>15, <1>17, <1>18, <1>19, <1>20, <1>21 DEF TreeInv, TreeParts

-----------------------------------------------------------------------------
(* A new id.                                                                *)

IdPacket(s, k) == Msg("ID", <<[OnlyId(k) EXCEPT !.ip = s]>>)

\* msgs is the ID, then q.
IdThen(s, q, msgs) == msgs = SendID(s, Origin) \o <<q>>

LEMMA IdPacketIs ==
    ASSUME NEW s, NEW k
    PROVE  IdPacket(s, k).type = "ID" /\ IdPacket(s, k).body[1].id = k
<1> DEFINE st == [OnlyId(k) EXCEPT !.ip = s]
<1>1. st.id = k
  BY DEF OnlyId, ZeroStatus
<1> HIDE DEF st
<1>2. IdPacket(s, k) = Msg("ID", <<st>>)
  BY DEF IdPacket, st
<1>. QED
  BY <1>1, <1>2 DEF Msg

LEMMA TwoPackets ==
    ASSUME NEW p, NEW q, <<p>> \in Seq(Packet), <<q>> \in Seq(Packet)
    PROVE  <<p>> \o <<q>> = <<p, q>> /\ <<p, q>> \in Seq(Packet)
<1>1. p \in Packet /\ q \in Packet
  <2>1. 1 \in 1..Len(<<p>>) /\ 1 \in 1..Len(<<q>>) /\ <<p>>[1] = p /\ <<q>>[1] = q
    OBVIOUS
  <2>. QED
    BY <2>1, ElementOfSeq
<1>2. <<p, q>> \in Seq(Packet)
  BY <1>1
<1> DEFINE a == <<p>>
           b == <<q>>
           c == <<p, q>>
<1>3. Len(a) = 1 /\ Len(b) = 1 /\ Len(c) = 2 /\ a[1] = p /\ b[1] = q /\ c[1] = p /\ c[2] = q
  OBVIOUS
<1>4. a \in Seq(Packet) /\ b \in Seq(Packet) /\ c \in Seq(Packet)
  BY <1>2
<1> HIDE DEF a, b, c
<1>5. /\ a \o b \in Seq(Packet) /\ Len(a \o b) = Len(a) + Len(b)
      /\ \A i \in 1..Len(a) + Len(b) : (a \o b)[i] = IF i <= Len(a) THEN a[i] ELSE b[i - Len(a)]
  BY <1>4, ConcatProperties
<1>6. Len(a \o b) = 2 /\ (a \o b)[1] = p /\ (a \o b)[2] = q
  BY <1>3, <1>5
<1>7. ASSUME NEW i \in 1..2
      PROVE  (a \o b)[i] = c[i]
  <2>1. i = 1 \/ i = 2
    OBVIOUS
  <2>. QED
    BY <1>3, <1>6, <2>1
<1> DEFINE d == a \o b
<1>8. d \in Seq(Packet) /\ Len(d) = Len(c) /\ \A i \in 1..Len(d) : d[i] = c[i]
  BY <1>3, <1>5, <1>6, <1>7
<1> HIDE DEF d
<1>9. d = c
  BY <1>4, <1>8, SeqEqual
<1>. QED
  BY <1>2, <1>9 DEF a, b, c, d

\* The origin's queue to a peer it has just numbered.
LEMMA NumberedQueue ==
    ASSUME Calm, TreeInv, NEW s \in Nodes, Arrived(s, Origin, "SETUP"),
           NEW q, q.type # "ID", <<q>> \in Seq(Packet),
           NEW msgs, IdThen(s, q, msgs), Reply(s, Origin, To(s, msgs))
    PROVE  /\ msgs \in Seq(Packet) /\ net'[Origin][s] = msgs
           /\ Elements(msgs) = {IdPacket(s, nextId + 1), q}
           /\ IdFirst(msgs, My(s).id = 0)
<1>1. /\ s \in Peers /\ My(s).id = 0 /\ net[Origin][s] = <<>> /\ nextId \in Nat
      /\ SendID(s, Origin) = <<IdPacket(s, nextId + 1)>>
  BY FirstRequest DEF IdPacket
<1>2. SendID(s, Origin) \in Seq(Packet) /\ Origin \in Nodes
  BY SendIDType, TreeBase
<1> DEFINE p == IdPacket(s, nextId + 1)
<1>3. p.type = "ID"
  BY IdPacketIs
<1> HIDE DEF p
<1>4. msgs = <<p, q>> /\ msgs \in Seq(Packet)
  <2>1. msgs = <<p>> \o <<q>> /\ <<p>> \in Seq(Packet)
    BY <1>1, <1>2 DEF p, IdThen
  <2>2. <<p>> \o <<q>> = <<p, q>> /\ <<p, q>> \in Seq(Packet)
    BY <2>1, TwoPackets
  <2>. QED
    BY <2>1, <2>2
<1>5. Elements(msgs) = {p, q}
  <2>1. Elements(msgs) = {msgs[i] : i \in 1..2}
    BY <1>4 DEF Elements
  <2>2. msgs[1] = p /\ msgs[2] = q /\ 1..2 = {1, 2}
    BY <1>4
  <2>. QED
    BY <2>1, <2>2
<1>6. IdFirst(msgs, My(s).id = 0)
  <2>1. (My(s).id = 0) = TRUE
    BY <1>1
  <2>2. IdFirst(<<p, q>>, TRUE)
    BY <1>3, OrderFirst
  <2>. QED
    BY <1>4, <2>1, <2>2
<1>7. net'[Origin][s] = msgs
  <2>1. net'[Origin][s] = QueueThen(s, Origin, s, msgs, Origin, s)
    BY <1>2, QueueAfter
  <2>2. up[s] = "up" /\ s # Origin
    <3>1. PICK h \in Fly(net, s, Origin) : h.type = "SETUP"
      BY <1>2, ReadSays
    <3>. QED
      BY <1>1, <1>2, <3>1, AskingUnserved, TreeBase
  <2>3. Rest(s, Origin, Origin, s) = <<>> /\ Added(Origin, s, msgs, Origin, s) = msgs
    BY <1>1, <2>2 DEF Rest, Added
  <2>4. <<>> \o msgs = msgs
    BY <1>4
  <2>. QED
    BY <2>1, <2>3, <2>4 DEF QueueThen
<1>. QED
  BY <1>4, <1>5, <1>6, <1>7 DEF p

\* Its first request gives a peer the next id, which nobody has.
LEMMA Numbering ==
    ASSUME Calm, TreeInv, NEW s \in Nodes, Arrived(s, Origin, "SETUP"),
           NEW q, q.type # "ID", <<q>> \in Seq(Packet),
           NEW msgs, IdThen(s, q, msgs), Reply(s, Origin, To(s, msgs)),
           \A x \in Nodes : (My(x).id)' = My(x).id, nextId' = nextId + 1
    PROVE  /\ \A x \in Nodes \ {s} : \A k : Named(x, k)' <=> Named(x, k)
           /\ \A k : Named(s, k)' <=> k = nextId + 1
           /\ \A k : ~Named(s, k)
           /\ IdsGiven'
<1>1. /\ s \in Peers /\ My(s).id = 0 /\ nextId \in Nat /\ nextId + 1 \in Ids
      /\ \A k : ~Named(s, k)
  BY FirstRequest
<1>2. Origin \in Nodes /\ s # Origin /\ TypeOK
  BY <1>1, TreeBase
<1> DEFINE p == IdPacket(s, nextId + 1)
<1>3. p.type = "ID" /\ p.body[1].id = nextId + 1
  BY IdPacketIs
<1>4. msgs \in Seq(Packet) /\ net'[Origin][s] = msgs /\ Elements(msgs) = {p, q}
  BY NumberedQueue
<1> HIDE DEF p
<1>5. \A x \in Nodes \ {s, Origin} : \A r :
         r \in Fly(net', Origin, x) <=> r \in Fly(net, Origin, x)
  <2>1. net[s][Origin] # <<>>
    BY <1>2, ReadSays
  <2> DEFINE h == Head(net[s][Origin])
  <2>0. msgs \in Seq(Packet) /\ Reply(s, Origin, To(s, msgs))
    BY <1>4
  <2>2. /\ \A x, y \in Nodes : \A r \in Fly(net, x, y) :
                 r \in Fly(net', x, y) \/ (x = s /\ y = Origin /\ r = h)
        /\ \A x, y \in Nodes : \A r \in Fly(net', x, y) :
                 \/ r \in Fly(net, x, y) /\ r \in Fly(Dropped(net, s, Origin), x, y)
                 \/ x = Origin /\ y = s /\ r \in Elements(msgs)
    BY <1>2, <2>0, <2>1, HandlerNet
  <2>. QED
    BY <1>2, <2>2
<1>6. \A x \in Nodes \ {s} : \A k : Named(x, k)' <=> Named(x, k)
  BY <1>5 DEF Named
<1>7. \A k : Named(s, k)' <=> k = nextId + 1
  <2>1. Fly(net', Origin, s) = {p, q}
    BY <1>4 DEF Fly
  <2>2. (My(s).id)' = 0 /\ nextId + 1 # 0
    BY <1>1
  <2>. QED
    BY <1>2, <1>3, <2>1, <2>2 DEF Named
<1>8. NamedPeers' = NamedPeers \cup {s} /\ s \notin NamedPeers
  <2>1. \A x \in Peers : x \in Nodes
    BY TreeBase
  <2>. QED
    BY <1>1, <1>6, <1>7, <2>1 DEF NamedPeers
<1>9. nextId + 1 <= Cardinality(NamedPeers')
  <2>1. IsFiniteSet(NamedPeers) /\ Cardinality(NamedPeers) \in Nat
    BY Counts
  <2>2. Cardinality(NamedPeers \cup {s}) = Cardinality(NamedPeers) + 1
    BY <1>8, <2>1, FS_AddElement
  <2>3. nextId <= Cardinality(NamedPeers)
    BY DEF TreeInv, TreeParts, IdsGiven
  <2>. QED
    BY <1>1, <1>8, <2>1, <2>2, <2>3
<1>10. \A x \in Nodes : \A k : Named(x, k) => k \in Ids /\ k <= nextId
  BY OneName
<1>11. IdsGiven'
  <2>1. ASSUME NEW m \in Nodes, NEW n \in Nodes, NEW k \in Ids, Named(m, k)', Named(n, k)'
        PROVE  m = n
    <3>1. CASE m # s /\ n # s
      BY <1>6, <2>1, <3>1, OneName
    <3>2. CASE m = s \/ n = s
      <4>1. k = nextId + 1
        BY <1>7, <2>1, <3>2
      <4>2. ~(nextId + 1 <= nextId)
        BY <1>1
      <4>. QED
        BY <1>6, <1>10, <2>1, <4>1, <4>2
    <3>. QED
      BY <3>1, <3>2
  <2>2. ASSUME NEW n \in Nodes, NEW k \in Ids, NEW l \in Ids, Named(n, k)', Named(n, l)'
        PROVE  k = l
    <3>1. CASE n = s
      BY <1>7, <2>2, <3>1
    <3>2. CASE n # s
      BY <1>6, <2>2, <3>2, OneName
    <3>. QED
      BY <3>1, <3>2
  <2>3. ASSUME NEW n \in Nodes, NEW k \in Ids, Named(n, k)'
        PROVE  k <= nextId'
    <3>1. k <= nextId \/ k = nextId + 1
      BY <1>6, <1>7, <1>10, <2>3
    <3>2. k \in Nat
      BY SpaceAssumption DEF Ids
    <3>. QED
      BY <1>1, <3>1, <3>2
  <2>. QED
    BY <1>9, <2>1, <2>2, <2>3 DEF IdsGiven
<1>. QED
  BY <1>1, <1>6, <1>7, <1>11

\* The request that is read was the only one of its sender.
LEMMA OneRequest ==
    ASSUME TreeInv, NEW s \in Nodes, NEW n \in Nodes, Arrived(s, n, "SETUP")
    PROVE  \A y \in Nodes : \A p \in Fly(Dropped(net, s, n), s, y) :
              p \in Fly(net, s, y) => p.type # "SETUP"
<1> DEFINE h == Head(net[s][n])
<1>1. h \in Fly(net, s, n) /\ h.type = "SETUP" /\ net[s][n] # <<>>
  BY ReadSays
<1>2. h \in Asking(s)[s][n] /\ net \in Nets
  BY <1>1, TreeBase DEF Asking
<1>3. NoToken(Dropped(net, s, n), Asking(s))
  BY <1>1, <1>2, TreeBase, TokenDropped
<1>4. \A x, y \in Nodes : \A p \in Fly(Dropped(net, s, n), x, y) : p \notin Asking(s)[x][y]
  BY <1>3, SomeToken
<1>. QED
  BY <1>4, TreeBase DEF Asking

\* NodeSetup of the origin that redirects.
LEMMA OriginRedirectStep ==
    ASSUME TreeInv, Calm, NEW s \in Nodes,
           NodeSetupDrawn(s, Origin) \/ NodeSetupUncached(s, Origin) \/ NodeSetupFull(s, Origin)
    PROVE  \E q, msgs :
              /\ IdThen(s, q, msgs) /\ Reply(s, Origin, To(s, msgs)) /\ Arrived(s, Origin, "SETUP")
              /\ <<q>> \in Seq(Packet) /\ q \in Packet /\ q.type = "ADVERTISE" /\ Says(Origin, s, q)
              /\ nextId' = nextId + 1
              /\ UNCHANGED <<status, dst, connected, childNum, isSetup, isRetry, cached, nodesList>>
              /\ \A x \in Nodes : up'[x] = up[x]
<1>1. Origin \in Nodes
  BY TreeBase
<1>2. PICK i \in Slots : DrawnAt(Origin, i) /\ Redirect(s, Origin, i) /\ Arrived(s, Origin, "SETUP")
  BY <1>1, RedirectDrawn
<1> DEFINE p == SendAdvertise(Origin, i, status[Origin][i])
           msgs == SendID(s, Origin) \o <<p>>
<1>3. \E h \in Fly(net, s, Origin) : h.type = "SETUP"
  BY <1>1, <1>2, ReadSays
<1>4. /\ AdvertiseNum(Origin) >= 0 /\ p \in Packet /\ <<p>> \in Seq(Packet)
      /\ p.type = "ADVERTISE" /\ Says(Origin, s, p)
  BY <1>1, <1>2, <1>3, AdvertiseSays
<1>5. CurrentId(s, Origin) = nextId + 1
  BY <1>2, FirstRequest
<1>6. AdvertiseNum(Origin) \in Int
  BY <1>1, TreeBase, NodeParts DEF AdvertiseNum
<1> HIDE DEF p
<1>7. Reply(s, Origin, To(s, msgs))
  <2>1. SlotRecord(Origin, i) = {status[Origin][i]}
    BY DEF SlotRecord
  <2>2. Reply(s, Origin, To(s, SendID(s, Origin) \o
            IF AdvertiseNum(Origin) < 0 THEN <<>> ELSE <<p>>))
    BY <1>2, <2>1 DEF Redirect, p
  <2>3. (IF AdvertiseNum(Origin) < 0 THEN <<>> ELSE <<p>>) = <<p>>
    BY <1>4, <1>6
  <2>. QED
    BY <2>2, <2>3
<1>8. UNCHANGED <<status, dst, connected, childNum, isSetup, isRetry, cached, nodesList>>
      /\ nextId' = nextId + 1
  BY <1>2, <1>5 DEF Redirect, slotVars, linkVars, flagVars, listVars
<1>9. \A x \in Nodes : up'[x] = up[x]
  <2>1. Survives(Origin, AdvertiseNum(Origin))
    BY <1>2 DEF Redirect
  <2>. QED
    BY <1>4, <1>6, <2>1, TreeBase DEF Survives, TypeOK
<1>10. IdThen(s, p, msgs)
  BY DEF IdThen
<1>. QED
  BY <1>2, <1>4, <1>7, <1>8, <1>9, <1>10

LEMMA TreeOriginRedirect ==
    ASSUME Calm, TreeInv, OrphanInv', ListInv', NEW s \in Nodes,
           NodeSetupDrawn(s, Origin) \/ NodeSetupUncached(s, Origin) \/ NodeSetupFull(s, Origin)
    PROVE  TreeInv'
<1>1. PICK q, msgs :
         /\ IdThen(s, q, msgs) /\ Reply(s, Origin, To(s, msgs)) /\ Arrived(s, Origin, "SETUP")
         /\ <<q>> \in Seq(Packet) /\ q \in Packet /\ q.type = "ADVERTISE" /\ Says(Origin, s, q)
         /\ nextId' = nextId + 1
         /\ UNCHANGED <<status, dst, connected, childNum, isSetup, isRetry, cached, nodesList>>
         /\ \A x \in Nodes : up'[x] = up[x]
  BY OriginRedirectStep
<1> DEFINE h == Head(net[s][Origin])
           idp == IdPacket(s, nextId + 1)
<1>2. h \in Fly(net, s, Origin) /\ h.type = "SETUP" /\ net[s][Origin] # <<>> /\ Origin \in Nodes
      /\ TypeOK /\ TypeOK'
  BY <1>1, TreeBase, ReadSays DEF OrphanInv, LinkInv, TypeInv
<1>3. /\ s \in Peers /\ s # Origin /\ up[s] = "up" /\ My(s).id = 0 /\ nextId \in Nat
      /\ net[Origin][s] = <<>>
  BY <1>1, <1>2, FirstRequest, AskingUnserved
<1>4. idp.type = "ID" /\ idp.body[1].id = nextId + 1 /\ nextId + 1 # 0
  BY <1>3, IdPacketIs
<1> HIDE DEF idp, h
<1>5. /\ msgs \in Seq(Packet) /\ Elements(msgs) = {idp, q}
      /\ IdFirst(msgs, My(s).id = 0)
  BY <1>1, NumberedQueue DEF idp
<1>6. \A x \in Nodes : My(x)' = My(x) /\ (My(x).id)' = My(x).id
  BY <1>1 DEF My
<1>7. /\ \A x \in Nodes \ {s} : \A k : Named(x, k)' <=> Named(x, k)
      /\ \A k : ~Named(s, k)
      /\ IdsGiven'
  BY <1>1, <1>6, Numbering
<1>8. /\ \A x, y \in Nodes : \A p \in Fly(net, x, y) : p \in Fly(net', x, y) \/ (x = s /\ y = Origin /\ p = h)
      /\ \A x, y \in Nodes : \A p \in Fly(net', x, y) :
            \/ p \in Fly(net, x, y) /\ p \in Fly(Dropped(net, s, Origin), x, y)
            \/ x = Origin /\ y = s /\ p \in Elements(msgs)
  <2> DEFINE h0 == Head(net[s][Origin])
  <2>1. /\ \A x, y \in Nodes : \A p \in Fly(net, x, y) :
                p \in Fly(net', x, y) \/ (x = s /\ y = Origin /\ p = h0)
        /\ \A x, y \in Nodes : \A p \in Fly(net', x, y) :
            \/ p \in Fly(net, x, y) /\ p \in Fly(Dropped(net, s, Origin), x, y)
            \/ x = Origin /\ y = s /\ p \in Elements(msgs)
    BY <1>1, <1>2, <1>5, HandlerNet
  <2>. QED
    BY <2>1 DEF h
<1>9. Grows
  <2>1. \A m, c \in Nodes : \A i \in ChildSlots : Serves(m, i, c) =>
           Serves(m, i, c)' /\ status'[m][i] = status[m][i]
    BY <1>1 DEF Serves
  <2>2. \A x \in Nodes : up'[x] # "dead" /\ up'[x] = up[x]
    BY <1>1, TreeBase DEF TreeNode
  <2>. QED
    BY <1>1, <1>6, <1>7, <2>1, <2>2 DEF Grows
<1>10. Says(Origin, s, q)'
  BY <1>1, <1>2, <1>9, SaysStays
<1>11. ASSUME NEW x \in Nodes, NEW y \in Nodes, NEW p \in Fly(net', x, y)
       PROVE  Says(x, y, p)'
  <2>1. CASE p \in Fly(net, x, y) /\ p \in Fly(Dropped(net, s, Origin), x, y)
    <3>1. Says(x, y, p) /\ (p.type = "INITIAL_STATUS" => ~isSetup[x])
      BY <2>1, TreeBase DEF Fit
    <3>2. p.type = "SETUP" => x # s
      BY <1>1, <1>2, <2>1, OneRequest
    <3>3. p.type = "SETUP" /\ y = Origin => \A k : Named(x, k)' => Named(x, k)
      BY <1>7, <3>2
    <3>4. p.type = "ADVERTISE" => dst'[y][PARENT_ID] = dst[y][PARENT_ID]
      BY <1>1
    <3>. QED
      BY <1>9, <3>1, <3>3, <3>4, SaysStays
  <2>2. CASE x = Origin /\ y = s /\ p \in Elements(msgs)
    <3>1. p = idp => Says(x, y, p)'
      BY <1>3, <1>4, <2>2 DEF Says
    <3>. QED
      BY <1>5, <1>10, <2>2, <3>1
  <2>. QED
    BY <1>8, <2>1, <2>2
<1>12. ASSUME NEW x \in Nodes
       PROVE  TreeNode(x)'
  BY <1>1, <1>2, <1>9, NodeStays
<1>13. ASSUME NEW x \in Peers
       PROVE  InOrder(x)'
  <2>1. x \in Nodes /\ (My(x).id)' = My(x).id /\ x # Origin
    BY <1>6, TreeBase
  <2>2. IF s = Origin /\ Origin = x THEN (My(x).id)' # 0 ELSE ((My(x).id)' = 0 <=> My(x).id = 0)
    BY <2>1
  <2>3. x = s => net[Origin][x] = <<>> /\ IdFirst(msgs, My(x).id = 0)
    BY <1>3, <1>5
  <2>. QED
    BY <1>1, <1>2, <1>5, <2>2, <2>3, OrderHandler
<1>14. ASSUME NEW x \in Peers, up[x] = "up", isSetup[x], dst[x][PARENT_ID] = Origin
       PROVE  ~NoToken(net', Asking(x))
  <2>1. ~NoToken(net, Asking(x)) /\ x \in Nodes
    BY <1>14, TreeBase DEF TreeInv, TreeParts, TreePeer
  <2>2. CASE x = s
    <3>1. q \in Elements(msgs) /\ q \in Asking(x)[Origin][s] /\ s \in Nodes /\ up[s] = "up"
      BY <1>1, <1>2, <1>3, <1>5, <2>2 DEF Asking
    <3>. QED
      BY <1>1, <1>2, <1>5, <2>1, <3>1, TokenHandler
  <2>3. CASE x # s
    <3>1. h \notin Asking(x)[s][Origin]
      BY <1>2, <1>3, <2>1, <2>3 DEF Asking
    <3>. QED
      BY <1>1, <1>2, <1>5, <2>1, <3>1, TokenHandler DEF h
  <2>. QED
    BY <2>2, <2>3
<1>15. ASSUME NEW x \in Peers
       PROVE  TreePeer(x)'
  <2>1. x \in Nodes /\ My(x)' = My(x) /\ up'[x] = up[x]
    BY <1>1, <1>6, TreeBase
  <2>2. up'[x] = "off" => \A k : Named(x, k)' => Named(x, k)
    BY <1>3, <1>7, <2>1
  <2>. QED
    BY <1>1, <1>9, <1>13, <1>14, <2>1, <2>2, PeerStays
<1>16. ASSUME NEW m \in Nodes, NEW i \in ChildSlots, Bit(connected[m], i)
       PROVE  Linked(m, i)'
  <2> DEFINE c == dst[m][i]
  <2>1. c \in Nodes
    BY <1>16, TreeBase DEF TreeInv, TreeParts, Linked
  <2>2. \A p \in Fly(net, m, c) : p.type = "INITIAL_STATUS" => p \in Fly(net', m, c)
    BY <1>2, <1>8, <2>1
  <2>. QED
    BY <1>1, <1>9, <1>16, <2>2, LinkStays
<1>17. OriginReady'
  BY <1>1, <1>2, <1>6 DEF TreeInv, TreeParts, OriginReady
<1>18. \A m \in Nodes : \A i \in ChildSlots : Bit(connected'[m], i) => Linked(m, i)'
  BY <1>1, <1>16
<1>19. \A m \in Nodes : Bit(connected'[m], 0) /\ Bit(connected'[m], 1) => dst'[m][0] # dst'[m][1]
  BY <1>1 DEF TreeInv, TreeParts
<1>. QED
  BY <1>7, <1>11, <1>12, <1>15, <1>17, <1>18, <1>19 DEF TreeInv, TreeParts

-----------------------------------------------------------------------------
(* NodeSetup takes a child.                                                 *)

\* The answer p, behind a new id when the origin gives one.
AnswerWith(s, n, p, msgs) ==
    /\ n = Origin => IdThen(s, p, msgs)
    /\ n # Origin => msgs = <<p>>

LEMMA JoinStep ==
    ASSUME Calm, TreeInv, NEW s \in Nodes, NEW n \in Nodes, NodeSetupJoin(s, n)
    PROVE  \E i \in ChildSlots : \E child \in NewChild(s, n) : \E p, msgs :
              /\ Arrived(s, n, "SETUP") /\ ~isSetup[n] /\ ~Bit(connected[n], i)
              /\ AddChild(n, i, child, s)
              /\ AnswerWith(s, n, p, msgs) /\ Reply(s, n, To(s, msgs))
              /\ <<p>> \in Seq(Packet) /\ p.type = "INITIAL_STATUS" /\ Len(p.body) >= 2
              /\ p.body[1] = child /\ p.body[2] = My(n) /\ Tells(s, Tail(p.body))
              /\ nextId' = CurrentId(s, n)
              /\ UNCHANGED <<isSetup, isRetry, nodesList, cached>>
              /\ \A x \in Nodes : up'[x] = up[x]
<1> DEFINE i == CheckChildNum(n)
<1>1. /\ Arrived(s, n, "SETUP") /\ Ready(n) /\ i # -1 /\ nextId' = CurrentId(s, n)
      /\ UNCHANGED <<isSetup, isRetry, nodesList, cached>>
  BY DEF NodeSetupJoin, flagVars, listVars
<1>2. i \in ChildSlots /\ ~Bit(connected[n], i)
  BY <1>1, FreeSlot
<1>3. ~isSetup[n]
  BY <1>1, TreeBase DEF Ready, LinkNode
<1>4. PICK child \in NewChild(s, n) :
         /\ AddChild(n, i, child, s)
         /\ Survives(n, InitialStatusNum(n))
         /\ Reply(s, n, To(s, SendID(s, n) \o
               IF InitialStatusNum(n) < 0 THEN <<>> ELSE <<SendInitialStatus(n, i, child)>>))
  BY DEF NodeSetupJoin
<1> HIDE DEF i
<1> DEFINE p == SendInitialStatus(n, i, child)
           msgs == SendID(s, n) \o <<p>>
<1>5. child \in Status
  BY <1>1, <1>3, NewChildIs
<1>6. /\ InitialStatusNum(n) >= 0 /\ <<p>> \in Seq(Packet) /\ p.type = "INITIAL_STATUS"
      /\ Len(p.body) >= 2 /\ p.body[1] = child /\ p.body[2] = My(n) /\ Tells(s, Tail(p.body))
  <2>1. \E h \in Fly(net, s, n) : h.type = "SETUP"
    BY <1>1, ReadSays
  <2>. QED
    BY <1>2, <1>3, <1>5, <2>1, InitialStatusSays
<1>7. InitialStatusNum(n) \in Int
  BY TreeBase, NodeParts DEF InitialStatusNum
<1> HIDE DEF p
<1>8. Reply(s, n, To(s, msgs))
  <2>1. (IF InitialStatusNum(n) < 0 THEN <<>> ELSE <<p>>) = <<p>>
    BY <1>6, <1>7
  <2>2. Reply(s, n, To(s, SendID(s, n) \o IF InitialStatusNum(n) < 0 THEN <<>> ELSE <<p>>))
    BY <1>4 DEF p
  <2>. QED
    BY <2>1, <2>2
<1>9. AnswerWith(s, n, p, msgs)
  <2>1. CASE n = Origin
    BY <2>1 DEF AnswerWith, IdThen
  <2>2. CASE n # Origin
    <3>1. SendID(s, n) = <<>>
      BY <2>2 DEF SendID, Numbers
    <3>2. <<>> \o <<p>> = <<p>>
      BY <1>6
    <3>. QED
      BY <2>2, <3>1, <3>2 DEF AnswerWith
  <2>. QED
    BY <2>1, <2>2
<1>10. \A x \in Nodes : up'[x] = up[x]
  <2>1. TypeOK
    BY TreeBase
  <2>. QED
    BY <1>4, <1>6, <1>7, <2>1 DEF Survives, TypeOK
<1> HIDE DEF msgs
<1>. QED
  BY <1>1, <1>2, <1>3, <1>4, <1>6, <1>8, <1>9, <1>10

\* The names after it: a peer keeps the id it asks with, the origin gives one.
LEMMA TakenNames ==
    ASSUME Calm, TreeInv, NEW s \in Nodes, NEW n \in Nodes, Arrived(s, n, "SETUP"),
           ~isSetup[n], NEW child \in NewChild(s, n),
           NEW p, p.type = "INITIAL_STATUS", <<p>> \in Seq(Packet),
           NEW msgs, AnswerWith(s, n, p, msgs), Reply(s, n, To(s, msgs)),
           \A x \in Nodes : (My(x).id)' = My(x).id, nextId' = CurrentId(s, n)
    PROVE  /\ \A x \in Nodes : \A k : Named(x, k) => Named(x, k)'
           /\ \A x \in Nodes \ {s} : \A k : Named(x, k)' => Named(x, k)
           /\ n # Origin => \A k : Named(s, k)' => Named(s, k)
           /\ Named(s, child.id)'
           /\ IdsGiven'
           /\ msgs \in Seq(Packet) /\ p \in Elements(msgs)
           /\ \A q \in Elements(msgs) : \/ q = p
                                        \/ n = Origin /\ q.type = "ID" /\ q.body[1].id # 0
           /\ n = Origin => net[Origin][s] = <<>> /\ IdFirst(msgs, My(s).id = 0)
<1>1. child.id = IF n = Origin THEN nextId + 1 ELSE My(s).id
  BY NewChildIs
<1>2. CASE n = Origin
  <2>1. /\ net[Origin][s] = <<>> /\ nextId \in Nat /\ CurrentId(s, Origin) = nextId + 1
        /\ nextId + 1 # 0
    <3>1. Arrived(s, Origin, "SETUP")
      BY <1>2
    <3>2. net[Origin][s] = <<>> /\ nextId \in Nat /\ CurrentId(s, Origin) = nextId + 1
      BY <3>1, FirstRequest, AskingUnserved
    <3>. QED
      BY <3>2
  <2>2. /\ IdThen(s, p, msgs) /\ Reply(s, Origin, To(s, msgs)) /\ nextId' = nextId + 1
        /\ Arrived(s, Origin, "SETUP") /\ p.type # "ID"
    BY <1>2, <2>1 DEF AnswerWith
  <2>3. /\ msgs \in Seq(Packet) /\ Elements(msgs) = {IdPacket(s, nextId + 1), p}
        /\ IdFirst(msgs, My(s).id = 0)
    BY <2>2, NumberedQueue
  <2>4. /\ \A x \in Nodes \ {s} : \A k : Named(x, k)' <=> Named(x, k)
        /\ \A k : Named(s, k)' <=> k = nextId + 1
        /\ \A k : ~Named(s, k)
        /\ IdsGiven'
    BY <2>2, Numbering
  <2>5. IdPacket(s, nextId + 1).type = "ID" /\ IdPacket(s, nextId + 1).body[1].id = nextId + 1
    BY IdPacketIs
  <2>. QED
    BY <1>1, <1>2, <2>1, <2>3, <2>4, <2>5
<1>3. CASE n # Origin
  <2>1. n \in Peers /\ nextId' = nextId /\ Named(s, My(s).id) /\ TypeOK
    <3>1. n \in Peers /\ TypeOK
      BY <1>3, TreeBase DEF Nodes
    <3>. QED
      BY <3>1, LaterRequest
  <2>2. msgs = <<p>>
    BY <1>3 DEF AnswerWith
  <2>3. msgs \in Seq(Packet) /\ Elements(msgs) = {p}
    BY <2>2, FewElements
  <2>4. \A x \in Nodes : \A q : q.type = "ID" =>
          (q \in Fly(net', Origin, x) <=> q \in Fly(net, Origin, x))
    <3> DEFINE h == Head(net[s][n])
               m == msgs
    <3>1. net[s][n] # <<>> /\ h.type = "SETUP" /\ Origin \in Nodes
      BY ReadSays, TreeBase
    <3>2. m \in Seq(Packet) /\ Elements(m) = {p} /\ Reply(s, n, To(s, m))
      BY <2>3
    <3> HIDE DEF m
    <3>3. /\ \A x, y \in Nodes : \A q \in Fly(net, x, y) :
                 q \in Fly(net', x, y) \/ (x = s /\ y = n /\ q = h)
          /\ \A x, y \in Nodes : \A q \in Fly(net', x, y) :
                 \/ q \in Fly(net, x, y) /\ q \in Fly(Dropped(net, s, n), x, y)
                 \/ x = n /\ y = s /\ q \in Elements(m)
      BY <2>1, <3>1, <3>2, HandlerNet
    <3>. QED
      BY <1>3, <3>1, <3>2, <3>3
  <2>5. \A x \in Nodes : \A k : Named(x, k)' <=> Named(x, k)
    BY <2>4, NamesSame
  <2>6. NamedPeers' = NamedPeers
    <3>1. \A x \in Peers : x \in Nodes
      BY TreeBase
    <3>. QED
      BY <2>5, <3>1 DEF NamedPeers
  <2>7. IdsGiven'
    <3>1. IdsGiven
      BY DEF TreeInv, TreeParts
    <3>. QED
      BY <2>1, <2>5, <2>6, <3>1 DEF IdsGiven
  <2>. QED
    BY <1>1, <1>3, <2>1, <2>3, <2>5, <2>7
<1>. QED
  BY <1>2, <1>3

\* The slots after it: one more, for s.
LEMMA TakenSlots ==
    ASSUME Calm, TreeInv, NEW s \in Nodes, NEW n \in Nodes, Arrived(s, n, "SETUP"),
           ~isSetup[n], NEW i \in ChildSlots, ~Bit(connected[n], i), NEW child,
           AddChild(n, i, child, s)
    PROVE  /\ \A x \in Nodes : /\ My(x)' = My(x) /\ (My(x).id)' = My(x).id
                               /\ dst'[x][PARENT_ID] = dst[x][PARENT_ID]
                               /\ status'[x][PARENT_ID] = status[x][PARENT_ID]
                               /\ childNum'[x] = Kids(connected'[x])
                               /\ HasParent(x)' <=> HasParent(x)
           /\ \A x \in Nodes \ {n} : connected'[x] = connected[x] /\ childNum'[x] = childNum[x]
           /\ status'[n][i] = child /\ dst'[n][i] = s /\ Bit(connected'[n], i)
           /\ \A m \in Nodes : \A j \in ChildSlots : m # n \/ j # i =>
                 /\ dst'[m][j] = dst[m][j] /\ status'[m][j] = status[m][j]
                 /\ Bit(connected'[m], j) <=> Bit(connected[m], j)
<1>1. /\ TypeOK /\ PARENT_ID \in Slots /\ MY_ID \in Slots /\ i \in Slots /\ i \in 0..2
      /\ i # PARENT_ID /\ i # MY_ID /\ ChildSlots \subseteq Slots /\ ChildSlots \subseteq 0..PARENT_ID
      /\ PARENT_ID \in 0..PARENT_ID
  BY TreeBase
<1>2. /\ status \in [Nodes -> [Slots -> Status]] /\ dst \in [Nodes -> [0..PARENT_ID -> Addrs]]
      /\ connected \in [Nodes -> 0..255] /\ childNum \in [Nodes -> Int]
  BY <1>1 DEF TypeOK
<1>3. /\ status'[n][i] = child /\ dst'[n][i] = s
      /\ \A m \in Nodes : \A j \in Slots : m # n \/ j # i => status'[m][j] = status[m][j]
      /\ \A m \in Nodes : \A j \in 0..PARENT_ID : m # n \/ j # i => dst'[m][j] = dst[m][j]
  BY <1>1, <1>2 DEF AddChild
<1>4. /\ connected'[n] = SetBit(connected[n], i) /\ childNum'[n] = childNum[n] + 1
      /\ \A x \in Nodes \ {n} : connected'[x] = connected[x] /\ childNum'[x] = childNum[x]
  BY <1>2 DEF AddChild
<1>5. \A j \in Slots : Bit(connected'[n], j) <=> j = i \/ Bit(connected[n], j)
  <2>1. connected[n] \in 0..7
    <3>1. OrphanNode(n)
      BY DEF TreeInv, OrphanInv
    <3>2. connected[n] < 8
      BY <3>1 DEF OrphanNode
    <3>3. connected[n] \in 0..255
      BY <1>2
    <3>. QED
      BY <3>2, <3>3
  <2>2. \A j \in Slots : Bit(SetBit(connected[n], i), j) <=> j = i \/ Bit(connected[n], j)
    BY <1>1, <2>1, SmallBits
  <2>. QED
    BY <1>4, <2>2
<1>6. childNum'[n] = Kids(connected'[n])
  <2>1. childNum[n] = Kids(connected[n])
    BY TreeBase DEF TreeNode
  <2>2. Kids(SetBit(connected[n], i)) = Kids(connected[n]) + 1
    BY <1>2, SetChildBit
  <2>. QED
    BY <1>4, <2>1, <2>2
<1>7. \A x \in Nodes \ {n} : childNum'[x] = Kids(connected'[x])
  <2>1. \A x \in Nodes : childNum[x] = Kids(connected[x])
    BY TreeBase DEF TreeNode
  <2>. QED
    BY <1>4, <2>1
<1>8. \A x \in Nodes : My(x)' = My(x)
  BY <1>1, <1>3 DEF My
<1>9. \A x \in Nodes : (My(x).id)' = My(x).id
  BY <1>8
<1>10. \A x \in Nodes : HasParent(x)' <=> HasParent(x)
  BY <1>1, <1>4, <1>5 DEF HasParent
<1>. QED
  BY <1>1, <1>3, <1>4, <1>5, <1>6, <1>7, <1>8, <1>9, <1>10

LEMMA TreeTaken ==
    ASSUME Calm, TreeInv, OrphanInv', ListInv', NEW s \in Nodes, NEW n \in Nodes,
           NodeSetupJoin(s, n)
    PROVE  TreeInv'
<1>1. PICK i \in ChildSlots : \E child \in NewChild(s, n) : \E p, msgs :
         /\ Arrived(s, n, "SETUP") /\ ~isSetup[n] /\ ~Bit(connected[n], i)
         /\ AddChild(n, i, child, s)
         /\ AnswerWith(s, n, p, msgs) /\ Reply(s, n, To(s, msgs))
         /\ <<p>> \in Seq(Packet) /\ p.type = "INITIAL_STATUS" /\ Len(p.body) >= 2
         /\ p.body[1] = child /\ p.body[2] = My(n) /\ Tells(s, Tail(p.body))
         /\ nextId' = CurrentId(s, n)
         /\ UNCHANGED <<isSetup, isRetry, nodesList, cached>>
         /\ \A x \in Nodes : up'[x] = up[x]
  BY JoinStep
<1>2. PICK child \in NewChild(s, n) : \E p, msgs :
         /\ Arrived(s, n, "SETUP") /\ ~isSetup[n] /\ ~Bit(connected[n], i)
         /\ AddChild(n, i, child, s)
         /\ AnswerWith(s, n, p, msgs) /\ Reply(s, n, To(s, msgs))
         /\ <<p>> \in Seq(Packet) /\ p.type = "INITIAL_STATUS" /\ Len(p.body) >= 2
         /\ p.body[1] = child /\ p.body[2] = My(n) /\ Tells(s, Tail(p.body))
         /\ nextId' = CurrentId(s, n)
         /\ UNCHANGED <<isSetup, isRetry, nodesList, cached>>
         /\ \A x \in Nodes : up'[x] = up[x]
  BY <1>1
<1>3. PICK p, msgs :
         /\ Arrived(s, n, "SETUP") /\ ~isSetup[n] /\ ~Bit(connected[n], i)
         /\ AddChild(n, i, child, s)
         /\ AnswerWith(s, n, p, msgs) /\ Reply(s, n, To(s, msgs))
         /\ <<p>> \in Seq(Packet) /\ p.type = "INITIAL_STATUS" /\ Len(p.body) >= 2
         /\ p.body[1] = child /\ p.body[2] = My(n) /\ Tells(s, Tail(p.body))
         /\ nextId' = CurrentId(s, n)
         /\ UNCHANGED <<isSetup, isRetry, nodesList, cached>>
         /\ \A x \in Nodes : up'[x] = up[x]
  BY <1>2
<1> DEFINE h == Head(net[s][n])
<1>4. /\ h \in Fly(net, s, n) /\ h.type = "SETUP" /\ net[s][n] # <<>>
      /\ TypeOK /\ TypeOK' /\ Origin \in Nodes /\ Origin \notin Peers
  BY <1>3, ReadSays, TreeBase DEF OrphanInv, LinkInv, TypeInv
<1>5. /\ s \in Peers /\ isSetup[s] /\ up[s] = "up" /\ s # n /\ dst[s][PARENT_ID] = n
      /\ \A m \in Nodes : \A j \in ChildSlots : Bit(connected[m], j) => dst[m][j] # s
      /\ h \in Asking(s)[s][n]
  <2>1. ChildSlots \subseteq 0..2
    BY TreeBase
  <2> HIDE DEF h
  <2>2. /\ s \in Peers /\ isSetup[s] /\ up[s] = "up" /\ s # n /\ dst[s][PARENT_ID] = n
        /\ \A m \in Nodes : \A j \in 0..2 : Bit(connected[m], j) => dst[m][j] # s
        /\ h \in Asking(s)[s][n]
    BY <1>4, AskingUnserved
  <2>. QED
    BY <2>1, <2>2
<1> HIDE DEF h
<1>6. /\ child.ip = s /\ child.layer = My(n).layer + 1
      /\ My(n).layer + 1 <= Cardinality(ServedPeers) + 1
      /\ child.layer \in Int
  <2>1. child \in Status /\ child.ip = s /\ child.layer = My(n).layer + 1
        /\ My(n).layer + 1 <= Cardinality(ServedPeers) + 1
    BY <1>3, NewChildIs
  <2>. QED
    BY <2>1, StatusParts, SpaceAssumption
<1>7. /\ \A x \in Nodes : /\ My(x)' = My(x) /\ (My(x).id)' = My(x).id
                          /\ dst'[x][PARENT_ID] = dst[x][PARENT_ID]
                          /\ status'[x][PARENT_ID] = status[x][PARENT_ID]
                          /\ childNum'[x] = Kids(connected'[x])
                          /\ HasParent(x)' <=> HasParent(x)
      /\ \A x \in Nodes \ {n} : connected'[x] = connected[x] /\ childNum'[x] = childNum[x]
      /\ status'[n][i] = child /\ dst'[n][i] = s /\ Bit(connected'[n], i)
      /\ \A m \in Nodes : \A j \in ChildSlots : m # n \/ j # i =>
            /\ dst'[m][j] = dst[m][j] /\ status'[m][j] = status[m][j]
            /\ Bit(connected'[m], j) <=> Bit(connected[m], j)
  BY <1>3, TakenSlots
<1>8. /\ \A x \in Nodes : \A k : Named(x, k) => Named(x, k)'
      /\ \A x \in Nodes \ {s} : \A k : Named(x, k)' => Named(x, k)
      /\ Named(s, child.id)'
      /\ IdsGiven'
      /\ msgs \in Seq(Packet) /\ p \in Elements(msgs)
      /\ \A q \in Elements(msgs) : q = p \/ (n = Origin /\ q.type = "ID" /\ q.body[1].id # 0)
      /\ n = Origin => net[Origin][s] = <<>> /\ IdFirst(msgs, My(s).id = 0)
  BY <1>3, <1>7, TakenNames
<1>9. /\ \A x, y \in Nodes : \A q \in Fly(net, x, y) : q \in Fly(net', x, y) \/ (x = s /\ y = n /\ q = h)
      /\ \A x, y \in Nodes : \A q \in Fly(net', x, y) :
            \/ q \in Fly(net, x, y) /\ q \in Fly(Dropped(net, s, n), x, y)
            \/ x = n /\ y = s /\ q \in Elements(msgs)
      /\ p \in Fly(net', n, s)
  <2> DEFINE h0 == Head(net[s][n])
  <2>1. /\ \A x, y \in Nodes : \A q \in Fly(net, x, y) :
                 q \in Fly(net', x, y) \/ (x = s /\ y = n /\ q = h0)
        /\ \A x, y \in Nodes : \A q \in Fly(net', x, y) :
                 \/ q \in Fly(net, x, y) /\ q \in Fly(Dropped(net, s, n), x, y)
                 \/ x = n /\ y = s /\ q \in Elements(msgs)
        /\ s \in Nodes /\ up[s] = "up" => Elements(msgs) \subseteq Fly(net', n, s)
    BY <1>3, <1>4, <1>8, HandlerNet
  <2>. QED
    BY <1>5, <1>8, <2>1 DEF h
<1>10. Grows
  <2>1. \A m, c \in Nodes : \A j \in ChildSlots : Serves(m, j, c) =>
           Serves(m, j, c)' /\ status'[m][j] = status[m][j]
    BY <1>3, <1>7 DEF Serves
  <2>2. \A x \in Nodes : up'[x] # "dead" /\ up'[x] = up[x]
    BY <1>3, TreeBase DEF TreeNode
  <2>. QED
    BY <1>3, <1>7, <1>8, <2>1, <2>2 DEF Grows
<1>11. Serves(n, i, s)'
  BY <1>7 DEF Serves
<1>12. Cardinality(ServedPeers) + 1 <= Cardinality(ServedPeers')
  <2>1. s \in ServedPeers' /\ s \notin ServedPeers
    BY <1>5, <1>11 DEF ServedPeers, Serves
  <2>2. /\ ServedPeers \subseteq ServedPeers' /\ IsFiniteSet(ServedPeers')
        /\ IsFiniteSet(ServedPeers) /\ Cardinality(ServedPeers) \in Nat
    BY <1>10, ServedGrow, Counts
  <2> DEFINE S == ServedPeers
             T == ServedPeers'
  <2> HIDE DEF S, T
  <2>3. S \cup {s} \subseteq T /\ IsFiniteSet(T) /\ IsFiniteSet(S) /\ s \notin S
    BY <2>1, <2>2 DEF S, T
  <2>4. Cardinality(S \cup {s}) = Cardinality(S) + 1
    BY <2>3, FS_AddElement
  <2>5. Cardinality(S \cup {s}) <= Cardinality(T)
    BY <2>3, FS_Subset
  <2>. QED
    BY <2>4, <2>5 DEF S, T
<1>13. /\ child.layer <= Cardinality(ServedPeers')
       /\ Cardinality(ServedPeers) \in Nat /\ Cardinality(ServedPeers') \in Nat
  <2> DEFINE k == Cardinality(ServedPeers)
             l == Cardinality(ServedPeers')
             m == My(n).layer
             c == child.layer
  <2>1. k \in Nat /\ l \in Nat
    BY <1>10, ServedGrow
  <2>2. k + 1 <= l /\ m + 1 <= k + 1 /\ c = m + 1 /\ c \in Int
    BY <1>6, <1>12
  <2> HIDE DEF k, l, m, c
  <2>3. c <= l
    BY <2>1, <2>2
  <2>. QED
    BY <2>1, <2>3 DEF k, l, c
<1>14. Says(n, s, p)'
  <2>1. p.body[2] = My(n)' /\ p.body[1] = status'[n][i] /\ Tells(s, Tail(p.body))'
    BY <1>3, <1>7, <1>10, TruthStays
  <2>. QED
    BY <1>3, <1>11, <2>1 DEF Says
<1>15. ASSUME NEW x \in Nodes, NEW y \in Nodes, NEW q \in Fly(net', x, y)
       PROVE  Says(x, y, q)'
  <2>1. CASE q \in Fly(net, x, y) /\ q \in Fly(Dropped(net, s, n), x, y)
    <3>1. Says(x, y, q) /\ (q.type = "INITIAL_STATUS" => ~isSetup[x])
      BY <2>1, TreeBase DEF Fit
    <3>2. q.type = "SETUP" => x # s
      BY <1>3, <2>1, OneRequest
    <3>3. q.type = "SETUP" /\ y = Origin => \A k : Named(x, k)' => Named(x, k)
      BY <1>8, <3>2
    <3>4. q.type = "ADVERTISE" => dst'[y][PARENT_ID] = dst[y][PARENT_ID]
      BY <1>7
    <3>. QED
      BY <1>10, <3>1, <3>3, <3>4, SaysStays
  <2>2. CASE x = n /\ y = s /\ q \in Elements(msgs)
    <3>1. n = Origin /\ q.type = "ID" /\ q.body[1].id # 0 => Says(x, y, q)'
      BY <1>5, <2>2 DEF Says
    <3>. QED
      BY <1>8, <1>14, <2>2, <3>1
  <2>. QED
    BY <1>9, <2>1, <2>2
<1>16. ASSUME NEW x \in Nodes
       PROVE  TreeNode(x)'
  <2>1. CASE x # n
    <3>1. connected'[x] = connected[x] /\ childNum'[x] = childNum[x]
      BY <1>7, <2>1
    <3>. QED
      BY <1>3, <1>4, <1>10, <3>1, NodeStays
  <2>2. CASE x = n
    <3>1. TreeNode(n)
      BY TreeBase
    <3>2. up'[n] # "dead" /\ ~isRetry'[n] /\ ~isSetup'[n] /\ childNum'[n] = Kids(connected'[n])
      BY <1>3, <1>7, <1>10, <3>1 DEF TreeNode, Grows
    <3>3. HasParent(n)' <=> n \in Peers /\ ~isSetup'[n]
      BY <1>3, <1>7, <3>1 DEF TreeNode
    <3>4. (My(n).layer)' <= Cardinality(ServedPeers')
      <4> DEFINE l == My(n).layer
      <4>1. (My(n).layer)' = l
        BY <1>7
      <4>2. l \in Int
        BY <1>4, NodeParts, StatusParts, SpaceAssumption
      <4>3. l <= Cardinality(ServedPeers)
        BY <1>3, <3>1 DEF TreeNode
      <4> HIDE DEF l
      <4>4. l <= Cardinality(ServedPeers')
        BY <1>12, <1>13, <4>2, <4>3
      <4>. QED
        BY <4>1, <4>4
    <3>5. \A e \in Elements(nodesList'[n]) : Truthful(e)' /\ (e.ip = n => n = Origin)
      BY <1>3, <1>10, <3>1, TruthStays DEF TreeNode
    <3>. QED
      BY <2>2, <3>2, <3>3, <3>4, <3>5 DEF TreeNode
  <2>. QED
    BY <2>1, <2>2
<1>17. ASSUME NEW x \in Peers
       PROVE  InOrder(x)'
  <2>1. x \in Nodes /\ (My(x).id)' = My(x).id /\ s # Origin
    BY <1>4, <1>5, <1>7, TreeBase
  <2>2. IF s = Origin /\ n = x THEN (My(x).id)' # 0 ELSE ((My(x).id)' = 0 <=> My(x).id = 0)
    BY <2>1
  <2>3. n = Origin /\ x = s => net[Origin][x] = <<>> /\ IdFirst(msgs, My(x).id = 0)
    BY <1>8
  <2>. QED
    BY <1>3, <1>4, <1>8, <2>2, <2>3, OrderHandler
<1>18. ASSUME NEW x \in Peers, up[x] = "up", isSetup[x], dst[x][PARENT_ID] = Origin
       PROVE  ~NoToken(net', Asking(x))
  <2>1. ~NoToken(net, Asking(x)) /\ x \in Nodes
    BY <1>18, TreeBase DEF TreeInv, TreeParts, TreePeer
  <2>2. CASE x = s
    <3>1. p \in Elements(msgs) /\ p \in Asking(x)[n][s] /\ s \in Nodes /\ up[s] = "up"
      BY <1>3, <1>4, <1>5, <1>8, <2>2 DEF Asking
    <3>. QED
      BY <1>3, <1>4, <1>8, <2>1, <3>1, TokenHandler
  <2>3. CASE x # s
    <3>1. h \notin Asking(x)[s][n]
      BY <1>4, <1>5, <2>1, <2>3 DEF Asking
    <3>. QED
      BY <1>3, <1>4, <1>8, <2>1, <3>1, TokenHandler DEF h
  <2>. QED
    BY <2>2, <2>3
<1>19. ASSUME NEW x \in Peers
       PROVE  TreePeer(x)'
  <2>1. /\ x \in Nodes /\ My(x)' = My(x) /\ up'[x] = up[x] /\ isSetup'[x] = isSetup[x]
        /\ dst'[x][PARENT_ID] = dst[x][PARENT_ID]
    BY <1>3, <1>7, TreeBase
  <2>2. up'[x] = "off" => \A k : Named(x, k)' => Named(x, k)
    BY <1>5, <1>8, <2>1
  <2>. QED
    BY <1>10, <1>17, <1>18, <2>1, <2>2, PeerStays
<1>20. ASSUME NEW m \in Nodes, NEW j \in ChildSlots, Bit(connected'[m], j)
       PROVE  Linked(m, j)'
  <2>1. CASE m = n /\ j = i
    <3>1. dst'[n][i] = s /\ dst'[s][PARENT_ID] = n /\ isSetup'[s] /\ status'[n][i] = child
      BY <1>3, <1>5, <1>7
    <3>2. child.ip = s /\ Truthful(child)'
      BY <1>6, <1>8 DEF Truthful
    <3>3. child.layer = (My(n).layer)' + 1
      BY <1>6, <1>7
    <3>4. \E q \in Fly(net', n, s) : q.type = "INITIAL_STATUS"
      BY <1>3, <1>9
    <3>. QED
      BY <1>5, <1>13, <2>1, <3>1, <3>2, <3>3, <3>4 DEF Linked, Truthful
  <2>2. CASE m # n \/ j # i
    <3> DEFINE c == dst[m][j]
    <3>1. Bit(connected[m], j)
      BY <1>7, <1>20, <2>2
    <3>2. c \in Nodes
      BY <3>1, TreeBase DEF TreeInv, TreeParts, Linked
    <3>3. \A q \in Fly(net, m, c) : q.type = "INITIAL_STATUS" => q \in Fly(net', m, c)
      BY <1>4, <1>9, <3>2
    <3>4. isSetup'[c] = isSetup[c] /\ dst'[c][PARENT_ID] = dst[c][PARENT_ID]
          /\ status'[c][PARENT_ID] = status[c][PARENT_ID]
      BY <1>3, <1>7, <3>2
    <3>. QED
      BY <1>10, <3>1, <3>3, <3>4, LinkStays
  <2>. QED
    BY <2>1, <2>2
<1>21. OriginReady'
  <2>1. My(Origin)' = My(Origin)
    BY <1>4, <1>7
  <2>. QED
    BY <1>3, <2>1 DEF TreeInv, TreeParts, OriginReady
<1>22. ASSUME NEW m \in Nodes, Bit(connected'[m], 0), Bit(connected'[m], 1)
       PROVE  dst'[m][0] # dst'[m][1]
  <2>1. 0 \in ChildSlots /\ 1 \in ChildSlots
    BY TreeBase
  <2>2. CASE m # n
    BY <1>7, <1>22, <2>1, <2>2 DEF TreeInv, TreeParts
  <2>3. CASE m = n /\ i = 0
    BY <1>5, <1>7, <1>22, <2>1, <2>3
  <2>4. CASE m = n /\ i = 1
    BY <1>5, <1>7, <1>22, <2>1, <2>4
  <2>. QED
    BY <2>2, <2>3, <2>4, TreeBase
<1>. QED
  BY <1>8, <1>15, <1>16, <1>19, <1>20, <1>21, <1>22 DEF TreeInv, TreeParts

-----------------------------------------------------------------------------
(* The invariant holds.                                                     *)

LEMMA TreeInit == ASSUME Calm PROVE Init => TreeInv
<1> SUFFICES ASSUME Init
             PROVE  TreeInv
  OBVIOUS
<1>1. OrphanInv /\ ListInv
  BY OrphanInit, ListInit
<1>2. /\ Origin \in Nodes /\ Origin \notin Peers /\ Peers \subseteq Nodes /\ NoAddr \notin Nodes
      /\ PARENT_ID = 2 /\ MY_ID = 3 /\ ChildSlots \subseteq Slots /\ MY_ID \in Slots
      /\ ORIGIN_ID = 0 /\ PARENT_ID \in 0..PARENT_ID
  BY NodesAssumption DEF Nodes, PARENT_ID, MY_ID, ChildSlots, Slots, ORIGIN_ID
<1>3. \A a, b \in Nodes : net[a][b] = <<>> /\ Fly(net, a, b) = {}
  BY FewElements DEF Init, Fly
<1>4. \A n \in Nodes : /\ connected[n] = 0 /\ childNum[n] = 0 /\ ~isRetry[n]
                       /\ isSetup[n] = (n # Origin) /\ up[n] = (IF n = Origin THEN "up" ELSE "off")
  BY DEF Init
<1>5. \A n \in Nodes : \A i \in Slots : ~Bit(connected[n], i)
  BY <1>4, NoBits
<1>6. My(Origin) = OriginStatus /\ \A n \in Peers : My(n).id = 0 /\ My(n).ip = NoAddr
  <2>1. My(Origin) = OriginStatus
    BY <1>2 DEF Init, My
  <2>2. \A n \in Peers : My(n) = [ZeroStatus EXCEPT !.p = n]
    BY <1>2 DEF Init, My
  <2>. QED
    BY <2>1, <2>2 DEF ZeroStatus
<1>7. \A n \in Nodes : \A k : Named(n, k) <=> n = Origin /\ k = 0
  BY <1>2, <1>3, <1>6 DEF Named, Nodes
<1>8. Cardinality(NamedPeers) = 0 /\ Cardinality(ServedPeers) = 0
  <2>1. NamedPeers = {}
    BY <1>2, <1>7 DEF NamedPeers
  <2>2. ServedPeers = {}
    BY <1>2, <1>5 DEF ServedPeers, Serves
  <2>. QED
    BY <2>1, <2>2, FS_EmptySet
<1>9. \A n \in Nodes : \A e \in Elements(nodesList[n]) : e.ip = Origin /\ e.id = 0
  <2>1. OriginStatus.ip = Origin /\ OriginStatus.id = 0
        /\ [OriginStatus EXCEPT !.p = NoAddr].ip = Origin
        /\ [OriginStatus EXCEPT !.p = NoAddr].id = 0
    BY <1>2 DEF OriginStatus
  <2>2. \A n \in Nodes : \E st : nodesList[n] = <<st>> /\ st.ip = Origin /\ st.id = 0
    BY <2>1 DEF Init
  <2>3. ASSUME NEW n \in Nodes
        PROVE  \A e \in Elements(nodesList[n]) : e.ip = Origin /\ e.id = 0
    <3>1. PICK st : nodesList[n] = <<st>> /\ st.ip = Origin /\ st.id = 0
      BY <2>2
    <3>2. Elements(<<st>>) = {st}
      BY FewElements
    <3>. QED
      BY <3>1, <3>2
  <2>. QED
    BY <2>3
<1>10. ASSUME NEW n \in Nodes
       PROVE  TreeNode(n)
  <2>1. HasParent(n) <=> n \in Peers /\ ~isSetup[n]
    <3>1. ~Bit(connected[n], PARENT_ID)
      BY <1>2, <1>5 DEF Slots
    <3>. QED
      BY <1>2, <1>4, <3>1 DEF HasParent
  <2>2. childNum[n] = Kids(connected[n])
    <3>1. Kids(0) = 0
      BY DEF Kids, Bit, Weight
    <3>. QED
      BY <1>4, <3>1
  <2>3. ~isSetup[n] => My(n).layer <= Cardinality(ServedPeers)
    <3>1. ~isSetup[n] => n = Origin
      BY <1>4
    <3>2. My(Origin).layer = 0
      BY <1>6 DEF OriginStatus
    <3>3. 0 <= Cardinality(ServedPeers)
      BY <1>8
    <3>. QED
      BY <3>1, <3>2, <3>3
  <2>4. \A e \in Elements(nodesList[n]) : Truthful(e) /\ (e.ip = n => n = Origin)
    BY <1>2, <1>7, <1>9 DEF Truthful
  <2>5. up[n] # "dead" /\ ~isRetry[n]
    BY <1>4
  <2>. QED
    BY <2>1, <2>2, <2>3, <2>4, <2>5 DEF TreeNode
<1>11. ASSUME NEW n \in Peers
       PROVE  TreePeer(n)
  <2>1. n \in Nodes /\ n # Origin
    BY <1>2
  <2>2. dst[n][PARENT_ID] = Origin
    BY <1>2, <2>1 DEF Init
  <2>3. isSetup[n] /\ up[n] = "off" /\ My(n).id = 0 /\ My(n).ip = NoAddr
    BY <1>4, <1>6, <2>1
  <2>4. InOrder(n)
    BY <1>2, <1>3, <2>1 DEF InOrder, IdFirst
  <2>5. \A k \in Ids : ~Named(n, k)
    BY <1>7, <2>1
  <2>. QED
    BY <2>1, <2>2, <2>3, <2>4, <2>5 DEF TreePeer
<1>12. IdsGiven
  BY <1>7, <1>8 DEF IdsGiven, Init
<1>13. OriginReady
  <2>1. cached[Origin]
    BY <1>2 DEF Init, Calm
  <2>. QED
    BY <1>2, <1>4, <1>6, <2>1 DEF OriginReady
<1>14. \A m \in Nodes : \A i \in ChildSlots : ~Bit(connected[m], i)
  BY <1>2, <1>5
<1>15. \A m \in Nodes : ~Bit(connected[m], 0)
  BY <1>5 DEF Slots
<1>. QED
  BY <1>1, <1>3, <1>10, <1>11, <1>12, <1>13, <1>14, <1>15 DEF TreeInv, TreeParts

LEMMA TreeNext == ASSUME Calm PROVE TreeInv /\ [Next]_vars => TreeInv'
<1> SUFFICES ASSUME TreeInv, [Next]_vars
             PROVE  TreeInv'
  OBVIOUS
<1>1. OrphanInv' /\ ListInv'
  <2>1. OrphanInv /\ ListInv /\ Settled
    BY DEF TreeInv, Calm
  <2>2. OrphanInv'
    BY <2>1, OrphanNext
  <2>3. ListInv'
    BY <2>1, ListNext
  <2>. QED
    BY <2>2, <2>3
<1>2. ASSUME NEW s \in Nodes, NEW n \in Nodes, Receive(s, n)
      PROVE  TreeInv'
  <2>1. CASE NodeSetupDrawn(s, n) \/ NodeSetupUncached(s, n) \/ NodeSetupFull(s, n)
    <3>1. CASE n = Origin
      <4>1. NodeSetupDrawn(s, Origin) \/ NodeSetupUncached(s, Origin) \/ NodeSetupFull(s, Origin)
        BY <2>1, <3>1
      <4>. QED
        BY <1>1, <4>1, TreeOriginRedirect
    <3>2. CASE n \in Peers
      BY <1>1, <2>1, <3>2, TreeRedirect
    <3>. QED
      BY <3>1, <3>2 DEF Nodes
  <2>2. CASE NodeSetupJoin(s, n)
    BY <1>1, <2>2, TreeTaken
  <2>3. CASE NodeID(s, n)
    BY <1>1, <2>3, TreeID
  <2>4. CASE NodeInitialStatus(s, n)
    BY <1>1, <2>4, TreeJoined
  <2>5. CASE NodeAdvertise(s, n)
    BY <1>1, <2>5, TreeAdvertise
  <2>6. CASE NodeReqListUnknown(s, n) \/ NodeReqList(s, n) \/ NodeResList(s, n)
    BY <1>1, <2>6, TreeLists
  <2>. QED
    BY <1>2, <2>1, <2>2, <2>3, <2>4, <2>5, <2>6, NeverRead
<1>3. ASSUME NEW n \in Nodes, TimeProcess(n)
      PROVE  TreeInv'
  <2>1. CASE SetupTimer(n)
    BY <1>1, <2>1, TreeSetupTimer
  <2>2. CASE ListTimer(n)
    BY <1>1, <2>2, TreeListTimer
  <2>3. CASE CacheFull(n) \/ CacheDrains(n)
    BY <1>1, <2>3, TreeCaches
  <2>4. ~ExpireParent(n) /\ ~RetryTimer(n) /\ ~DepartTimer(n) /\ \A i \in Slots : ~ExpireSlot(n, i)
    BY NeverTaken
  <2>. QED
    BY <1>3, <2>1, <2>2, <2>3, <2>4 DEF TimeProcess
<1>4. CASE \E n \in Nodes : Start(n)
  BY <1>1, <1>4, TreeStart
<1>5. CASE (\E k, m, n \in Nodes : KeepAlive(k, m, n)) \/ UNCHANGED vars
  BY <1>1, <1>5, TreeCaches
<1>6. \A n \in Nodes : ~Crash(n) /\ \A s \in Nodes : ~Network(s, n)
  BY NeverTaken
<1>. QED
  BY <1>2, <1>3, <1>4, <1>5, <1>6 DEF Next

-----------------------------------------------------------------------------
(* What follows.                                                            *)

\* A peer that has joined is served by its parent, through one slot.
LEMMA OneServer ==
    ASSUME TreeInv, NEW n \in Peers, ~isSetup[n]
    PROVE  \E i \in ChildSlots :
              /\ Serves(dst[n][PARENT_ID], i, n) /\ dst[n][PARENT_ID] \in Nodes
              /\ ServedBy(n) = {<<dst[n][PARENT_ID], i>>}
<1> DEFINE m == dst[n][PARENT_ID]
<1>1. m \in Nodes /\ n \in Nodes
  BY TreeBase DEF TreeInv, TreeParts, TreePeer
<1>2. PICK i \in ChildSlots : Serves(m, i, n)
  BY DEF TreeInv, TreeParts, TreePeer
<1>3. ASSUME NEW a \in Nodes, NEW j \in ChildSlots, Bit(connected[a], j), dst[a][j] = n
      PROVE  a = m /\ j = i
  <2>1. Linked(a, j)
    BY <1>3 DEF TreeInv, TreeParts
  <2>2. a = m
    BY <1>3, <2>1 DEF Linked
  <2>3. i \in Slots /\ Bit(connected[m], i) /\ dst[m][i] = n
    BY <1>2, TreeBase DEF Serves
  <2>. QED
    BY <1>1, <1>3, <2>2, <2>3, OtherChildren
<1>4. Bit(connected[m], i) /\ dst[m][i] = n
  BY <1>2 DEF Serves
<1> HIDE DEF m
<1>5. ServedBy(n) = {<<m, i>>}
  <2>1. \A c \in ServedBy(n) : c = <<m, i>>
    BY <1>3 DEF ServedBy
  <2>2. <<m, i>> \in ServedBy(n)
    BY <1>1, <1>4 DEF ServedBy
  <2>. QED
    BY <2>1, <2>2
<1>. QED
  BY <1>1, <1>2, <1>5 DEF m

\* JoinedIsTree: whatever way the requests are sent on, whoever else joins at
\* the same time.
THEOREM JoinedTree == ASSUME Calm PROVE Spec => []JoinedIsTree
<1>1. ASSUME TreeInv
      PROVE  JoinedIsTree
  <2> SUFFICES ASSUME NEW n \in Peers, Joined(n)
               PROVE  \E m \in Nodes : \E i \in ChildSlots :
                         /\ ServedBy(n) = {<<m, i>>}
                         /\ dst[n][PARENT_ID] = m /\ Joined(m)
                         /\ status[m][i] = My(n) /\ status[n][PARENT_ID] = My(m)
                         /\ My(n).layer = My(m).layer + 1
    BY <1>1 DEF JoinedIsTree
  <2> DEFINE m == dst[n][PARENT_ID]
  <2>1. ~isSetup[n]
    BY DEF Joined
  <2>2. PICK i \in ChildSlots : Serves(m, i, n) /\ m \in Nodes /\ ServedBy(n) = {<<m, i>>}
    BY <1>1, <2>1, OneServer
  <2>3. Bit(connected[m], i) /\ dst[m][i] = n
    BY <2>2 DEF Serves
  <2>4. Linked(m, i) /\ i \in Slots /\ ~isSetup[m]
    BY <1>1, <2>2, <2>3, TreeBase, JoinedServes DEF TreeInv, TreeParts
  <2>5. up[m] = "up"
    <3>1. up[m] # "off" /\ up[m] # "dead" /\ up[m] \in {"off", "up", "dead"}
      BY <1>1, <2>2, <2>4, TreeBase DEF TreeNode, LinkNode, TypeOK
    <3>. QED
      BY <3>1
  <2>6. /\ status[m][i] = My(n) /\ status[n][PARENT_ID] = My(m)
        /\ My(n).layer = My(m).layer + 1
    BY <2>1, <2>3, <2>4 DEF Linked
  <2>. QED
    BY <2>2, <2>4, <2>5, <2>6 DEF Joined
<1>. QED
  BY <1>1, TreeInit, TreeNext, PTL DEF Spec

\* IdsDistinct: SETUPs repeated, redirected or answered late get one id each.
THEOREM IdsAreDistinct == ASSUME Calm PROVE Spec => []IdsDistinct
<1>1. ASSUME TreeInv
      PROVE  IdsDistinct
  <2> SUFFICES ASSUME NEW m \in Nodes, NEW n \in Nodes, Joined(m), Joined(n),
                      My(m).id = My(n).id
               PROVE  m = n
    BY DEF IdsDistinct
  <2>1. Named(m, My(m).id) /\ Named(n, My(n).id)
    BY <1>1, JoinedTruthful DEF Joined, Truthful
  <2>. QED
    BY <1>1, <2>1, OneName
<1>. QED
  BY <1>1, TreeInit, TreeNext, PTL DEF Spec

\* ListsTruthful: what is told of a node through any number of packets is
\* still true of it when it is stored.
THEOREM ListsAreTruthful == ASSUME Calm PROVE Spec => []ListsTruthful
<1>1. ASSUME TreeInv
      PROVE  ListsTruthful
  <2> SUFFICES ASSUME NEW n \in Nodes, NEW k \in DOMAIN nodesList[n]
               PROVE  /\ nodesList[n][k].ip \in Nodes
                      /\ Joined(nodesList[n][k].ip)
                            => My(nodesList[n][k].ip).id = nodesList[n][k].id
                      /\ n # Origin => nodesList[n][k].ip # n
    BY DEF ListsTruthful
  <2> DEFINE e == nodesList[n][k]
  <2>1. nodesList[n] \in Seq(Status)
    BY <1>1, TreeBase, NodeParts
  <2>2. k \in 1..Len(nodesList[n])
    BY <2>1
  <2>3. e \in Elements(nodesList[n])
    BY <2>2 DEF Elements
  <2>4. Truthful(e) /\ (e.ip = n => n = Origin)
    BY <1>1, <2>3, TreeBase DEF TreeNode
  <2> HIDE DEF e
  <2>5. e.ip \in Nodes /\ Named(e.ip, e.id)
    BY <2>4 DEF Truthful
  <2>6. Joined(e.ip) => Named(e.ip, My(e.ip).id)
    BY <1>1, <2>5, JoinedTruthful DEF Joined, Truthful
  <2>7. Joined(e.ip) => My(e.ip).id = e.id
    BY <1>1, <2>5, <2>6, OneName
  <2>. QED
    BY <2>4, <2>5, <2>7 DEF e
<1>. QED
  BY <1>1, TreeInit, TreeNext, PTL DEF Spec

\* What a step may do to the tree: take a child, tell one, or number one.
LEMMA StepKinds ==
    ASSUME Calm, TreeInv, [Next]_vars
    PROVE  \/ \E s, n \in Nodes : NodeSetupJoin(s, n) \/ NodeInitialStatus(s, n) \/ NodeID(s, n)
           \/ /\ UNCHANGED <<status, connected, isSetup>>
              /\ \A m \in Nodes : \A i \in ChildSlots : dst'[m][i] = dst[m][i]
<1> DEFINE Still == /\ UNCHANGED <<status, connected, isSetup>>
                    /\ \A m \in Nodes : \A i \in ChildSlots : dst'[m][i] = dst[m][i]
<1>1. ASSUME UNCHANGED <<status, dst, connected, isSetup>>
      PROVE  Still
  BY <1>1
<1> HIDE DEF Still
<1>2. ASSUME NEW s \in Nodes, NEW n \in Nodes, Receive(s, n)
      PROVE  NodeSetupJoin(s, n) \/ NodeInitialStatus(s, n) \/ NodeID(s, n) \/ Still
  <2>1. CASE NodeSetupDrawn(s, n) \/ NodeSetupUncached(s, n) \/ NodeSetupFull(s, n)
    <3>1. PICK i \in Slots : Redirect(s, n, i)
      BY <2>1, RedirectDrawn
    <3>. QED
      BY <1>1, <3>1 DEF Redirect, slotVars, linkVars, flagVars
  <2>2. CASE NodeAdvertise(s, n)
    <3>1. PICK t \in Addrs : /\ dst' = [dst EXCEPT ![n][PARENT_ID] = t]
                             /\ UNCHANGED <<status, connected, isSetup>>
      BY <2>2, AdvertiseStep
    <3>2. dst \in [Nodes -> [0..PARENT_ID -> Addrs]] /\ PARENT_ID \in 0..PARENT_ID
          /\ ChildSlots \subseteq 0..PARENT_ID /\ PARENT_ID \notin ChildSlots
      <4>1. TypeOK
        BY TreeBase
      <4>. QED
        BY <4>1 DEF TypeOK, PARENT_ID, ChildSlots
    <3>. QED
      BY <3>1, <3>2 DEF Still
  <2>3. CASE NodeReqListUnknown(s, n) \/ NodeReqList(s, n) \/ NodeResList(s, n)
    BY <1>1, <2>3 DEF NodeReqListUnknown, NodeReqList, NodeResList, slotVars, linkVars, flagVars
  <2>. QED
    BY <1>2, <2>1, <2>2, <2>3, NeverRead
<1>3. ASSUME NEW n \in Nodes, TimeProcess(n) \/ Start(n)
      PROVE  Still
  <2>1. CASE Start(n)
    BY <1>1, <2>1 DEF Start, slotVars, linkVars, flagVars
  <2>2. CASE SetupTimer(n)
    BY <1>1, <2>2 DEF SetupTimer, slotVars, linkVars, flagVars
  <2>3. CASE ListTimer(n)
    BY <1>1, <2>3 DEF ListTimer, slotVars, linkVars, flagVars
  <2>4. CASE CacheFull(n) \/ CacheDrains(n)
    BY <1>1, <2>4 DEF CacheFull, CacheDrains, slotVars, linkVars, flagVars
  <2>5. ~ExpireParent(n) /\ ~RetryTimer(n) /\ ~DepartTimer(n) /\ \A i \in Slots : ~ExpireSlot(n, i)
    BY NeverTaken
  <2>. QED
    BY <1>3, <2>1, <2>2, <2>3, <2>4, <2>5 DEF TimeProcess
<1>4. CASE \E k, m, n \in Nodes : KeepAlive(k, m, n)
  BY <1>1, <1>4 DEF KeepAlive, linkVars, flagVars
<1>5. CASE UNCHANGED vars
  BY <1>1, <1>5 DEF vars
<1>6. \A n \in Nodes : ~Crash(n) /\ \A s \in Nodes : ~Network(s, n)
  BY NeverTaken
<1>. QED
  BY <1>2, <1>3, <1>4, <1>5, <1>6 DEF Next, Still

\* IdKept: a SETUP that is numbered twice, an INITIAL_STATUS that overtakes
\* the ID packet would both give a peer another id.
THEOREM IdsAreKept == ASSUME Calm PROVE Spec => IdKept
<1>1. ASSUME TreeInv, [Next]_vars, NEW x \in Peers, My(x).id # 0
      PROVE  status'[x][MY_ID].id = My(x).id
  <2>1. x \in Nodes /\ x # Origin /\ MY_ID \in Slots /\ MY_ID \notin ChildSlots
    BY <1>1, TreeBase
  <2>2. ASSUME NEW s \in Nodes, NEW n \in Nodes, NodeSetupJoin(s, n)
        PROVE  My(x)' = My(x)
    <3>1. PICK i \in ChildSlots : \E child \in NewChild(s, n) :
             /\ Arrived(s, n, "SETUP") /\ ~isSetup[n] /\ ~Bit(connected[n], i)
             /\ AddChild(n, i, child, s)
      BY <1>1, <2>2, JoinStep
    <3>2. PICK child \in NewChild(s, n) :
             /\ Arrived(s, n, "SETUP") /\ ~isSetup[n] /\ ~Bit(connected[n], i)
             /\ AddChild(n, i, child, s)
      BY <3>1
    <3>. QED
      BY <1>1, <2>1, <3>2, TakenSlots
  <2>3. ASSUME NEW s \in Nodes, NEW n \in Nodes, NodeInitialStatus(s, n)
        PROVE  (My(x).id)' = My(x).id
    <3>1. CASE x # n
      BY <1>1, <2>1, <2>3, <3>1, JoinedStep
    <3>2. CASE x = n
      <4>1. PICK i \in ChildSlots : Serves(s, i, n) /\ My(n)' = status[s][i]
        BY <1>1, <2>3, JoinedStep
      <4>2. Linked(s, i) /\ dst[s][i] = n
        BY <1>1, <4>1 DEF Serves, TreeInv, TreeParts
      <4>3. Named(n, status[s][i].id)
        BY <4>2 DEF Linked, Truthful
      <4>4. Named(n, My(n).id)
        BY <1>1, <2>1, <3>2 DEF Named
      <4>. QED
        BY <1>1, <3>2, <4>1, <4>3, <4>4, OneName
    <3>. QED
      BY <3>1, <3>2
  <2>4. ASSUME NEW s \in Nodes, NEW n \in Nodes, NodeID(s, n)
        PROVE  My(x)' = My(x)
    <3> DEFINE h == Head(net[s][n])
    <3>1. /\ h.type = "ID" /\ net[s][n] # <<>> /\ s = Origin /\ n \in Peers
      BY <1>1, <2>4, ReadSays DEF NodeID, Says, Nodes
    <3>2. x # n
      BY <1>1, <3>1, HeadOrder
    <3>3. status \in [Nodes -> [Slots -> Status]]
      BY <1>1, TreeBase DEF TypeOK
    <3>. QED
      BY <2>1, <2>4, <3>2, <3>3 DEF NodeID, My
  <2>5. ASSUME UNCHANGED status
        PROVE  My(x)' = My(x)
    BY <2>5 DEF My
  <2>6. (My(x).id)' = My(x).id
    BY <1>1, <2>2, <2>3, <2>4, <2>5, StepKinds
  <2>. QED
    BY <2>6 DEF My
<1>2. TreeInv /\ [Next]_vars => [\A n \in Peers :
          My(n).id # 0 => status'[n][MY_ID].id = My(n).id]_vars
  BY <1>1
<1>. QED
  BY <1>2, TreeInit, TreeNext, PTL DEF Spec, IdKept

-----------------------------------------------------------------------------
(* Joining implements Membership.                                           *)

\* The parent of a peer in the tree is the node that serves it.
LEMMA ServerIs ==
    ASSUME TreeInv, NEW c \in Peers
    PROVE  /\ c \notin ServedPeers => Server(c) = NoAddr
           /\ \A m \in Nodes : \A i \in ChildSlots : Serves(m, i, c) => Server(c) = m
<1>1. ASSUME c \notin ServedPeers
      PROVE  Server(c) = NoAddr
  <2>1. ServedBy(c) = {}
    BY <1>1 DEF ServedBy, ServedPeers, Serves
  <2> DEFINE servers == {a[1] : a \in ServedBy(c)}
  <2>2. servers = {}
    BY <2>1
  <2>3. Cardinality(servers) = 0
    BY <2>2, FS_EmptySet
  <2>. QED
    BY <2>3 DEF Server
<1>2. ASSUME NEW m \in Nodes, NEW i \in ChildSlots, Serves(m, i, c)
      PROVE  Server(c) = m
  <2> DEFINE servers == {a[1] : a \in ServedBy(c)}
  <2>1. <<m, i>> \in ServedBy(c)
    BY <1>2 DEF ServedBy, Serves
  <2>2. \A a \in ServedBy(c) : a[1] = m
    <3>1. \A b \in Nodes : \A j \in ChildSlots :
             Bit(connected[b], j) /\ dst[b][j] = c => dst[c][PARENT_ID] = b
      BY DEF TreeInv, TreeParts, Linked
    <3>2. dst[c][PARENT_ID] = m
      BY <1>2, <3>1 DEF Serves
    <3>. QED
      BY <3>1, <3>2 DEF ServedBy
  <2>3. servers = {m}
    <3>1. \A b \in servers : b = m
      BY <2>2
    <3>2. m \in servers
      BY <2>1
    <3>. QED
      BY <3>1, <3>2
  <2>4. Cardinality(servers) = 1 /\ (CHOOSE b \in servers : TRUE) = m
    BY <2>3, FS_Singleton
  <2>. QED
    BY <2>4 DEF Server
<1>. QED
  BY <1>1, <1>2

\* A node that has joined is running.
LEMMA JoinedIs ==
    ASSUME TreeInv, NEW n \in Nodes
    PROVE  Joined(n) <=> ~isSetup[n]
<1>1. up[n] \in {"off", "up", "dead"} /\ up[n] # "dead" /\ (~isSetup[n] => up[n] # "off")
  BY TreeBase DEF TypeOK, TreeNode, LinkNode
<1>. QED
  BY <1>1 DEF Joined

\* A node serves as many peers as it has child slots in use.
LEMMA RoomLeft ==
    ASSUME TreeInv, NEW n \in Nodes, NEW i \in ChildSlots, ~Bit(connected[n], i)
    PROVE  Cardinality({c \in Peers : Server(c) = n}) < MAX_CHILD_NUM
<1> DEFINE S == {c \in Peers : Server(c) = n}
           d == dst[n][1 - i]
<1>1. ChildSlots = {0, 1} /\ NoAddr \notin Nodes
  BY TreeBase
<1>2. ASSUME NEW c \in S
      PROVE  c = d
  <2>1. c \in ServedPeers
    BY <1>1, ServerIs
  <2>2. PICK m \in Nodes, j \in ChildSlots : Serves(m, j, c)
    BY <2>1 DEF ServedPeers
  <2>3. m = n
    BY <2>2, ServerIs
  <2>4. j = 1 - i
    BY <1>1, <2>2, <2>3 DEF Serves
  <2>. QED
    BY <2>2, <2>3, <2>4 DEF Serves
<1> HIDE DEF S, d
<1>3. S \subseteq {d}
  BY <1>2
<1>4. Cardinality(S) <= 1
  <2>1. IsFiniteSet({d}) /\ Cardinality({d}) = 1
    BY FS_Singleton
  <2>. QED
    BY <1>3, <2>1, FS_Subset
<1>5. Cardinality(S) \in Nat
  BY <1>3, FS_Singleton, FS_Subset, FS_CardinalityType
<1>. QED
  BY <1>4, <1>5 DEF S, MAX_CHILD_NUM


\* The same, after a step.
ServersAre ==
    \A c \in Peers : /\ c \notin ServedPeers => Server(c) = NoAddr
                     /\ \A m \in Nodes : \A i \in ChildSlots : Serves(m, i, c) => Server(c) = m

LEMMA ServersNow == TreeInv => ServersAre
BY ServerIs DEF ServersAre

LEMMA ServersThen == TreeInv' => ServersAre'
BY ServersNow, PTL

\* A peer is served by the same node as long as the slots stay.
LEMMA SameServer ==
    ASSUME TreeInv, TreeInv', NEW c \in Peers,
           \A m \in Nodes : \A i \in ChildSlots : Serves(m, i, c)' <=> Serves(m, i, c)
    PROVE  Server(c)' = Server(c)
<1>1. c \in ServedPeers' <=> c \in ServedPeers
  BY DEF ServedPeers
<1>2. /\ c \notin ServedPeers' => Server(c)' = NoAddr
      /\ \A m \in Nodes : \A i \in ChildSlots : Serves(m, i, c)' => Server(c)' = m
  BY ServersThen DEF ServersAre
<1>3. CASE c \notin ServedPeers
  BY <1>1, <1>2, <1>3, ServerIs
<1>4. CASE c \in ServedPeers
  <2>1. PICK m \in Nodes, i \in ChildSlots : Serves(m, i, c)
    BY <1>4 DEF ServedPeers
  <2>2. Server(c) = m
    BY <2>1, ServerIs
  <2>. QED
    BY <1>2, <2>1, <2>2
<1>. QED
  BY <1>3, <1>4

\* The same for those that have joined.
JoinedAre == \A n \in Nodes : Joined(n) <=> ~isSetup[n]

LEMMA JoinedNow == TreeInv => JoinedAre
BY JoinedIs DEF JoinedAre

LEMMA JoinedThen == TreeInv' => JoinedAre'
BY JoinedNow, PTL

\* NodeSetup admits a peer.
LEMMA JoinAdmits ==
    ASSUME Calm, TreeInv, TreeInv', NEW s \in Nodes, NEW n \in Nodes, NodeSetupJoin(s, n)
    PROVE  Tree!Next
<1>1. PICK i \in ChildSlots : \E child \in NewChild(s, n) :
         /\ Arrived(s, n, "SETUP") /\ ~isSetup[n] /\ ~Bit(connected[n], i)
         /\ AddChild(n, i, child, s) /\ UNCHANGED isSetup
  BY JoinStep
<1>2. PICK child \in NewChild(s, n) :
         /\ Arrived(s, n, "SETUP") /\ ~isSetup[n] /\ ~Bit(connected[n], i)
         /\ AddChild(n, i, child, s) /\ UNCHANGED isSetup
  BY <1>1
<1>3. /\ s \in Peers /\ Peers \subseteq Nodes /\ Nodes = Peers \cup {Origin}
      /\ \A m \in Nodes : \A j \in ChildSlots : ~Serves(m, j, s)
  <2>1. \E h \in Fly(net, s, n) : h.type = "SETUP"
    BY <1>2, ReadSays
  <2>2. ChildSlots \subseteq 0..2 /\ Peers \subseteq Nodes /\ Nodes = Peers \cup {Origin}
    BY TreeBase DEF Nodes
  <2>. QED
    BY <2>1, <2>2, AskingUnserved DEF Serves
<1>4. /\ dst'[n][i] = s /\ Bit(connected'[n], i)
      /\ \A m \in Nodes : \A j \in ChildSlots : m # n \/ j # i =>
            /\ dst'[m][j] = dst[m][j]
            /\ Bit(connected'[m], j) <=> Bit(connected[m], j)
  BY <1>2, TakenSlots
<1>5. /\ Serves(n, i, s)'
      /\ \A c \in Peers \ {s} : \A m \in Nodes : \A j \in ChildSlots :
            Serves(m, j, c)' <=> Serves(m, j, c)
  <2>1. Serves(n, i, s)'
    BY <1>4 DEF Serves
  <2>2. ASSUME NEW c \in Peers \ {s}, NEW m \in Nodes, NEW j \in ChildSlots
        PROVE  Serves(m, j, c)' <=> Serves(m, j, c)
    BY <1>2, <1>4 DEF Serves
  <2>. QED
    BY <2>1, <2>2
<1>6. Server(s) = NoAddr /\ Server(s)' = n /\ \A c \in Peers \ {s} : Server(c)' = Server(c)
  <2>1. s \notin ServedPeers
    BY <1>3 DEF ServedPeers
  <2>2. Server(s) = NoAddr
    BY <1>3, <2>1, ServerIs
  <2>3. Server(s)' = n
    BY <1>3, <1>5, ServersThen DEF ServersAre
  <2>4. ASSUME NEW c \in Peers \ {s}
        PROVE  Server(c)' = Server(c)
    BY <1>5, SameServer
  <2>. QED
    BY <2>2, <2>3, <2>4
<1>7. Joined(n) /\ \A c \in Peers : Joined(c)' <=> Joined(c)
  BY <1>2, <1>3, JoinedNow, JoinedThen DEF JoinedAre
<1>8. Cardinality({c \in Peers : Server(c) = n}) < MAX_CHILD_NUM
  BY <1>2, RoomLeft
<1> DEFINE par == [c \in Peers |-> Server(c)]
           mem == {c \in Peers : Joined(c)}
<1>9. par[s] = NoAddr /\ n \in mem \cup {Origin} /\ Cardinality({c \in Peers : par[c] = n}) < MAX_CHILD_NUM
  <2>1. {c \in Peers : par[c] = n} = {c \in Peers : Server(c) = n}
    OBVIOUS
  <2>. QED
    BY <1>3, <1>6, <1>7, <1>8, <2>1
<1>10. par' = [par EXCEPT ![s] = n] /\ mem' = mem
  BY <1>3, <1>6, <1>7
<1>11. Tree!Cardinality(Tree!Children(n)) < MAX_CHILD_NUM
  <2>1. Tree!Children(n) = {c \in Peers : par[c] = n}
    BY DEF Tree!Children
  <2>2. \A S : Tree!Cardinality(S) = Cardinality(S)
    BY DEF Tree!Cardinality, Cardinality
  <2>. QED
    BY <1>9, <2>1, <2>2
<1>12. Tree!Admit(n, s)
  BY <1>9, <1>10, <1>11 DEF Tree!Admit
<1>. QED
  BY <1>3, <1>12 DEF Tree!Next

\* NodeInitialStatus confirms one.
LEMMA JoinedConfirms ==
    ASSUME Calm, TreeInv, TreeInv', NEW s \in Nodes, NEW n \in Nodes, NodeInitialStatus(s, n)
    PROVE  Tree!Next
<1>1. /\ \E i \in ChildSlots : Serves(s, i, n)
      /\ connected' = [connected EXCEPT ![n] = SetBit(0, PARENT_ID)]
      /\ isSetup' = [isSetup EXCEPT ![n] = FALSE]
      /\ UNCHANGED dst
  BY JoinedStep
<1>2. /\ n \in Peers /\ isSetup[n] /\ connected[n] = 0
      /\ Peers \subseteq Nodes /\ NoAddr \notin Nodes /\ TypeOK
      /\ ChildSlots \subseteq Slots /\ PARENT_ID \notin ChildSlots
  <2>1. net[s][n] # <<>> /\ Head(net[s][n]).type = "INITIAL_STATUS"
    BY ReadSays DEF NodeInitialStatus
  <2>. QED
    BY <2>1, OneAnswer, TreeBase
<1>3. \A m \in Nodes : \A j \in ChildSlots : Bit(connected'[m], j) <=> Bit(connected[m], j)
  <2>1. connected'[n] = SetBit(0, PARENT_ID) /\ \A m \in Nodes \ {n} : connected'[m] = connected[m]
    BY <1>1, <1>2 DEF TypeOK
  <2>2. \A j \in ChildSlots : ~Bit(0, j) /\ ~Bit(SetBit(0, PARENT_ID), j)
    <3>1. 0 \in 0..7 /\ PARENT_ID \in 0..2 /\ PARENT_ID \in Slots
      BY TreeBase
    <3>2. \A j \in Slots : Bit(SetBit(0, PARENT_ID), j) <=> j = PARENT_ID
      BY <3>1, SmallBits, NoBits
    <3>. QED
      BY <1>2, <3>2, NoBits
  <2>. QED
    BY <1>2, <2>1, <2>2
<1>4. \A c \in Peers : Server(c)' = Server(c)
  <2>1. \A c \in Peers : \A m \in Nodes : \A j \in ChildSlots : Serves(m, j, c)' <=> Serves(m, j, c)
    BY <1>1, <1>3 DEF Serves
  <2>. QED
    BY <2>1, SameServer
<1>5. Server(n) # NoAddr
  BY <1>1, <1>2, ServerIs
<1>6. ~Joined(n) /\ \A c \in Peers : Joined(c)' <=> c = n \/ Joined(c)
  <2>1. \A c \in Peers : ~isSetup'[c] <=> c = n \/ ~isSetup[c]
    BY <1>1, <1>2 DEF TypeOK
  <2>. QED
    BY <1>2, <2>1, JoinedNow, JoinedThen DEF JoinedAre
<1> DEFINE par == [c \in Peers |-> Server(c)]
           mem == {c \in Peers : Joined(c)}
<1>7. par[n] # NoAddr /\ n \notin mem /\ par' = par /\ mem' = mem \cup {n}
  BY <1>2, <1>4, <1>5, <1>6
<1>8. Tree!Confirm(n)
  BY <1>7 DEF Tree!Confirm
<1>. QED
  BY <1>2, <1>8 DEF Tree!Next

\* JoinsTree: the packets of joining, read in any order, repeated by the
\* timers, sent on from node to node, implement Membership.
THEOREM JoinsMembership == ASSUME Calm PROVE Spec => JoinsTree
<1>1. ASSUME Init
      PROVE  Tree!Init
  <2>1. TreeInv /\ \A n \in Peers : isSetup[n] /\ n \in Nodes
    <3>1. TreeInv
      BY <1>1, TreeInit
    <3>. QED
      BY <1>1, <3>1, TreeBase DEF Init
  <2>2. \A n \in Peers : ~Joined(n)
    BY <2>1, JoinedIs
  <2>3. \A n \in Peers : n \notin ServedPeers
    <3>1. \A m \in Nodes : \A i \in ChildSlots : ~Bit(connected[m], i)
      BY <1>1, <2>1, NoBits, TreeBase DEF Init
    <3>. QED
      BY <3>1 DEF ServedPeers, Serves
  <2>4. \A n \in Peers : Server(n) = NoAddr
    BY <2>1, <2>3, ServerIs
  <2>. QED
    BY <2>2, <2>4 DEF Tree!Init
<1>2. ASSUME TreeInv, TreeInv', [Next]_vars
      PROVE  [Tree!Next]_(Tree!memberVars)
  <2>1. CASE \E s, n \in Nodes : NodeSetupJoin(s, n) \/ NodeInitialStatus(s, n)
    BY <1>2, <2>1, JoinAdmits, JoinedConfirms
  <2>2. ASSUME \A m \in Nodes : \A i \in ChildSlots : dst'[m][i] = dst[m][i],
               UNCHANGED <<connected, isSetup>>
        PROVE  UNCHANGED Tree!memberVars
    <3>1. \A c \in Peers : \A m \in Nodes : \A i \in ChildSlots : Serves(m, i, c)' <=> Serves(m, i, c)
      BY <2>2 DEF Serves
    <3>2. \A c \in Peers : Server(c)' = Server(c)
      BY <1>2, <3>1, SameServer
    <3>3. \A c \in Peers : Joined(c)' <=> Joined(c)
      BY <1>2, <2>2, TreeBase, JoinedNow, JoinedThen DEF JoinedAre
    <3>. QED
      BY <3>2, <3>3 DEF Tree!memberVars
  <2>3. CASE \E s, n \in Nodes : NodeID(s, n)
    BY <2>2, <2>3 DEF NodeID, linkVars, flagVars
  <2>. QED
    BY <1>2, <2>1, <2>2, <2>3, StepKinds
<1>. QED
  BY <1>1, <1>2, TreeInit, TreeNext, PTL DEF Spec, JoinsTree, Tree!Spec

-----------------------------------------------------------------------------
(* What that means for the tree as a whole.                                 *)

Parents == [c \in Peers |-> Server(c)]
Members == {c \in Peers : Joined(c)}

\* par maps every peer to its parent, of which only members and the origin
\* serve, and no set of peers serves itself.
Rooted(par, mem) ==
    /\ par \in [Peers -> Nodes \cup {NoAddr}] /\ mem \subseteq Peers
    /\ \A c \in Peers : par[c] # NoAddr => par[c] \in mem \cup {Origin}
    /\ \A c \in mem : par[c] # NoAddr
    /\ \A S \in SUBSET {c \in Peers : par[c] # NoAddr} :
         S # {} => \E c \in S : par[c] \notin S

\* A new child has no children of its own, so the rings it could close are
\* those that were there before.
LEMMA AdmitRooted ==
    ASSUME NEW par, NEW mem, Rooted(par, mem), NEW c \in Peers,
           NEW p \in mem \cup {Origin}, par[c] = NoAddr
    PROVE  Rooted([par EXCEPT ![c] = p], mem)
<1> DEFINE new == [par EXCEPT ![c] = p]
<1>1. /\ Origin \notin Peers /\ NoAddr \notin Nodes /\ Nodes = Peers \cup {Origin}
      /\ par \in [Peers -> Nodes \cup {NoAddr}] /\ mem \subseteq Peers
  BY NodesAssumption DEF Rooted, Nodes
<1>2. c \notin mem /\ p # c /\ p # NoAddr /\ p \in Nodes
  BY <1>1 DEF Rooted
<1>3. /\ new \in [Peers -> Nodes \cup {NoAddr}] /\ new[c] = p
      /\ \A d \in Peers : d # c => new[d] = par[d]
  BY <1>1, <1>2
<1> HIDE DEF new
<1>4. /\ \A d \in Peers : new[d] # NoAddr => new[d] \in mem \cup {Origin}
      /\ \A d \in mem : new[d] # NoAddr
  BY <1>1, <1>2, <1>3 DEF Rooted
<1>5. \A d \in Peers : par[d] # c
  BY <1>1, <1>2 DEF Rooted
<1>6. ASSUME NEW S \in SUBSET {d \in Peers : new[d] # NoAddr}, S # {}
      PROVE  \E d \in S : new[d] \notin S
  <2> DEFINE T == S \ {c}
  <2>1. CASE T = {}
    BY <1>2, <1>3, <1>6, <2>1
  <2>2. CASE T # {}
    <3>1. T \in SUBSET {d \in Peers : par[d] # NoAddr}
      BY <1>3
    <3>2. PICK d \in T : par[d] \notin T
      BY <2>2, <3>1 DEF Rooted
    <3>3. par[d] # c /\ new[d] = par[d]
      BY <1>3, <1>5, <3>2
    <3>. QED
      BY <3>2, <3>3
  <2>. QED
    BY <2>1, <2>2
<1>. QED
  BY <1>1, <1>3, <1>4, <1>6 DEF Rooted, new

LEMMA StepRooted ==
    ASSUME Rooted(Parents, Members), [Tree!Next]_(Tree!memberVars)
    PROVE  Rooted(Parents, Members)'
<1> DEFINE par == Parents
           mem == Members
<1>1. CASE UNCHANGED Tree!memberVars
  <2>1. par' = par /\ mem' = mem
    BY <1>1 DEF Tree!memberVars, Parents, Members
  <2>. QED
    BY <2>1 DEF Rooted
<1>2. ASSUME NEW c \in Peers, NEW p \in Peers \cup {Origin}, Tree!Admit(p, c)
      PROVE  Rooted(par, mem)'
  <2>1. /\ par[c] = NoAddr /\ p \in mem \cup {Origin}
        /\ par' = [par EXCEPT ![c] = p] /\ mem' = mem
    BY <1>2 DEF Tree!Admit, Parents, Members
  <2>2. Rooted([par EXCEPT ![c] = p], mem)
    BY <2>1, AdmitRooted
  <2>. QED
    BY <2>1, <2>2 DEF Rooted
<1>3. ASSUME NEW c \in Peers, Tree!Confirm(c)
      PROVE  Rooted(par, mem)'
  <2>1. par[c] # NoAddr /\ mem' = mem \cup {c} /\ par' = par
    BY <1>3 DEF Tree!Confirm, Parents, Members
  <2>. QED
    BY <2>1 DEF Rooted
<1>. QED
  BY <1>1, <1>2, <1>3 DEF Tree!Next

\* Following the parents from any peer that a node serves leads to the origin,
\* and every node on the way has joined: NodeSetup takes only what asked it,
\* and a node that still asks serves nobody.
THEOREM JoiningBuildsTree ==
    ASSUME Calm
    PROVE  Spec => [](Tree!MembersServe /\ Tree!Acyclic)
<1>1. Tree!Init => Rooted(Parents, Members)
  <2> SUFFICES ASSUME Tree!Init PROVE Rooted(Parents, Members)
    OBVIOUS
  <2> DEFINE par == Parents
             mem == Members
  <2>1. par = [c \in Peers |-> NoAddr] /\ mem = {}
    BY DEF Tree!Init, Parents, Members
  <2>2. {c \in Peers : par[c] # NoAddr} = {}
    BY <2>1
  <2> HIDE DEF par, mem
  <2>3. Rooted(par, mem)
    BY <2>1, <2>2 DEF Rooted
  <2>. QED
    BY <2>3 DEF par, mem
<1>2. Rooted(Parents, Members) /\ [Tree!Next]_(Tree!memberVars) => Rooted(Parents, Members)'
  BY StepRooted
<1>3. Rooted(Parents, Members) => Tree!MembersServe /\ Tree!Acyclic
  BY DEF Rooted, Parents, Members, Tree!MembersServe, Tree!Acyclic
<1>. QED
  BY <1>1, <1>2, <1>3, JoinsMembership, PTL DEF JoinsTree, Tree!Spec

=============================================================================
