---------------------------- MODULE OverlayProofs ---------------------------
(***************************************************************************)
(* The types of Overlay, its child count and its node lists; then which    *)
(* packets can be under way, and what that says about the slots of a node. *)
(* For every set of peers, every number of faults and timer steps and      *)
(* every content of stale bytes; what needs a quieter environment names it.*)
(***************************************************************************)
EXTENDS Overlay, NodeListProofs

-----------------------------------------------------------------------------
(* The arithmetic of CONNECTED_NODES.                                       *)

\* Setting a clear child bit adds one child and keeps a u8.
LEMMA SetChildBit ==
    ASSUME NEW c \in 0..255, NEW i \in ChildSlots, ~Bit(c, i)
    PROVE  SetBit(c, i) \in 0..255 /\ Kids(SetBit(c, i)) = Kids(c) + 1
<1>1. CASE i = 0
  BY <1>1 DEF Bit, SetBit, Kids, Weight
<1>2. CASE i = 1
  BY <1>2 DEF Bit, SetBit, Kids, Weight
<1>. QED
  BY <1>1, <1>2 DEF ChildSlots

\* Adding the parent's bit, set or not, leaves the child bits alone.
LEMMA SetParentBit ==
    ASSUME NEW c \in 0..255
    PROVE  SetBit(c, PARENT_ID) \in 0..255 /\ Kids(SetBit(c, PARENT_ID)) = Kids(c)
BY DEF SetBit, Kids, Weight, PARENT_ID

\* Subtracting the weight of any slot, set or not, costs at most one child.
LEMMA ClearAnyBit ==
    ASSUME NEW c \in 0..255, NEW i \in Slots
    PROVE  ClearBit(c, i) \in 0..255 /\ Kids(ClearBit(c, i)) >= Kids(c) - 1
<1>1. CASE i = 0
  BY <1>1 DEF ClearBit, Kids, Weight
<1>2. CASE i = 1
  BY <1>2 DEF ClearBit, Kids, Weight
<1>3. CASE i = 2
  BY <1>3 DEF ClearBit, Kids, Weight
<1>4. CASE i = 3
  BY <1>4 DEF ClearBit, Kids, Weight
<1>. QED
  BY <1>1, <1>2, <1>3, <1>4 DEF Slots

\* Subtracting the parent's weight, set or not, leaves the child bits alone.
LEMMA ClearParentBit ==
    ASSUME NEW c \in 0..255
    PROVE  ClearBit(c, PARENT_ID) \in 0..255
           /\ Kids(ClearBit(c, PARENT_ID)) = Kids(c)
BY DEF ClearBit, Kids, Weight, PARENT_ID

\* NodeDepart takes off as many children as it counts down, or fewer.
LEMMA DepartKids ==
    ASSUME NEW c \in 0..255, NEW k \in Int, NEW gone, k <= Kids(c)
    PROVE  /\ DepartBits(c, gone) \in 0..255
           /\ DepartNum(k, gone) \in Int
           /\ DepartNum(k, gone) <= Kids(DepartBits(c, gone))
<1>1. CASE 0 \in gone /\ 1 \in gone
  <2>1. DepartBits(c, gone) = (c - 3) % 256 /\ DepartNum(k, gone) = k - 2
    BY <1>1 DEF DepartBits, DepartNum, One
  <2>. QED
    BY <2>1 DEF Kids
<1>2. CASE 0 \in gone /\ 1 \notin gone
  <2>1. DepartBits(c, gone) = (c - 1) % 256 /\ DepartNum(k, gone) = k - 1
    BY <1>2 DEF DepartBits, DepartNum, One
  <2>. QED
    BY <2>1 DEF Kids
<1>3. CASE 0 \notin gone /\ 1 \in gone
  <2>1. DepartBits(c, gone) = (c - 2) % 256 /\ DepartNum(k, gone) = k - 1
    BY <1>3 DEF DepartBits, DepartNum, One
  <2>. QED
    BY <2>1 DEF Kids
<1>4. CASE 0 \notin gone /\ 1 \notin gone
  <2>1. DepartBits(c, gone) = c /\ DepartNum(k, gone) = k
    BY <1>4 DEF DepartBits, DepartNum, One
  <2>. QED
    BY <2>1
<1>. QED
  BY <1>1, <1>2, <1>3, <1>4

-----------------------------------------------------------------------------
(* The number of children.                                                  *)

\* ChildCountBounded with the types it needs: inductive as it stands.
CountInv == /\ connected \in [Nodes -> 0..255]
            /\ childNum \in [Nodes -> Int]
            /\ ChildCountBounded

\* Nobody is connected when the processes start.
LEMMA CountInit == Init => CountInv
BY DEF Init, CountInv, ChildCountBounded, Kids

\* Most handlers leave the bits and the count alone.
LEMMA CountUnchanged == CountInv /\ UNCHANGED linkVars => CountInv'
BY DEF CountInv, ChildCountBounded, linkVars

\* A change of one node's bits and count that respects the bound.
LEMMA CountAt ==
    ASSUME CountInv, NEW n \in Nodes, NEW c \in 0..255, NEW k \in Int,
           k <= Kids(c),
           connected' = [connected EXCEPT ![n] = c],
           childNum' = [childNum EXCEPT ![n] = k]
    PROVE  CountInv'
BY DEF CountInv, ChildCountBounded

\* What CheckChildNum returns is a child slot whose bit is clear.
LEMMA FreeSlot ==
    ASSUME NEW n \in Nodes, CheckChildNum(n) # -1
    PROVE  CheckChildNum(n) \in ChildSlots /\ ~Bit(connected[n], CheckChildNum(n))
BY DEF CheckChildNum, ChildSlots

\* NodeSetup and NodeConnect set the bit CheckChildNum found clear.
LEMMA CountAddChild ==
    ASSUME CountInv, NEW n \in Nodes, NEW child, NEW addr,
           CheckChildNum(n) # -1,
           AddChild(n, CheckChildNum(n), child, addr)
    PROVE  CountInv'
<1> DEFINE c == SetBit(connected[n], CheckChildNum(n))
           k == childNum[n] + 1
<1>1. connected[n] \in 0..255 /\ childNum[n] \in Int
      /\ childNum[n] <= Kids(connected[n])
  BY DEF CountInv, ChildCountBounded
<1>2. c \in 0..255 /\ Kids(c) = Kids(connected[n]) + 1
  BY <1>1, FreeSlot, SetChildBit
<1>3. Kids(connected[n]) \in Int
  BY <1>1 DEF Kids
<1>4. k \in Int /\ k <= Kids(c)
  BY <1>1, <1>2, <1>3
<1>5. connected' = [connected EXCEPT ![n] = c]
      /\ childNum' = [childNum EXCEPT ![n] = k]
  BY DEF AddChild
<1> HIDE DEF c, k
<1>. QED
  BY <1>2, <1>4, <1>5, CountAt

\* Setting or clearing the parent's bit of a node.
LEMMA CountParent ==
    ASSUME CountInv, NEW n \in Nodes, UNCHANGED childNum,
           \/ connected' = [connected EXCEPT ![n] = SetBit(connected[n], PARENT_ID)]
           \/ connected' = [connected EXCEPT ![n] = ClearBit(connected[n], PARENT_ID)]
    PROVE  CountInv'
<1>1. connected[n] \in 0..255 /\ childNum[n] \in Int
      /\ childNum[n] <= Kids(connected[n])
  BY DEF CountInv, ChildCountBounded
<1>2. PICK c \in 0..255 : Kids(c) = Kids(connected[n])
                          /\ connected' = [connected EXCEPT ![n] = c]
  BY <1>1, SetParentBit, ClearParentBit
<1>3. childNum' = [childNum EXCEPT ![n] = childNum[n]]
  BY DEF CountInv
<1>. QED
  BY <1>1, <1>2, <1>3, CountAt

\* The expiry of any slot, the parent's included.
LEMMA CountExpire ==
    ASSUME CountInv, NEW n \in Nodes, NEW i \in Slots,
           connected' = [connected EXCEPT ![n] = ClearBit(connected[n], i)],
           childNum' = [childNum EXCEPT ![n] = childNum[n] - 1]
    PROVE  CountInv'
<1> DEFINE c == ClearBit(connected[n], i)
           k == childNum[n] - 1
<1>1. connected[n] \in 0..255 /\ childNum[n] \in Int
      /\ childNum[n] <= Kids(connected[n])
  BY DEF CountInv, ChildCountBounded
<1>2. c \in 0..255 /\ Kids(c) >= Kids(connected[n]) - 1
  BY <1>1, ClearAnyBit
<1>3. connected' = [connected EXCEPT ![n] = c]
      /\ childNum' = [childNum EXCEPT ![n] = k]
  OBVIOUS
<1>4. k = childNum[n] - 1
  OBVIOUS
<1> HIDE DEF c, k
<1>5. Kids(connected[n]) \in Int /\ Kids(c) \in Int
  BY <1>1, <1>2 DEF Kids
<1>6. k \in Int /\ k <= Kids(c)
  BY <1>1, <1>2, <1>4, <1>5
<1>. QED
  BY <1>2, <1>3, <1>6, CountAt

\* NodeDepart, whatever slots hold the id of the one that leaves.
LEMMA CountDepart ==
    ASSUME CountInv, NEW s \in Nodes, NEW n \in Nodes, NodeDepart(s, n)
    PROVE  CountInv'
<1> DEFINE gone == Departing(n, Body(s, n)[1].id)
           c == DepartBits(connected[n], gone)
           k == DepartNum(childNum[n], gone)
<1>1. connected[n] \in 0..255 /\ childNum[n] \in Int
      /\ childNum[n] <= Kids(connected[n])
  BY DEF CountInv, ChildCountBounded
<1>2. connected' = [connected EXCEPT ![n] = c]
      /\ childNum' = [childNum EXCEPT ![n] = k]
  BY DEF NodeDepart
<1> HIDE DEF gone
<1>3. c \in 0..255 /\ k \in Int /\ k <= Kids(c)
  BY <1>1, DepartKids
<1> HIDE DEF c, k
<1>. QED
  BY <1>2, <1>3, CountAt

\* Every step keeps the bound.
LEMMA CountNext == CountInv /\ [Next]_vars => CountInv'
<1> SUFFICES ASSUME CountInv, [Next]_vars
             PROVE  CountInv'
  OBVIOUS
<1>1. ASSUME NEW s \in Nodes, NEW n \in Nodes, Receive(s, n)
      PROVE  CountInv'
  <2>1. CASE NodeSetupDrawn(s, n)
    BY <2>1, CountUnchanged DEF NodeSetupDrawn, Redirect
  <2>2. CASE NodeSetupUncached(s, n)
    BY <2>2, CountUnchanged DEF NodeSetupUncached, Redirect
  <2>3. CASE NodeSetupFull(s, n)
    BY <2>3, CountUnchanged DEF NodeSetupFull, Redirect
  <2>4. CASE NodeSetupJoin(s, n)
    <3>1. PICK child \in NewChild(s, n) :
                  CheckChildNum(n) # -1 /\ AddChild(n, CheckChildNum(n), child, s)
      BY <2>4 DEF NodeSetupJoin
    <3>. QED
      BY <3>1, CountAddChild
  <2>5. CASE NodeID(s, n)
    BY <2>5, CountUnchanged DEF NodeID
  <2>6. CASE NodeInitialStatus(s, n)
    <3>1. /\ connected' = [connected EXCEPT ![n] = SetBit(connected[n], PARENT_ID)]
          /\ UNCHANGED childNum
      BY <2>6 DEF NodeInitialStatus
    <3>. QED
      BY <3>1, CountParent
  <2>7. CASE NodeAdvertise(s, n)
    BY <2>7, CountUnchanged DEF NodeAdvertise
  <2>8. CASE NodeConnectRefused(s, n)
    BY <2>8, CountUnchanged DEF NodeConnectRefused
  <2>9. CASE NodeConnectDuplicate(s, n)
    BY <2>9, CountUnchanged DEF NodeConnectDuplicate
  <2>10. CASE NodeConnectAccepted(s, n)
    <3>1. PICK child, addr : CheckChildNum(n) # -1
                             /\ AddChild(n, CheckChildNum(n), child, addr)
      BY <2>10 DEF NodeConnectAccepted
    <3>. QED
      BY <3>1, CountAddChild
  <2>11. CASE NodeAccept(s, n)
    <3>1. /\ connected' = [connected EXCEPT
                             ![n] = IF HasParent(n) THEN connected[n]
                                    ELSE SetBit(connected[n], PARENT_ID)]
          /\ UNCHANGED childNum
      BY <2>11 DEF NodeAccept
    <3>2. CASE HasParent(n)
      BY <3>1, <3>2, CountUnchanged DEF CountInv, linkVars
    <3>3. CASE ~HasParent(n)
      BY <3>1, <3>3, CountParent
    <3>. QED
      BY <3>2, <3>3
  <2>12. CASE NodeUnaccept(s, n)
    BY <2>12, CountUnchanged DEF NodeUnaccept
  <2>13. CASE NodeDepart(s, n)
    BY <2>13, CountDepart
  <2>14. CASE NodeDetach(s, n)
    <3>1. /\ connected' = [connected EXCEPT ![n] = ClearBit(connected[n], PARENT_ID)]
          /\ UNCHANGED childNum
      BY <2>14 DEF NodeDetach
    <3>. QED
      BY <3>1, CountParent
  <2>15. CASE NodeReqListUnknown(s, n)
    BY <2>15, CountUnchanged DEF NodeReqListUnknown
  <2>16. CASE NodeReqList(s, n)
    BY <2>16, CountUnchanged DEF NodeReqList
  <2>17. CASE NodeResList(s, n)
    BY <2>17, CountUnchanged DEF NodeResList
  <2>. QED
    BY <1>1, <2>1, <2>2, <2>3, <2>4, <2>5, <2>6, <2>7, <2>8, <2>9, <2>10,
       <2>11, <2>12, <2>13, <2>14, <2>15, <2>16, <2>17 DEF Receive
<1>2. ASSUME NEW s \in Nodes, NEW n \in Nodes, Network(s, n)
      PROVE  CountInv'
  BY <1>2, CountUnchanged DEF Network, Lose, Duplicate, Reorder, Misdirect
<1>3. ASSUME NEW n \in Nodes, TimeProcess(n)
      PROVE  CountInv'
  <2>1. ASSUME NEW i \in Slots, ExpireSlot(n, i)
        PROVE  CountInv'
    <3>1. /\ connected' = [connected EXCEPT ![n] = ClearBit(connected[n], i)]
          /\ childNum' = [childNum EXCEPT ![n] = childNum[n] - 1]
      BY <2>1 DEF ExpireSlot
    <3>. QED
      BY <3>1, CountExpire
  <2>2. CASE ExpireParent(n)
    <3>1. /\ connected' = [connected EXCEPT ![n] = ClearBit(connected[n], PARENT_ID)]
          /\ childNum' = [childNum EXCEPT ![n] = childNum[n] - 1]
          /\ PARENT_ID \in Slots
      BY <2>2 DEF ExpireParent, PARENT_ID, Slots
    <3>. QED
      BY <3>1, CountExpire
  <2>3. CASE SetupTimer(n)
    BY <2>3, CountUnchanged DEF SetupTimer
  <2>4. CASE RetryTimer(n)
    BY <2>4, CountUnchanged DEF RetryTimer
  <2>5. CASE ListTimer(n)
    BY <2>5, CountUnchanged DEF ListTimer
  <2>6. CASE DepartTimer(n)
    BY <2>6, CountUnchanged DEF DepartTimer
  <2>7. CASE CacheFull(n)
    BY <2>7, CountUnchanged DEF CacheFull
  <2>8. CASE CacheDrains(n)
    BY <2>8, CountUnchanged DEF CacheDrains
  <2>. QED
    BY <1>3, <2>1, <2>2, <2>3, <2>4, <2>5, <2>6, <2>7, <2>8 DEF TimeProcess
<1>4. ASSUME NEW n \in Nodes, Start(n) \/ Crash(n)
      PROVE  CountInv'
  BY <1>4, CountUnchanged DEF Start, Crash
<1>5. ASSUME NEW k \in Nodes, NEW m \in Nodes, NEW n \in Nodes, KeepAlive(k, m, n)
      PROVE  CountInv'
  BY <1>5, CountUnchanged DEF KeepAlive
<1>6. CASE UNCHANGED vars
  BY <1>6, CountUnchanged DEF vars, linkVars
<1>. QED
  BY <1>1, <1>2, <1>3, <1>4, <1>5, <1>6 DEF Next

\* ChildCountBounded: for every set of peers, every Budget of faults and timer
\* steps and every content of stale bytes, CURRENT_CHILD_NUM never exceeds the
\* number of child bits of CONNECTED_NODES.
THEOREM ChildCount == Spec => []ChildCountBounded
<1>1. CountInv => ChildCountBounded
  BY DEF CountInv
<1>. QED
  BY <1>1, CountInit, CountNext, PTL DEF Spec

-----------------------------------------------------------------------------
(* Statuses and packets.                                                    *)

\* The constants that statuses are made of.
LEMMA Values ==
    /\ 0 \in Ids /\ 0 \in 0..(LayerSpace - 1)
    /\ NoAddr \in Addrs /\ Nodes \subseteq Addrs /\ Origin \in Nodes
    /\ ZeroStatus \in Status /\ OriginStatus \in Status
BY SpaceAssumption
   DEF Ids, Addrs, Nodes, ZeroStatus, OriginStatus, Status, ORIGIN_ID

\* A status is what its four fields are.
LEMMA StatusFields ==
    ASSUME NEW id \in Ids, NEW ip \in Addrs, NEW p \in Addrs,
           NEW layer \in 0..(LayerSpace - 1)
    PROVE  [id |-> id, ip |-> ip, p |-> p, layer |-> layer] \in Status
BY DEF Status

\* The fields of a status, and the status with one of them replaced.
LEMMA StatusParts ==
    ASSUME NEW st \in Status
    PROVE  /\ st.id \in Ids /\ st.ip \in Addrs /\ st.p \in Addrs
           /\ st.layer \in 0..(LayerSpace - 1)
           /\ \A id \in Ids : [st EXCEPT !.id = id] \in Status
           /\ \A ip \in Addrs : [st EXCEPT !.ip = ip] \in Status
           /\ \A p \in Addrs : [st EXCEPT !.p = p] \in Status
           /\ \A l \in 0..(LayerSpace - 1) : [st EXCEPT !.layer = l] \in Status
BY DEF Status

\* Layers and ids wrap around.
LEMMA Wraps ==
    /\ \A l \in 0..(LayerSpace - 1) : (l + 1) % LayerSpace \in 0..(LayerSpace - 1)
    /\ \A i \in Ids : (i + 1) % IdSpace \in Ids
BY SpaceAssumption DEF Ids

\* A message with a body its handler can read is a packet.
LEMMA MsgType ==
    ASSUME NEW type \in Types, NEW body \in Seq(Status),
           type \in Addressed => body # <<>>
    PROVE  Msg(type, body) \in Packet /\ <<Msg(type, body)>> \in Seq(Packet)
BY DEF Msg, Packet

\* One status makes a body for any packet.
LEMMA OneRecord ==
    ASSUME NEW type \in Types, NEW st \in Status
    PROVE  Msg(type, <<st>>) \in Packet /\ <<Msg(type, <<st>>)>> \in Seq(Packet)
<1>1. <<st>> \in Seq(Status) /\ <<st>> # <<>>
  OBVIOUS
<1>. QED
  BY <1>1, MsgType

\* What To puts on the wire are packets.
LEMMA ToType ==
    ASSUME NEW a, NEW msgs \in Seq(Packet)
    PROVE  To(a, msgs) \in [Nodes -> Seq(Packet)]
BY DEF To

\* Nothing on the wire.
LEMMA SilenceType == Silence \in [Nodes -> Seq(Packet)]
BY DEF Silence

\* A handler that takes one packet and sends others.
LEMMA ReplyType ==
    ASSUME TypeOK, NEW s \in Nodes, NEW n \in Nodes, net[s][n] # <<>>,
           NEW out \in [Nodes -> Seq(Packet)], Reply(s, n, out)
    PROVE  net' \in [Nodes -> [Nodes -> Seq(Packet)]]
<1>1. \A a, b \in Nodes : net[a][b] \in Seq(Packet)
  BY DEF TypeOK
<1>2. Tail(net[s][n]) \in Seq(Packet)
  BY <1>1
<1>3. \A a, b \in Nodes :
        (IF a = s /\ b = n THEN Tail(net[a][b]) ELSE net[a][b])
          \o (IF a = n THEN out[b] ELSE <<>>) \in Seq(Packet)
  BY <1>1, <1>2
<1>. QED
  BY <1>3 DEF Reply

\* A branch of the TIME thread that sends.
LEMMA SendType ==
    ASSUME TypeOK, NEW n \in Nodes, NEW out \in [Nodes -> Seq(Packet)],
           Send(n, out)
    PROVE  net' \in [Nodes -> [Nodes -> Seq(Packet)]]
<1>1. \A a, b \in Nodes : net[a][b] \in Seq(Packet)
  BY DEF TypeOK
<1>2. \A m \in Nodes : net[n][m] \o out[m] \in Seq(Packet)
  BY <1>1
<1>3. [m \in Nodes |-> net[n][m] \o out[m]] \in [Nodes -> Seq(Packet)]
  BY <1>2
<1>. QED
  BY <1>3 DEF Send, TypeOK

\* What a handler reads.
LEMMA BodyType ==
    ASSUME TypeOK, NEW s \in Nodes, NEW n \in Nodes, NEW type \in Types,
           Arrived(s, n, type)
    PROVE  /\ net[s][n] # <<>>
           /\ Body(s, n) \in Seq(Status)
           /\ type \in Addressed => Body(s, n)[1] \in Status
<1>1. net[s][n] \in Seq(Packet) /\ net[s][n] # <<>>
  BY DEF TypeOK, Arrived
<1>2. Head(net[s][n]) \in Packet /\ Head(net[s][n]).type = type
  BY <1>1 DEF Arrived
<1>3. Body(s, n) \in Seq(Status) /\ (type \in Addressed => Body(s, n) # <<>>)
  BY <1>2 DEF Packet, Body
<1>4. \A b \in Seq(Status) : b # <<>> => b[1] \in Status
  OBVIOUS
<1>. QED
  BY <1>1, <1>3, <1>4

\* The statuses and the list of a node.
LEMMA NodeParts ==
    ASSUME TypeOK, NEW n \in Nodes
    PROVE  /\ \A i \in Slots : status[n][i] \in Status
           /\ My(n) \in Status /\ status[n][PARENT_ID] \in Status
           /\ nodesList[n] \in Seq(Status) /\ nodesList[n] # <<>>
           /\ exceptList[n] \subseteq Ids
           /\ childNum[n] \in Int
BY DEF TypeOK, My, MY_ID, PARENT_ID, Slots

\* GtoPIP is an address.
LEMMA GtoPIPType ==
    ASSUME TypeOK, NEW n \in Nodes, NEW st \in Status
    PROVE  GtoPIP(n, st) \in Addrs
BY StatusParts DEF GtoPIP

\* The first record of a packet, or stale bytes.
LEMMA RecordAtType ==
    ASSUME NEW body \in Seq(Status), NEW k \in Nat \ {0}
    PROVE  RecordAt(body, k) \subseteq Status
BY StaleAssumption DEF RecordAt

\* A slot of NODES_STATUS, or what lies beyond the array.
LEMMA SlotRecordType ==
    ASSUME TypeOK, NEW n \in Nodes, NEW i
    PROVE  SlotRecord(n, i) \subseteq Status
BY StaleAssumption, NodeParts DEF SlotRecord

\* A zeroed buffer holds statuses throughout.
LEMMA RecordsType ==
    ASSUME NEW recs \in Seq(Status), NEW num \in Int, num >= 0
    PROVE  Records(recs, num) \in Seq(Status)
<1>1. \A k \in 1..num : (IF k <= Len(recs) THEN recs[k] ELSE ZeroStatus) \in Status
  BY Values
<1>. QED
  BY <1>1 DEF Records

-----------------------------------------------------------------------------
(* The senders.                                                             *)

\* The connected slots but one.
LEMMA KeptType ==
    ASSUME TypeOK, NEW n \in Nodes, NEW i \in Slots, NEW skip
    PROVE  Kept(n, i, skip) \in Seq(Status)
BY NodeParts DEF Kept

\* All three of them.
LEMMA NeighboursType ==
    ASSUME TypeOK, NEW n \in Nodes, NEW skip
    PROVE  Neighbours(n, skip) \in Seq(Status)
<1>1. /\ Kept(n, 0, skip) \in Seq(Status)
      /\ Kept(n, 1, skip) \in Seq(Status)
      /\ Kept(n, 2, skip) \in Seq(Status)
  BY KeptType DEF Slots
<1>. QED
  BY <1>1 DEF Neighbours

\* SendSetup.
LEMMA SendSetupType ==
    ASSUME TypeOK, NEW n \in Nodes
    PROVE  <<SendSetup(n)>> \in Seq(Packet)
<1>1. My(n) \in Status
  BY NodeParts
<1>2. [ZeroStatus EXCEPT !.p = My(n).p] \in Status
  BY <1>1, StatusParts, Values
<1>3. [My(n) EXCEPT !.layer = 0] \in Status
  BY <1>1, StatusParts, Values
<1>. QED
  BY <1>2, <1>3, OneRecord DEF SendSetup, Types

\* SendInitialStatus, when its length does not wrap.
LEMMA SendInitialStatusType ==
    ASSUME TypeOK, NEW n \in Nodes, NEW i, NEW child \in Status,
           InitialStatusNum(n) >= 0
    PROVE  <<SendInitialStatus(n, i, child)>> \in Seq(Packet)
<1>1. My(n) \in Status /\ Neighbours(n, i) \in Seq(Status)
  BY NodeParts, NeighboursType
<1>2. <<child, My(n)>> \o Neighbours(n, i) \in Seq(Status)
  BY <1>1
<1>3. InitialStatusNum(n) \in Int
  BY NodeParts DEF InitialStatusNum
<1>4. Records(<<child, My(n)>> \o Neighbours(n, i), InitialStatusNum(n))
        \in Seq(Status)
  BY <1>2, <1>3, RecordsType
<1>. QED
  BY <1>4, MsgType DEF SendInitialStatus, Types, Addressed

\* SendAdvertise, when its length does not wrap.
LEMMA SendAdvertiseType ==
    ASSUME TypeOK, NEW n \in Nodes, NEW i, NEW ad \in Status,
           AdvertiseNum(n) >= 0
    PROVE  <<SendAdvertise(n, i, ad)>> \in Seq(Packet)
<1>1. My(n) \in Status /\ Neighbours(n, i) \in Seq(Status)
  BY NodeParts, NeighboursType
<1>2. (IF i = MY_ID THEN <<>> ELSE <<My(n)>>) \in Seq(Status)
  BY <1>1
<1>3. <<ad>> \o (IF i = MY_ID THEN <<>> ELSE <<My(n)>>) \o Neighbours(n, i)
        \in Seq(Status)
  BY <1>1, <1>2
<1>4. AdvertiseNum(n) \in Int
  BY NodeParts DEF AdvertiseNum
<1>5. Records(<<ad>> \o (IF i = MY_ID THEN <<>> ELSE <<My(n)>>)
                \o Neighbours(n, i), AdvertiseNum(n)) \in Seq(Status)
  BY <1>3, <1>4, RecordsType
<1>. QED
  BY <1>5, MsgType DEF SendAdvertise, Types, Addressed

\* The list without some entries.
LEMMA ListedWithoutType ==
    ASSUME TypeOK, NEW n \in Nodes, NEW id
    PROVE  ListedWithout(n, id) \in Seq(Status)
<1> DEFINE F == {k \in 1..Len(nodesList[n]) : nodesList[n][k].id # id}
<1>1. nodesList[n] \in Seq(Status)
  BY NodeParts
<1>2. F \in SUBSET (1..Len(nodesList[n]))
  OBVIOUS
<1>. QED
  BY <1>1, <1>2, Picked DEF ListedWithout

\* SendResList, when its length does not wrap.
LEMMA SendResListType ==
    ASSUME TypeOK, NEW n \in Nodes, NEW i
    PROVE  /\ ResListNum(n, i) \in Int
           /\ ResListNum(n, i) >= 0 => <<SendResList(n, i)>> \in Seq(Packet)
<1> DEFINE rest == ListedWithout(n, status[n][i].id)
<1>1. rest \in Seq(Status)
  BY ListedWithoutType
<1>2. /\ Kept(n, 0, i) \in Seq(Status) /\ Kept(n, 1, i) \in Seq(Status)
  BY KeptType DEF Slots
<1>3. ResListNum(n, i) \in Int
  BY <1>1, NodeParts DEF ResListNum
<1>4. Kept(n, 0, i) \o Kept(n, 1, i) \o rest \in Seq(Status)
  BY <1>1, <1>2
<1>5. ASSUME ResListNum(n, i) >= 0
      PROVE  Records(Kept(n, 0, i) \o Kept(n, 1, i) \o rest, ResListNum(n, i))
               \in Seq(Status)
  BY <1>3, <1>4, <1>5, RecordsType
<1>. QED
  BY <1>3, <1>5, MsgType DEF SendResList, Types, Addressed

\* SendID, and the id it counts up to.
LEMMA SendIDType ==
    ASSUME TypeOK, NEW s \in Nodes, NEW n \in Nodes
    PROVE  CurrentId(s, n) \in Ids /\ SendID(s, n) \in Seq(Packet)
<1>1. nextId \in Ids
  BY DEF TypeOK
<1>2. CurrentId(s, n) \in Ids
  BY <1>1, Wraps DEF CurrentId
<1>3. OnlyId(CurrentId(s, n)) \in Status
  BY <1>2, Values, StatusParts DEF OnlyId
<1>4. [OnlyId(CurrentId(s, n)) EXCEPT !.ip = s] \in Status
  BY <1>3, Values, StatusParts
<1>. QED
  BY <1>2, <1>4, OneRecord DEF SendID, Types

-----------------------------------------------------------------------------
(* What the steps assign.                                                   *)

\* One status replaced.
LEMMA StatusSet ==
    ASSUME TypeOK, NEW n \in Nodes, NEW i \in Slots, NEW st \in Status
    PROVE  [status EXCEPT ![n][i] = st] \in [Nodes -> [Slots -> Status]]
BY DEF TypeOK

\* My own status and the parent's replaced.
LEMMA StatusSetBoth ==
    ASSUME TypeOK, NEW n \in Nodes, NEW me \in Status, NEW parent \in Status
    PROVE  [status EXCEPT ![n] = [status[n] EXCEPT ![MY_ID] = me,
                                                   ![PARENT_ID] = parent]]
              \in [Nodes -> [Slots -> Status]]
<1> DEFINE f == [status[n] EXCEPT ![MY_ID] = me]
           g == [f EXCEPT ![PARENT_ID] = parent]
<1>1. status[n] \in [Slots -> Status] /\ status \in [Nodes -> [Slots -> Status]]
  BY DEF TypeOK
<1>2. f \in [Slots -> Status]
  BY <1>1 DEF MY_ID, Slots
<1>3. g \in [Slots -> Status]
  BY <1>2 DEF PARENT_ID, Slots
<1>4. g = [status[n] EXCEPT ![MY_ID] = me, ![PARENT_ID] = parent]
  BY <1>1
<1>. QED
  BY <1>1, <1>3, <1>4

\* A timestamp set.
LEMMA StampType ==
    ASSUME TypeOK, NEW n \in Nodes, NEW i \in Slots
    PROVE  Stamp(n, i) \in [Nodes -> SUBSET Slots]
BY DEF TypeOK, Stamp

\* One fault or timer step less.
LEMMA SpendType ==
    ASSUME TypeOK, NEW kind \in Kinds \ {"total"}, Spend(kind)
    PROVE  budget' \in [Kinds -> Nat]
<1>1. "total" \in Kinds /\ budget \in [Kinds -> Nat]
  BY DEF TypeOK, Kinds
<1>2. /\ budget[kind] - 1 \in Nat /\ budget["total"] - 1 \in Nat
      /\ budget' = [budget EXCEPT ![kind] = budget[kind] - 1,
                                  !["total"] = budget["total"] - 1]
  BY <1>1 DEF Spend
<1>. QED
  BY <1>1, <1>2

\* The process that survives, or does not.
LEMMA SurvivesType ==
    ASSUME TypeOK, NEW n \in Nodes, NEW num, Survives(n, num)
    PROVE  up' \in [Nodes -> {"off", "up", "dead"}]
BY DEF TypeOK, Survives

\* The except list after a push.
LEMMA ExceptType ==
    ASSUME TypeOK, NEW n \in Nodes, NEW id \in Ids, Except(n, id)
    PROVE  exceptList' \in [Nodes -> SUBSET Ids]
<1>1. exceptList[n] \subseteq Ids /\ My(n).id \in Ids
  BY NodeParts, StatusParts
<1>2. Excepted(n, id) \subseteq Ids
  BY <1>1 DEF Excepted, ExceptListPush
<1>. QED
  BY <1>2 DEF Except, TypeOK

\* The list after the records of a packet are stored.
LEMMA StoreType ==
    ASSUME TypeOK, NEW n \in Nodes, NEW recs \in Seq(Status)
    PROVE  /\ StoreNew(nodesList[n], recs) \in Seq(Status) \ {<<>>}
           /\ StoreUpdate(nodesList[n], recs) \in Seq(Status) \ {<<>>}
<1>1. nodesList[n] \in Seq(Status) /\ nodesList[n] # <<>>
  BY NodeParts
<1>2. Len(nodesList[n]) > 0
  BY <1>1
<1>3. /\ StoreNew(nodesList[n], recs) \in Seq(Status)
      /\ Len(StoreNew(nodesList[n], recs)) > 0
  BY <1>1, <1>2, StoreNewAppends
<1>4. /\ StoreUpdate(nodesList[n], recs) \in Seq(Status)
      /\ Len(StoreUpdate(nodesList[n], recs)) > 0
  BY <1>1, <1>3, StoreUpdateKeepsIds
<1>. QED
  BY <1>3, <1>4

\* The status of a new child.
LEMMA NewChildType ==
    ASSUME TypeOK, NEW s \in Nodes, NEW n \in Nodes, Arrived(s, n, "SETUP")
    PROVE  NewChild(s, n) \subseteq Status
<1> DEFINE m == Body(s, n)[1]
           read == IF My(n).id = ORIGIN_ID
                   THEN {[id |-> IF n = Origin THEN CurrentId(s, n) ELSE 0,
                          ip |-> s]}
                   ELSE IF m.id = 0
                        THEN {[id |-> t.id, ip |-> t.ip] : t \in Stale}
                        ELSE {[id |-> m.id, ip |-> m.ip]}
<1>1. m \in Status
  BY BodyType DEF Types, Addressed
<1>2. NextLayer(n) \in 0..(LayerSpace - 1)
  BY NodeParts, StatusParts, Wraps DEF NextLayer
<1>3. \A r \in read : r.id \in Ids /\ r.ip \in Addrs
  <2>1. CurrentId(s, n) \in Ids /\ s \in Addrs /\ 0 \in Ids
    BY SendIDType, Values
  <2>2. m.id \in Ids /\ m.ip \in Addrs /\ m.p \in Addrs
    BY <1>1, StatusParts
  <2>3. \A t \in Stale : t.id \in Ids /\ t.ip \in Addrs
    BY StaleAssumption, StatusParts
  <2>. QED
    BY <2>1, <2>2, <2>3
<1>4. m.p \in Addrs
  BY <1>1, StatusParts
<1> HIDE DEF m, read
<1>5. \A r \in read :
        [id |-> r.id, ip |-> r.ip, p |-> m.p, layer |-> NextLayer(n)] \in Status
  BY <1>2, <1>3, <1>4, StatusFields
<1>6. NewChild(s, n) =
        {[id |-> r.id, ip |-> r.ip, p |-> m.p, layer |-> NextLayer(n)] :
            r \in read}
  BY DEF NewChild, m, read
<1>. QED
  BY <1>5, <1>6

\* A child taken into a free slot.
LEMMA AddChildType ==
    ASSUME TypeOK, NEW n \in Nodes, CheckChildNum(n) # -1,
           NEW child \in Status, NEW addr \in Addrs,
           AddChild(n, CheckChildNum(n), child, addr)
    PROVE  /\ status' \in [Nodes -> [Slots -> Status]]
           /\ dst' \in [Nodes -> [0..PARENT_ID -> Addrs]]
           /\ stamped' \in [Nodes -> SUBSET Slots]
<1> DEFINE i == CheckChildNum(n)
<1>1. i \in Slots /\ i \in 0..PARENT_ID
  BY FreeSlot DEF Slots, ChildSlots, PARENT_ID
<1> HIDE DEF i
<1>2. /\ status' = [status EXCEPT ![n][i] = child]
      /\ dst' = [dst EXCEPT ![n][i] = addr]
      /\ stamped' = Stamp(n, i)
  BY DEF AddChild, i
<1>3. dst' \in [Nodes -> [0..PARENT_ID -> Addrs]]
  BY <1>1, <1>2 DEF TypeOK
<1>. QED
  BY <1>1, <1>2, <1>3, StatusSet, StampType

-----------------------------------------------------------------------------
(* Every step keeps the types.  What a step does to CONNECTED_NODES and to  *)
(* CURRENT_CHILD_NUM comes from CountNext.                                  *)

\* The two globals CountInv types.
LinkTypes == /\ connected \in [Nodes -> 0..255]
             /\ childNum \in [Nodes -> Int]

\* A SETUP that is redirected.
LEMMA RedirectTypes ==
    ASSUME TypeOK, LinkTypes', NEW s \in Nodes, NEW n \in Nodes, NEW i,
           Arrived(s, n, "SETUP"), Redirect(s, n, i)
    PROVE  TypeOK'
<1>1. PICK ad \in SlotRecord(n, i) :
         /\ Survives(n, AdvertiseNum(n))
         /\ Reply(s, n, To(s, SendID(s, n) \o
              IF AdvertiseNum(n) < 0 THEN <<>> ELSE <<SendAdvertise(n, i, ad)>>))
  BY DEF Redirect
<1>2. /\ nextId' = CurrentId(s, n)
      /\ UNCHANGED <<slotVars, linkVars, flagVars, listVars, cached, budget>>
  BY DEF Redirect
<1>3. net[s][n] # <<>> /\ CurrentId(s, n) \in Ids /\ SendID(s, n) \in Seq(Packet)
  BY BodyType, SendIDType DEF Types
<1>4. (IF AdvertiseNum(n) < 0 THEN <<>> ELSE <<SendAdvertise(n, i, ad)>>)
        \in Seq(Packet)
  <2>1. ad \in Status /\ AdvertiseNum(n) \in Int
    BY SlotRecordType, NodeParts DEF AdvertiseNum
  <2>2. AdvertiseNum(n) >= 0 => <<SendAdvertise(n, i, ad)>> \in Seq(Packet)
    BY <2>1, SendAdvertiseType
  <2>. QED
    BY <2>1, <2>2
<1>5. SendID(s, n) \o
        (IF AdvertiseNum(n) < 0 THEN <<>> ELSE <<SendAdvertise(n, i, ad)>>)
        \in Seq(Packet)
  BY <1>3, <1>4
<1>6. net' \in [Nodes -> [Nodes -> Seq(Packet)]]
  BY <1>1, <1>3, <1>5, ToType, ReplyType
<1>7. up' \in [Nodes -> {"off", "up", "dead"}]
  BY <1>1, SurvivesType
<1>. QED
  BY <1>2, <1>3, <1>6, <1>7
     DEF TypeOK, LinkTypes, slotVars, linkVars, flagVars, listVars

\* A SETUP that is granted.
LEMMA JoinTypes ==
    ASSUME TypeOK, LinkTypes', NEW s \in Nodes, NEW n \in Nodes,
           NodeSetupJoin(s, n)
    PROVE  TypeOK'
<1> DEFINE i == CheckChildNum(n)
<1>1. Arrived(s, n, "SETUP") /\ i # -1
  BY DEF NodeSetupJoin
<1>2. PICK child \in NewChild(s, n) :
         /\ AddChild(n, i, child, s)
         /\ Survives(n, InitialStatusNum(n))
         /\ Reply(s, n, To(s, SendID(s, n) \o
              IF InitialStatusNum(n) < 0 THEN <<>>
              ELSE <<SendInitialStatus(n, i, child)>>))
  BY DEF NodeSetupJoin
<1>3. /\ nextId' = CurrentId(s, n)
      /\ UNCHANGED <<flagVars, listVars, cached, budget>>
  BY DEF NodeSetupJoin
<1>4. child \in Status
  BY <1>1, NewChildType
<1>5. net[s][n] # <<>> /\ CurrentId(s, n) \in Ids /\ SendID(s, n) \in Seq(Packet)
  BY <1>1, BodyType, SendIDType DEF Types
<1>6. (IF InitialStatusNum(n) < 0 THEN <<>>
       ELSE <<SendInitialStatus(n, i, child)>>) \in Seq(Packet)
  <2>1. InitialStatusNum(n) \in Int
    BY NodeParts DEF InitialStatusNum
  <2>2. InitialStatusNum(n) >= 0 =>
          <<SendInitialStatus(n, i, child)>> \in Seq(Packet)
    BY <1>4, SendInitialStatusType
  <2>. QED
    BY <2>1, <2>2
<1>7. SendID(s, n) \o
        (IF InitialStatusNum(n) < 0 THEN <<>>
         ELSE <<SendInitialStatus(n, i, child)>>) \in Seq(Packet)
  BY <1>5, <1>6
<1>8. net' \in [Nodes -> [Nodes -> Seq(Packet)]]
  BY <1>2, <1>5, <1>7, ToType, ReplyType
<1>9. up' \in [Nodes -> {"off", "up", "dead"}]
  BY <1>2, SurvivesType
<1>10. /\ status' \in [Nodes -> [Slots -> Status]]
       /\ dst' \in [Nodes -> [0..PARENT_ID -> Addrs]]
       /\ stamped' \in [Nodes -> SUBSET Slots]
  BY <1>1, <1>2, <1>4, Values, AddChildType
<1>. QED
  BY <1>3, <1>5, <1>8, <1>9, <1>10 DEF TypeOK, LinkTypes, flagVars, listVars

\* ID, INITIAL_STATUS and ADVERTISE.
LEMMA AnswerTypes ==
    ASSUME TypeOK, LinkTypes', NEW s \in Nodes, NEW n \in Nodes,
           NodeID(s, n) \/ NodeInitialStatus(s, n) \/ NodeAdvertise(s, n)
    PROVE  TypeOK'
<1>1. CASE NodeID(s, n)
  <2> DEFINE m == Body(s, n)[1]
  <2>1. net[s][n] # <<>> /\ m \in Status
    BY <1>1, BodyType DEF NodeID, Types, Addressed
  <2>2. [My(n) EXCEPT !.id = m.id, !.ip = m.ip] \in Status
    <3>1. /\ m.id \in Ids /\ m.ip \in Addrs
          /\ [My(n) EXCEPT !.id = m.id] \in Status
      BY <2>1, NodeParts, StatusParts
    <3>2. [[My(n) EXCEPT !.id = m.id] EXCEPT !.ip = m.ip] \in Status
      BY <3>1, StatusParts
    <3>. QED
      BY <3>2, NodeParts DEF Status
  <2>3. status' \in [Nodes -> [Slots -> Status]]
    <3>1. status' = [status EXCEPT ![n][MY_ID] =
                       [My(n) EXCEPT !.id = m.id, !.ip = m.ip]]
      BY <1>1 DEF NodeID, My
    <3>. QED
      BY <2>2, <3>1, StatusSet DEF MY_ID, Slots
  <2>4. net' \in [Nodes -> [Nodes -> Seq(Packet)]]
    BY <1>1, <2>1, SilenceType, ReplyType DEF NodeID
  <2>. QED
    BY <1>1, <2>3, <2>4
       DEF NodeID, TypeOK, LinkTypes, nodeVars, flagVars, listVars, linkVars
<1>2. CASE NodeInitialStatus(s, n)
  <2>1. net[s][n] # <<>> /\ Body(s, n) \in Seq(Status)
    BY <1>2, BodyType DEF NodeInitialStatus, Types
  <2>2. PICK me \in RecordAt(Body(s, n), 1), parent \in RecordAt(Body(s, n), 2) :
           status' = [status EXCEPT ![n] = [status[n] EXCEPT
                                              ![MY_ID] = me,
                                              ![PARENT_ID] = parent]]
    BY <1>2 DEF NodeInitialStatus
  <2>3. status' \in [Nodes -> [Slots -> Status]]
    BY <2>1, <2>2, RecordAtType, StatusSetBoth
  <2>4. nodesList' \in [Nodes -> Seq(Status) \ {<<>>}]
    <3>1. SubSeq(Body(s, n), 3, Len(Body(s, n))) \in Seq(Status)
      BY <2>1
    <3>. QED
      BY <1>2, <3>1, StoreType DEF NodeInitialStatus, TypeOK
  <2>5. stamped' \in [Nodes -> SUBSET Slots]
    BY <1>2, StampType DEF NodeInitialStatus, PARENT_ID, Slots
  <2>6. net' \in [Nodes -> [Nodes -> Seq(Packet)]]
    BY <1>2, <2>1, SilenceType, ReplyType DEF NodeInitialStatus
  <2>7. isSetup' \in [Nodes -> BOOLEAN]
    BY <1>2 DEF NodeInitialStatus, TypeOK
  <2>. QED
    BY <1>2, <2>3, <2>4, <2>5, <2>6, <2>7
       DEF NodeInitialStatus, TypeOK, LinkTypes, nodeVars
<1>3. CASE NodeAdvertise(s, n)
  <2>1. net[s][n] # <<>> /\ Body(s, n) \in Seq(Status)
    BY <1>3, BodyType DEF NodeAdvertise, Types
  <2>2. PICK ad \in RecordAt(Body(s, n), 1) :
           /\ dst' = [dst EXCEPT ![n][PARENT_ID] = GtoPIP(n, ad)]
           /\ Reply(s, n, To(GtoPIP(n, ad), <<SendSetup(n)>>))
    BY <1>3 DEF NodeAdvertise
  <2>3. GtoPIP(n, ad) \in Addrs
    BY <2>1, RecordAtType, GtoPIPType
  <2>4. dst' \in [Nodes -> [0..PARENT_ID -> Addrs]]
    BY <2>2, <2>3 DEF TypeOK, PARENT_ID
  <2>5. net' \in [Nodes -> [Nodes -> Seq(Packet)]]
    BY <2>1, <2>2, SendSetupType, ToType, ReplyType
  <2>6. nodesList' \in [Nodes -> Seq(Status) \ {<<>>}]
    <3>1. SubSeq(Body(s, n), 2, Len(Body(s, n))) \in Seq(Status)
      BY <2>1
    <3>. QED
      BY <1>3, <3>1, StoreType DEF NodeAdvertise, TypeOK
  <2>. QED
    BY <1>3, <2>4, <2>5, <2>6
       DEF NodeAdvertise, TypeOK, LinkTypes, nodeVars, linkVars, flagVars
<1>. QED
  BY <1>1, <1>2, <1>3

\* SendConnect and SendUnaccept.
LEMMA ConnectTypes ==
    ASSUME TypeOK, NEW n \in Nodes
    PROVE  /\ <<SendConnect(n)>> \in Seq(Packet)
           /\ <<SendUnaccept(n)>> \in Seq(Packet)
           /\ OnlyId(My(n).id) \in Status
           /\ <<Msg("ACCEPT", <<My(n)>>)>> \in Seq(Packet)
<1>1. My(n) \in Status /\ OnlyId(My(n).id) \in Status
  BY NodeParts, StatusParts, Values DEF OnlyId
<1>. QED
  BY <1>1, OneRecord DEF SendConnect, SendUnaccept, Types

\* CONNECT, ACCEPT and UNACCEPT.
LEMMA ReconnectTypes ==
    ASSUME TypeOK, LinkTypes', NEW s \in Nodes, NEW n \in Nodes,
           \/ NodeConnectRefused(s, n) \/ NodeConnectDuplicate(s, n)
           \/ NodeConnectAccepted(s, n)
           \/ NodeAccept(s, n) \/ NodeUnaccept(s, n)
    PROVE  TypeOK'
<1>1. CASE NodeConnectRefused(s, n)
  <2>1. net[s][n] # <<>>
    BY <1>1, BodyType DEF NodeConnectRefused, Types
  <2>2. net' \in [Nodes -> [Nodes -> Seq(Packet)]]
    BY <1>1, <2>1, ConnectTypes, ToType, ReplyType DEF NodeConnectRefused
  <2>. QED
    BY <1>1, <2>2
       DEF NodeConnectRefused, TypeOK, LinkTypes, nodeVars, slotVars, linkVars,
           flagVars, listVars
<1>2. CASE NodeConnectDuplicate(s, n)
  <2>1. net[s][n] # <<>>
    BY <1>2, BodyType DEF NodeConnectDuplicate, Types
  <2>2. net' \in [Nodes -> [Nodes -> Seq(Packet)]]
    BY <1>2, <2>1, SilenceType, ReplyType DEF NodeConnectDuplicate
  <2>. QED
    BY <1>2, <2>2
       DEF NodeConnectDuplicate, TypeOK, LinkTypes, nodeVars, slotVars,
           linkVars, flagVars, listVars
<1>3. CASE NodeConnectAccepted(s, n)
  <2> DEFINE m == Body(s, n)[1]
  <2>1. net[s][n] # <<>> /\ m \in Status
    BY <1>3, BodyType DEF NodeConnectAccepted, Types, Addressed
  <2>2. m.ip \in Addrs /\ [m EXCEPT !.layer = NextLayer(n)] \in Status
    <3>1. NextLayer(n) \in 0..(LayerSpace - 1)
      BY NodeParts, StatusParts, Wraps DEF NextLayer
    <3>. QED
      BY <2>1, <3>1, StatusParts
  <2> HIDE DEF m
  <2>3. /\ CheckChildNum(n) # -1
        /\ AddChild(n, CheckChildNum(n), [m EXCEPT !.layer = NextLayer(n)], m.ip)
        /\ Reply(s, n, To(m.ip, <<Msg("ACCEPT", <<My(n)>>)>>))
    BY <1>3 DEF NodeConnectAccepted, m
  <2>4. /\ status' \in [Nodes -> [Slots -> Status]]
        /\ dst' \in [Nodes -> [0..PARENT_ID -> Addrs]]
        /\ stamped' \in [Nodes -> SUBSET Slots]
    BY <2>2, <2>3, AddChildType
  <2>5. net' \in [Nodes -> [Nodes -> Seq(Packet)]]
    BY <2>1, <2>3, ConnectTypes, ToType, ReplyType
  <2>. QED
    BY <1>3, <2>4, <2>5
       DEF NodeConnectAccepted, TypeOK, LinkTypes, nodeVars, flagVars, listVars
<1>4. CASE NodeAccept(s, n)
  <2> DEFINE parent == Body(s, n)[1]
             me == [My(n) EXCEPT !.layer = (parent.layer + 1) % LayerSpace]
  <2>1. net[s][n] # <<>> /\ parent \in Status
    BY <1>4, BodyType DEF NodeAccept, Types, Addressed
  <2>2. me \in Status
    BY <2>1, NodeParts, StatusParts, Wraps
  <2>3. status' \in [Nodes -> [Slots -> Status]]
    <3>1. status' = [status EXCEPT ![n] = [status[n] EXCEPT
                                             ![MY_ID] = me,
                                             ![PARENT_ID] = parent]]
      BY <1>4 DEF NodeAccept
    <3> HIDE DEF me, parent
    <3>. QED
      BY <2>1, <2>2, <3>1, StatusSetBoth
  <2>4. stamped' \in [Nodes -> SUBSET Slots]
    BY <1>4, StampType DEF NodeAccept, PARENT_ID, Slots
  <2>5. isRetry' \in [Nodes -> BOOLEAN] /\ exceptList' \in [Nodes -> SUBSET Ids]
    BY <1>4 DEF NodeAccept, TypeOK
  <2>6. net' \in [Nodes -> [Nodes -> Seq(Packet)]]
    BY <1>4, <2>1, SilenceType, ReplyType DEF NodeAccept
  <2>. QED
    BY <1>4, <2>3, <2>4, <2>5, <2>6 DEF NodeAccept, TypeOK, LinkTypes, nodeVars
<1>5. CASE NodeUnaccept(s, n)
  <2> DEFINE id == Body(s, n)[1].id
  <2>1. net[s][n] # <<>> /\ id \in Ids
    BY <1>5, BodyType, StatusParts DEF NodeUnaccept, Types, Addressed
  <2>2. exceptList' \in [Nodes -> SUBSET Ids]
    BY <1>5, <2>1, ExceptType DEF NodeUnaccept
  <2>3. net' \in [Nodes -> [Nodes -> Seq(Packet)]]
    BY <1>5, <2>1, ConnectTypes, ToType, ReplyType DEF NodeUnaccept
  <2>. QED
    BY <1>5, <2>2, <2>3
       DEF NodeUnaccept, TypeOK, LinkTypes, nodeVars, slotVars, linkVars,
           flagVars
<1>. QED
  BY <1>1, <1>2, <1>3, <1>4, <1>5

\* DEPART, DETACH, REQ_LIST and RES_LIST.
LEMMA LeaveTypes ==
    ASSUME TypeOK, LinkTypes', NEW s \in Nodes, NEW n \in Nodes,
           \/ NodeDepart(s, n) \/ NodeDetach(s, n)
           \/ NodeReqListUnknown(s, n) \/ NodeReqList(s, n)
           \/ NodeResList(s, n)
    PROVE  TypeOK'
<1>1. CASE NodeDepart(s, n)
  <2>1. net[s][n] # <<>>
    BY <1>1, BodyType DEF NodeDepart, Types
  <2>2. <<Msg("DETACH", <<>>)>> \in Seq(Packet)
    <3>1. "DETACH" \in Types /\ "DETACH" \notin Addressed /\ <<>> \in Seq(Status)
      BY DEF Types, Addressed
    <3>. QED
      BY <3>1, MsgType
  <2>3. net' \in [Nodes -> [Nodes -> Seq(Packet)]]
    BY <1>1, <2>1, <2>2, ToType, ReplyType DEF NodeDepart
  <2>. QED
    BY <1>1, <2>3
       DEF NodeDepart, TypeOK, LinkTypes, nodeVars, slotVars, flagVars, listVars
<1>2. CASE NodeDetach(s, n)
  <2> DEFINE prior == Candidate(nodesList[n], My(n).layer, exceptList[n])
  <2>1. net[s][n] # <<>>
    BY <1>2, BodyType DEF NodeDetach, Types
  <2>2. prior \in Status
    BY NodeParts, CandidateListed
  <2>3. [status[n][PARENT_ID] EXCEPT !.id = prior.id] \in Status
    BY <2>2, NodeParts, StatusParts
  <2> HIDE DEF prior
  <2>4. status' \in [Nodes -> [Slots -> Status]]
    <3>1. status' = [status EXCEPT ![n][PARENT_ID] =
                       [status[n][PARENT_ID] EXCEPT !.id = prior.id]]
      BY <1>2 DEF NodeDetach, prior
    <3>. QED
      BY <2>3, <3>1, StatusSet DEF PARENT_ID, Slots
  <2>5. net' \in [Nodes -> [Nodes -> Seq(Packet)]]
    BY <1>2, <2>1, ConnectTypes, ToType, ReplyType DEF NodeDetach
  <2>6. streaming' \in [Nodes -> BOOLEAN]
    BY <1>2 DEF NodeDetach, TypeOK
  <2>. QED
    BY <1>2, <2>4, <2>5, <2>6
       DEF NodeDetach, TypeOK, LinkTypes, nodeVars, listVars
<1>3. CASE NodeReqListUnknown(s, n)
  <2>1. net[s][n] # <<>>
    BY <1>3, BodyType DEF NodeReqListUnknown, Types
  <2>2. net' \in [Nodes -> [Nodes -> Seq(Packet)]]
    BY <1>3, <2>1, SilenceType, ReplyType DEF NodeReqListUnknown
  <2>. QED
    BY <1>3, <2>2
       DEF NodeReqListUnknown, TypeOK, LinkTypes, nodeVars, slotVars, linkVars,
           flagVars, listVars
<1>4. CASE NodeReqList(s, n)
  <2> DEFINE i == SlotOf(n, Body(s, n)[1].id)
  <2>1. net[s][n] # <<>>
    BY <1>4, BodyType DEF NodeReqList, Types
  <2>2. PICK a \in Target(n, i) :
           /\ Survives(n, ResListNum(n, i))
           /\ Reply(s, n, IF ResListNum(n, i) < 0 THEN Silence
                          ELSE To(a, <<SendResList(n, i)>>))
    BY <1>4 DEF NodeReqList
  <2> HIDE DEF i
  <2>3. (IF ResListNum(n, i) < 0 THEN Silence
         ELSE To(a, <<SendResList(n, i)>>)) \in [Nodes -> Seq(Packet)]
    <3>1. CASE ResListNum(n, i) < 0
      BY <3>1, SilenceType
    <3>2. CASE ~(ResListNum(n, i) < 0)
      <4>1. <<SendResList(n, i)>> \in Seq(Packet)
        BY <3>2, SendResListType
      <4>. QED
        BY <3>2, <4>1, ToType
    <3>. QED
      BY <3>1, <3>2
  <2>4. net' \in [Nodes -> [Nodes -> Seq(Packet)]]
    BY <2>1, <2>2, <2>3, ReplyType
  <2>5. up' \in [Nodes -> {"off", "up", "dead"}]
    BY <2>2, SurvivesType
  <2>. QED
    BY <1>4, <2>4, <2>5
       DEF NodeReqList, TypeOK, LinkTypes, slotVars, linkVars, flagVars, listVars
<1>5. CASE NodeResList(s, n)
  <2>1. net[s][n] # <<>> /\ Body(s, n) \in Seq(Status)
    BY <1>5, BodyType DEF NodeResList, Types
  <2>2. nodesList' \in [Nodes -> Seq(Status) \ {<<>>}]
    BY <1>5, <2>1, StoreType DEF NodeResList, TypeOK
  <2>3. net' \in [Nodes -> [Nodes -> Seq(Packet)]]
    BY <1>5, <2>1, SilenceType, ReplyType DEF NodeResList
  <2>. QED
    BY <1>5, <2>2, <2>3
       DEF NodeResList, TypeOK, LinkTypes, nodeVars, slotVars, linkVars, flagVars
<1>. QED
  BY <1>1, <1>2, <1>3, <1>4, <1>5

\* The candidate list is asked for from the parent and from every entry.
LEMMA ListTimerTypes ==
    ASSUME TypeOK, LinkTypes', NEW n \in Nodes, ListTimer(n)
    PROVE  TypeOK'
<1> DEFINE entries(m) == {k \in 1..Len(nodesList[n]) :
                             GtoPIP(n, nodesList[n][k]) = m}
           copies(m) == Cardinality(entries(m))
                          + IF dst[n][PARENT_ID] = m THEN 1 ELSE 0
           req == Msg("REQ_LIST", <<OnlyId(My(n).id)>>)
           out == [m \in Nodes |-> IF up[m] = "up" THEN [k \in 1..copies(m) |-> req]
                                   ELSE <<>>]
<1>1. Len(nodesList[n]) \in Nat
  BY NodeParts
<1>2. \A m : entries(m) \in SUBSET (1..Len(nodesList[n]))
  OBVIOUS
<1> HIDE DEF entries
<1>3. \A m : Cardinality(entries(m)) \in Nat
  BY <1>1, <1>2, PositionsFinite
<1>4. \A m : copies(m) \in Nat
  <2>1. \A c \in Nat : \A m : c + (IF dst[n][PARENT_ID] = m THEN 1 ELSE 0) \in Nat
    OBVIOUS
  <2>. QED
    BY <1>3, <2>1
<1>5. req \in Packet
  BY ConnectTypes, OneRecord DEF Types
<1> HIDE DEF copies, req
<1>6. \A m : [k \in 1..copies(m) |-> req] \in Seq(Packet)
  BY <1>4, <1>5
<1>7. out \in [Nodes -> Seq(Packet)]
  BY <1>6
<1>8. Send(n, out) /\ Spend("lists")
  BY DEF ListTimer, entries, copies, req
<1> HIDE DEF out
<1>9. net' \in [Nodes -> [Nodes -> Seq(Packet)]] /\ budget' \in [Kinds -> Nat]
  BY <1>7, <1>8, SendType, SpendType DEF Kinds
<1>. QED
  BY <1>9 DEF ListTimer, TypeOK, LinkTypes, nodeVars, slotVars, linkVars,
              flagVars, listVars

\* NodeRetry, from RetryTimer and from the expiry of the parent.
LEMMA NodeRetryTypes ==
    ASSUME TypeOK, NEW n \in Nodes, NodeRetry(n)
    PROVE  /\ isRetry' \in [Nodes -> BOOLEAN]
           /\ exceptList' \in [Nodes -> SUBSET Ids]
           /\ net' \in [Nodes -> [Nodes -> Seq(Packet)]]
<1>1. status[n][PARENT_ID].id \in Ids
  BY NodeParts, StatusParts
<1>2. exceptList' \in [Nodes -> SUBSET Ids]
  BY <1>1, ExceptType DEF NodeRetry
<1>3. net' \in [Nodes -> [Nodes -> Seq(Packet)]]
  BY ConnectTypes, ToType, SendType DEF NodeRetry
<1>. QED
  BY <1>2, <1>3 DEF NodeRetry, TypeOK

\* The branches of the TIME thread.
LEMMA TimerTypes ==
    ASSUME TypeOK, LinkTypes', NEW n \in Nodes, TimeProcess(n)
    PROVE  TypeOK'
<1>1. CASE SetupTimer(n)
  <2>1. net' \in [Nodes -> [Nodes -> Seq(Packet)]]
    BY <1>1, SendSetupType, ToType, SendType DEF SetupTimer
  <2>2. budget' \in [Kinds -> Nat]
    <3>1. CASE dst[n][PARENT_ID] = NoAddr
      BY <1>1, <3>1 DEF SetupTimer, TypeOK
    <3>2. CASE dst[n][PARENT_ID] # NoAddr
      BY <1>1, <3>2, SpendType DEF SetupTimer, Kinds
    <3>. QED
      BY <3>1, <3>2
  <2>. QED
    BY <1>1, <2>1, <2>2
       DEF SetupTimer, TypeOK, LinkTypes, nodeVars, slotVars, linkVars,
           flagVars, listVars
<1>2. ASSUME NEW i \in Slots, ExpireSlot(n, i)
      PROVE  TypeOK'
  <2>1. budget' \in [Kinds -> Nat]
    BY <1>2, SpendType DEF ExpireSlot, Kinds
  <2>. QED
    BY <1>2, <2>1
       DEF ExpireSlot, TypeOK, LinkTypes, nodeVars, slotVars, flagVars, listVars
<1>3. CASE ExpireParent(n)
  <2>1. budget' \in [Kinds -> Nat]
    BY <1>3, SpendType DEF ExpireParent, Kinds
  <2>. QED
    BY <1>3, <2>1, NodeRetryTypes
       DEF ExpireParent, TypeOK, LinkTypes, nodeVars, slotVars
<1>4. CASE RetryTimer(n)
  <2>1. budget' \in [Kinds -> Nat]
    BY <1>4, SpendType DEF RetryTimer, Kinds
  <2>. QED
    BY <1>4, <2>1, NodeRetryTypes
       DEF RetryTimer, TypeOK, LinkTypes, nodeVars, slotVars, linkVars
<1>5. CASE ListTimer(n)
  BY <1>5, ListTimerTypes
<1>6. CASE DepartTimer(n)
  <2>1. <<Msg("DEPART", <<My(n)>>)>> \in Seq(Packet)
    BY NodeParts, OneRecord DEF Types
  <2>2. net' \in [Nodes -> [Nodes -> Seq(Packet)]] /\ budget' \in [Kinds -> Nat]
    BY <1>6, <2>1, ToType, SendType, SpendType DEF DepartTimer, Kinds
  <2>. QED
    BY <1>6, <2>2
       DEF DepartTimer, TypeOK, LinkTypes, nodeVars, slotVars, linkVars,
           flagVars, listVars
<1>7. CASE CacheFull(n)
  BY <1>7 DEF CacheFull, TypeOK, LinkTypes, nodeVars, slotVars, linkVars, listVars
<1>8. CASE CacheDrains(n)
  <2>1. budget' \in [Kinds -> Nat]
    BY <1>8, SpendType DEF CacheDrains, Kinds
  <2>. QED
    BY <1>8, <2>1
       DEF CacheDrains, TypeOK, LinkTypes, nodeVars, slotVars, linkVars,
           flagVars, listVars
<1>. QED
  BY <1>1, <1>2, <1>3, <1>4, <1>5, <1>6, <1>7, <1>8 DEF TimeProcess

\* Processes that start and stop, keepalives and the network.
LEMMA OtherTypes ==
    ASSUME TypeOK, LinkTypes',
           \/ \E n \in Nodes : Start(n) \/ Crash(n)
           \/ \E s, n \in Nodes : Network(s, n)
           \/ \E k, m, n \in Nodes : KeepAlive(k, m, n)
    PROVE  TypeOK'
<1>1. ASSUME NEW n \in Nodes, Start(n)
      PROVE  TypeOK'
  <2>1. net' \in [Nodes -> [Nodes -> Seq(Packet)]]
    BY <1>1, SendSetupType, ToType, SendType DEF Start
  <2>2. up' \in [Nodes -> {"off", "up", "dead"}]
    BY <1>1 DEF Start, TypeOK
  <2>. QED
    BY <1>1, <2>1, <2>2
       DEF Start, TypeOK, LinkTypes, slotVars, linkVars, flagVars, listVars
<1>2. ASSUME NEW n \in Nodes, Crash(n)
      PROVE  TypeOK'
  <2>1. net' \in [Nodes -> [Nodes -> Seq(Packet)]]
    <3>1. \A a \in Nodes : [net[a] EXCEPT ![n] = <<>>] \in [Nodes -> Seq(Packet)]
      BY DEF TypeOK
    <3>. QED
      BY <1>2, <3>1 DEF Crash
  <2>2. up' \in [Nodes -> {"off", "up", "dead"}]
    BY <1>2 DEF Crash, TypeOK
  <2>3. budget' \in [Kinds -> Nat]
    BY <1>2, SpendType DEF Crash, Kinds
  <2>. QED
    BY <1>2, <2>1, <2>2, <2>3
       DEF Crash, TypeOK, LinkTypes, slotVars, linkVars, flagVars, listVars
<1>3. ASSUME NEW s \in Nodes, NEW n \in Nodes, Network(s, n)
      PROVE  TypeOK'
  <2>1. net[s][n] # <<>> /\ net[s][n] \in Seq(Packet)
    <3>1. net[s][n] \in Seq(Packet)
      BY DEF TypeOK
    <3>2. CASE \E m \in Nodes : Misdirect(s, n, m)
      BY <3>1, <3>2 DEF Misdirect
    <3>3. CASE Lose(s, n) \/ Duplicate(s, n) \/ Reorder(s, n)
      BY <3>1, <3>3 DEF Lose, Duplicate, Reorder
    <3>. QED
      BY <1>3, <3>2, <3>3 DEF Network
  <2>2. /\ Tail(net[s][n]) \in Seq(Packet)
        /\ Append(net[s][n], Head(net[s][n])) \in Seq(Packet)
        /\ Append(Tail(net[s][n]), Head(net[s][n])) \in Seq(Packet)
    BY <2>1
  <2>3. net' \in [Nodes -> [Nodes -> Seq(Packet)]]
    <3>1. CASE Lose(s, n) \/ Duplicate(s, n) \/ Reorder(s, n)
      <4>1. PICK q \in Seq(Packet) : net' = [net EXCEPT ![s][n] = q]
        BY <3>1, <2>2 DEF Lose, Duplicate, Reorder
      <4>. QED
        BY <4>1 DEF TypeOK
    <3>2. ASSUME NEW m \in Nodes, Misdirect(s, n, m)
          PROVE  net' \in [Nodes -> [Nodes -> Seq(Packet)]]
      <4>1. Append(net[s][m], Head(net[s][n])) \in Seq(Packet)
        <5>1. net[s][m] \in Seq(Packet) /\ Head(net[s][n]) \in Packet
          BY <2>1 DEF TypeOK
        <5>. QED
          BY <5>1
      <4>2. PICK q, r \in Seq(Packet) :
               net' = [net EXCEPT ![s][n] = q, ![s][m] = r]
        BY <2>2, <3>2, <4>1 DEF Misdirect
      <4>. QED
        BY <4>2 DEF TypeOK
    <3>. QED
      BY <1>3, <3>1, <3>2 DEF Network
  <2>5. budget' \in [Kinds -> Nat]
    <3>1. CASE UNCHANGED budget
      BY <3>1 DEF TypeOK
    <3>2. CASE Spend("loss") \/ Spend("dup") \/ Spend("reorder") \/ Spend("race")
      BY <3>2, SpendType DEF Kinds
    <3>. QED
      BY <1>3, <3>1, <3>2 DEF Network, Lose, Duplicate, Reorder, Misdirect
  <2>6. UNCHANGED <<nodeVars, slotVars, linkVars, flagVars, listVars, cached>>
    BY <1>3 DEF Network, Lose, Duplicate, Reorder, Misdirect
  <2>. QED
    BY <2>3, <2>5, <2>6
       DEF TypeOK, LinkTypes, nodeVars, slotVars, linkVars, flagVars, listVars
<1>4. ASSUME NEW k \in Nodes, NEW m \in Nodes, NEW n \in Nodes,
             KeepAlive(k, m, n)
      PROVE  TypeOK'
  <2>1. stamped' \in [Nodes -> SUBSET Slots]
    <3>1. {i \in Connected(n) : status[n][i].id = My(m).id} \subseteq Slots
      BY DEF Connected
    <3>. QED
      BY <1>4, <3>1 DEF KeepAlive, TypeOK
  <2>. QED
    BY <1>4, <2>1
       DEF KeepAlive, TypeOK, LinkTypes, nodeVars, linkVars, flagVars, listVars
<1>. QED
  BY <1>1, <1>2, <1>3, <1>4

\* What the two mains leave is well typed.
LEMMA TypeInit == Init => TypeOK
<1> SUFFICES ASSUME Init
             PROVE  TypeOK
  OBVIOUS
<1>1. status \in [Nodes -> [Slots -> Status]]
  <2>1. \A n \in Nodes : [ZeroStatus EXCEPT !.p = n] \in Status
    BY Values, StatusParts
  <2>2. [OriginStatus EXCEPT !.p = NoAddr] \in Status
    BY Values, StatusParts
  <2>3. \A n \in Nodes, i \in Slots :
          (CASE n = Origin /\ i = MY_ID -> OriginStatus
             [] n # Origin /\ i = MY_ID -> [ZeroStatus EXCEPT !.p = n]
             [] n # Origin /\ i = PARENT_ID -> [OriginStatus EXCEPT !.p = NoAddr]
             [] OTHER -> ZeroStatus) \in Status
    BY <2>1, <2>2, Values
  <2>. QED
    BY <2>3 DEF Init
<1>2. nodesList \in [Nodes -> Seq(Status) \ {<<>>}]
  <2>1. [OriginStatus EXCEPT !.p = NoAddr] \in Status /\ OriginStatus \in Status
    BY Values, StatusParts
  <2>2. \A n \in Nodes : (IF n = Origin THEN OriginStatus
                          ELSE [OriginStatus EXCEPT !.p = NoAddr]) \in Status
    BY <2>1
  <2>3. \A st \in Status : <<st>> \in Seq(Status) \ {<<>>}
    OBVIOUS
  <2>4. \A n \in Nodes : <<IF n = Origin THEN OriginStatus
                           ELSE [OriginStatus EXCEPT !.p = NoAddr]>>
                             \in Seq(Status) \ {<<>>}
    BY <2>2, <2>3
  <2>. QED
    BY <2>4 DEF Init
<1>3. dst \in [Nodes -> [0..PARENT_ID -> Addrs]]
  BY Values DEF Init
<1>4. net \in [Nodes -> [Nodes -> Seq(Packet)]]
  BY DEF Init
<1>5. budget \in [Kinds -> Nat]
  BY BudgetAssumption DEF Init
<1>6. nextId \in Ids /\ connected \in [Nodes -> 0..255]
      /\ childNum \in [Nodes -> Int]
  BY Values DEF Init
<1>7. /\ up \in [Nodes -> {"off", "up", "dead"}]
      /\ stamped \in [Nodes -> SUBSET Slots]
      /\ isSetup \in [Nodes -> BOOLEAN]
      /\ isRetry \in [Nodes -> BOOLEAN]
      /\ exceptList \in [Nodes -> SUBSET Ids]
  BY DEF Init
<1>8. /\ streaming \in [Nodes -> BOOLEAN]
      /\ cached \in [Nodes -> BOOLEAN]
  <2>1. \A n \in Nodes : (n = Origin /\ OriginWarm) \in BOOLEAN
    OBVIOUS
  <2>. QED
    BY <2>1 DEF Init
<1>. QED
  BY <1>1, <1>2, <1>3, <1>4, <1>5, <1>6, <1>7, <1>8 DEF TypeOK

\* Types and the child count together.
TypeInv == TypeOK /\ CountInv

\* Every step keeps both.
LEMMA TypeNext == TypeInv /\ [Next]_vars => TypeInv'
<1> SUFFICES ASSUME TypeInv, [Next]_vars
             PROVE  TypeInv'
  OBVIOUS
<1>1. TypeOK /\ CountInv'
  BY CountNext DEF TypeInv
<1>2. LinkTypes'
  BY <1>1 DEF LinkTypes, CountInv
<1>3. ASSUME NEW s \in Nodes, NEW n \in Nodes, Receive(s, n)
      PROVE  TypeOK'
  <2>1. CASE NodeSetupDrawn(s, n) \/ NodeSetupUncached(s, n)
             \/ NodeSetupFull(s, n)
    <3>1. Arrived(s, n, "SETUP") /\ \E i : Redirect(s, n, i)
      BY <2>1 DEF NodeSetupDrawn, NodeSetupUncached, NodeSetupFull
    <3>. QED
      BY <1>1, <1>2, <3>1, RedirectTypes
  <2>2. CASE NodeSetupJoin(s, n)
    BY <1>1, <1>2, <2>2, JoinTypes
  <2>3. CASE NodeID(s, n) \/ NodeInitialStatus(s, n) \/ NodeAdvertise(s, n)
    BY <1>1, <1>2, <2>3, AnswerTypes
  <2>4. CASE \/ NodeConnectRefused(s, n) \/ NodeConnectDuplicate(s, n)
             \/ NodeConnectAccepted(s, n)
             \/ NodeAccept(s, n) \/ NodeUnaccept(s, n)
    BY <1>1, <1>2, <2>4, ReconnectTypes
  <2>5. CASE \/ NodeDepart(s, n) \/ NodeDetach(s, n)
             \/ NodeReqListUnknown(s, n) \/ NodeReqList(s, n)
             \/ NodeResList(s, n)
    BY <1>1, <1>2, <2>5, LeaveTypes
  <2>. QED
    BY <1>3, <2>1, <2>2, <2>3, <2>4, <2>5 DEF Receive
<1>4. ASSUME NEW n \in Nodes, TimeProcess(n)
      PROVE  TypeOK'
  BY <1>1, <1>2, <1>4, TimerTypes
<1>5. ASSUME UNCHANGED vars
      PROVE  TypeOK'
  BY <1>1, <1>5 DEF vars, TypeOK
<1>6. TypeOK'
  BY <1>1, <1>2, <1>3, <1>4, <1>5, OtherTypes DEF Next
<1>. QED
  BY <1>1, <1>6 DEF TypeInv

\* TypeOK: every global of every node keeps its type, and every packet whose
\* handler reads a first record carries one.
THEOREM TypeCorrect == Spec => []TypeOK
<1>1. Init => TypeInv
  BY TypeInit, CountInit DEF TypeInv
<1>2. TypeInv => TypeOK
  BY DEF TypeInv
<1>. QED
  BY <1>1, <1>2, TypeNext, PTL DEF Spec

-----------------------------------------------------------------------------
(* The candidate lists.                                                     *)

\* A list that starts with the origin and names no node twice.
ListGood(list) == list[1].id = ORIGIN_ID /\ IdsDistinctIn(list)

\* Both store loops keep a list good.
LEMMA StoresKeepGood ==
    ASSUME NEW list \in Seq(Status), list # <<>>, ListGood(list),
           NEW recs \in Seq(Status)
    PROVE  /\ ListGood(StoreNew(list, recs))
           /\ ListGood(StoreUpdate(list, recs))
<1> DEFINE new == StoreNew(list, recs)
           upd == StoreUpdate(list, recs)
<1>1. Len(list) \in Nat /\ 1 \in 1..Len(list)
  OBVIOUS
<1>2. /\ new \in Seq(Status) /\ Len(list) <= Len(new) /\ new[1] = list[1]
  BY <1>1, StoreNewAppends
<1>3. IdsDistinctIn(new)
  BY StoreNewDistinct DEF ListGood
<1>4. /\ Len(upd) = Len(new)
      /\ \A k \in 1..Len(new) : upd[k].id = new[k].id
  BY StoreUpdateKeepsIds
<1> HIDE DEF new, upd
<1>5. Len(new) \in Nat /\ 1 \in 1..Len(new)
  BY <1>1, <1>2
<1>6. IdsDistinctIn(upd)
  BY <1>3, <1>4 DEF IdsDistinctIn
<1>7. upd[1].id = new[1].id
  BY <1>4, <1>5
<1>. QED
  BY <1>2, <1>3, <1>6, <1>7 DEF ListGood, new, upd

\* The lists of all nodes, with the types that make them sequences.
ListInv == TypeInv /\ \A n \in Nodes : ListGood(nodesList[n])

\* Both mains push the origin.
LEMMA ListInit == Init => ListInv
<1> SUFFICES ASSUME Init
             PROVE  ListInv
  OBVIOUS
<1>1. TypeInv
  BY TypeInit, CountInit DEF TypeInv
<1>2. \A n \in Nodes : ListGood(nodesList[n])
  <2>1. OriginStatus.id = ORIGIN_ID /\ [OriginStatus EXCEPT !.p = NoAddr].id = ORIGIN_ID
    BY DEF OriginStatus
  <2>2. \A n \in Nodes : \E st : nodesList[n] = <<st>> /\ st.id = ORIGIN_ID
    BY <2>1 DEF Init
  <2>3. \A st : st.id = ORIGIN_ID => ListGood(<<st>>)
    BY DEF ListGood, IdsDistinctIn
  <2>. QED
    BY <2>2, <2>3
<1>. QED
  BY <1>1, <1>2 DEF ListInv

\* Three handlers store records, nothing else touches a list.
LEMMA ListNext == ListInv /\ [Next]_vars => ListInv'
<1> SUFFICES ASSUME ListInv, [Next]_vars
             PROVE  ListInv'
  OBVIOUS
<1>1. TypeOK /\ TypeInv'
  BY TypeNext DEF ListInv, TypeInv
<1>2. ASSUME UNCHANGED nodesList
      PROVE  ListInv'
  BY <1>1, <1>2 DEF ListInv
<1>3. \A n \in Nodes : /\ nodesList[n] \in Seq(Status) /\ nodesList[n] # <<>>
                       /\ ListGood(nodesList[n])
  BY <1>1, NodeParts DEF ListInv
<1>4. ASSUME NEW n \in Nodes, NEW recs \in Seq(Status),
             \/ nodesList' = [nodesList EXCEPT ![n] = StoreNew(nodesList[n], recs)]
             \/ nodesList' = [nodesList EXCEPT ![n] = StoreUpdate(nodesList[n], recs)]
      PROVE  ListInv'
  <2>1. /\ ListGood(StoreNew(nodesList[n], recs))
        /\ ListGood(StoreUpdate(nodesList[n], recs))
    BY <1>3, StoresKeepGood
  <2>2. nodesList \in [Nodes -> Seq(Status) \ {<<>>}]
    BY <1>1 DEF TypeOK
  <2>3. \A m \in Nodes : ListGood(nodesList'[m])
    BY <1>3, <1>4, <2>1, <2>2
  <2>. QED
    BY <1>1, <2>3 DEF ListInv
<1>5. ASSUME NEW s \in Nodes, NEW n \in Nodes, Receive(s, n)
      PROVE  ListInv'
  <2>1. CASE NodeSetupDrawn(s, n) \/ NodeSetupUncached(s, n) \/ NodeSetupFull(s, n)
    BY <1>2, <2>1
       DEF NodeSetupDrawn, NodeSetupUncached, NodeSetupFull, Redirect, listVars
  <2>2. CASE NodeSetupJoin(s, n)
    BY <1>2, <2>2 DEF NodeSetupJoin, listVars
  <2>3. CASE NodeID(s, n)
    BY <1>2, <2>3 DEF NodeID, listVars
  <2>4. CASE NodeInitialStatus(s, n)
    <3>1. SubSeq(Body(s, n), 3, Len(Body(s, n))) \in Seq(Status)
      BY <1>1, <2>4, BodyType DEF NodeInitialStatus, Types
    <3>. QED
      BY <1>4, <2>4, <3>1 DEF NodeInitialStatus
  <2>5. CASE NodeAdvertise(s, n)
    <3>1. SubSeq(Body(s, n), 2, Len(Body(s, n))) \in Seq(Status)
      BY <1>1, <2>5, BodyType DEF NodeAdvertise, Types
    <3>. QED
      BY <1>4, <2>5, <3>1 DEF NodeAdvertise
  <2>6. CASE NodeConnectRefused(s, n) \/ NodeConnectDuplicate(s, n)
    BY <1>2, <2>6 DEF NodeConnectRefused, NodeConnectDuplicate, listVars
  <2>7. CASE NodeConnectAccepted(s, n)
    BY <1>2, <2>7 DEF NodeConnectAccepted, listVars
  <2>8. CASE NodeAccept(s, n)
    BY <1>2, <2>8 DEF NodeAccept
  <2>9. CASE NodeUnaccept(s, n)
    BY <1>2, <2>9 DEF NodeUnaccept
  <2>10. CASE NodeDepart(s, n)
    BY <1>2, <2>10 DEF NodeDepart, listVars
  <2>11. CASE NodeDetach(s, n)
    BY <1>2, <2>11 DEF NodeDetach, listVars
  <2>12. CASE NodeReqListUnknown(s, n) \/ NodeReqList(s, n)
    BY <1>2, <2>12 DEF NodeReqListUnknown, NodeReqList, listVars
  <2>13. CASE NodeResList(s, n)
    <3>1. Body(s, n) \in Seq(Status)
      BY <1>1, <2>13, BodyType DEF NodeResList, Types
    <3>. QED
      BY <1>4, <2>13, <3>1 DEF NodeResList
  <2>. QED
    BY <1>5, <2>1, <2>2, <2>3, <2>4, <2>5, <2>6, <2>7, <2>8, <2>9, <2>10,
       <2>11, <2>12, <2>13 DEF Receive
<1>6. ASSUME NEW n \in Nodes, TimeProcess(n)
      PROVE  ListInv'
  <2>1. CASE SetupTimer(n)
    BY <1>2, <2>1 DEF SetupTimer, listVars
  <2>2. ASSUME NEW i \in Slots, ExpireSlot(n, i)
        PROVE  ListInv'
    BY <1>2, <2>2 DEF ExpireSlot, listVars
  <2>3. CASE ExpireParent(n)
    BY <1>2, <2>3 DEF ExpireParent
  <2>4. CASE RetryTimer(n)
    BY <1>2, <2>4 DEF RetryTimer
  <2>5. CASE ListTimer(n) \/ DepartTimer(n)
    BY <1>2, <2>5 DEF ListTimer, DepartTimer, listVars
  <2>6. CASE CacheFull(n) \/ CacheDrains(n)
    BY <1>2, <2>6 DEF CacheFull, CacheDrains, listVars
  <2>. QED
    BY <1>6, <2>1, <2>2, <2>3, <2>4, <2>5, <2>6 DEF TimeProcess
<1>7. ASSUME NEW n \in Nodes, Start(n) \/ Crash(n)
      PROVE  ListInv'
  BY <1>2, <1>7 DEF Start, Crash, listVars
<1>8. ASSUME NEW s \in Nodes, NEW n \in Nodes, Network(s, n)
      PROVE  ListInv'
  BY <1>2, <1>8 DEF Network, Lose, Duplicate, Reorder, Misdirect, listVars
<1>9. ASSUME NEW k \in Nodes, NEW m \in Nodes, NEW n \in Nodes, KeepAlive(k, m, n)
      PROVE  ListInv'
  BY <1>2, <1>9 DEF KeepAlive, listVars
<1>10. ASSUME UNCHANGED vars
       PROVE  ListInv'
  BY <1>2, <1>10 DEF vars
<1>. QED
  BY <1>5, <1>6, <1>7, <1>8, <1>9, <1>10 DEF Next

\* FallbackReturns: the origin stays the first entry of every list, so the
\* loop of GetList( NODES_LIST , ORIGIN_ID ) returns at its first comparison.
THEOREM Fallback == Spec => []FallbackReturns
<1>1. ListInv => FallbackReturns
  <2> SUFFICES ASSUME ListInv, NEW n \in Nodes
               PROVE  /\ nodesList[n] # <<>>
                      /\ GetListReturns(nodesList[n], ORIGIN_ID)
    BY DEF FallbackReturns
  <2>1. TypeOK
    BY DEF ListInv, TypeInv
  <2>. QED
    BY <2>1, NodeParts DEF ListInv, ListGood, GetListReturns
<1>. QED
  BY <1>1, ListInit, ListNext, PTL DEF Spec

\* ListIdsDistinct: no sequence of packets puts a node in a list twice.
THEOREM ListsDistinct == Spec => []ListIdsDistinct
<1>1. ListInv => ListIdsDistinct
  <2> SUFFICES ASSUME ListInv, NEW n \in Nodes,
                      NEW i \in DOMAIN nodesList[n], NEW j \in DOMAIN nodesList[n],
                      nodesList[n][i].id = nodesList[n][j].id
               PROVE  i = j
    BY DEF ListIdsDistinct
  <2>1. nodesList[n] \in Seq(Status)
    BY NodeParts DEF ListInv, TypeInv
  <2>2. i \in 1..Len(nodesList[n]) /\ j \in 1..Len(nodesList[n])
    BY <2>1
  <2>. QED
    BY <2>2 DEF ListInv, ListGood, IdsDistinctIn
<1>. QED
  BY <1>1, ListInit, ListNext, PTL DEF Spec

-----------------------------------------------------------------------------
(* Queues.                                                                  *)

Elements(q) == {q[i] : i \in 1..Len(q)}

\* At most one place of q holds an element of T.
Once(q, T) == \A i, j \in 1..Len(q) : q[i] \in T /\ q[j] \in T => i = j

Without(q, T) == \A i \in 1..Len(q) : q[i] \notin T

\* The places of a concatenation.
LEMMA ConcatPlace ==
    ASSUME NEW S, NEW q \in Seq(S), NEW r \in Seq(S), NEW i \in 1..Len(q \o r)
    PROVE  \/ i \in 1..Len(q) /\ (q \o r)[i] = q[i]
           \/ /\ i \notin 1..Len(q) /\ i - Len(q) \in 1..Len(r)
              /\ (q \o r)[i] = r[i - Len(q)]
<1>1. /\ Len(q \o r) = Len(q) + Len(r) /\ Len(q) \in Nat /\ Len(r) \in Nat
      /\ \A k \in 1..Len(q) : (q \o r)[k] = q[k]
      /\ \A k \in (Len(q) + 1)..(Len(q) + Len(r)) : (q \o r)[k] = r[k - Len(q)]
  BY ConcatAt
<1>. QED
  BY <1>1

\* The places of a tail.
LEMMA TailPlace ==
    ASSUME NEW S, NEW q \in Seq(S), q # <<>>
    PROVE  /\ Tail(q) \in Seq(S) /\ Head(q) = q[1] /\ 1 \in 1..Len(q)
           /\ \A i \in 1..Len(Tail(q)) : i + 1 \in 1..Len(q) /\ Tail(q)[i] = q[i + 1]
OBVIOUS

\* What a queue holds once r is put behind it.
LEMMA ConcatElements ==
    ASSUME NEW S, NEW q \in Seq(S), NEW r \in Seq(S)
    PROVE  /\ q \o r \in Seq(S)
           /\ Elements(q \o r) \subseteq Elements(q) \cup Elements(r)
BY ConcatPlace DEF Elements

\* What a queue holds once its head is taken.
LEMMA TailElements ==
    ASSUME NEW S, NEW q \in Seq(S), q # <<>>
    PROVE  /\ Elements(Tail(q)) \subseteq Elements(q)
           /\ Head(q) \in Elements(q)
BY TailPlace DEF Elements

\* None or one element.
LEMMA FewElements ==
    /\ Elements(<<>>) = {}
    /\ \A p : Elements(<<p>>) = {p}
BY DEF Elements

\* A queue without T, in terms of its elements.
LEMMA WithoutElements ==
    ASSUME NEW q, NEW T
    PROVE  Without(q, T) <=> Elements(q) \cap T = {}
BY DEF Without, Elements

\* Two queues of which one is without T.
LEMMA OnceConcat ==
    ASSUME NEW S, NEW q \in Seq(S), NEW r \in Seq(S), NEW T,
           Once(q, T), Once(r, T), Without(q, T) \/ Without(r, T)
    PROVE  Once(q \o r, T)
<1> SUFFICES ASSUME NEW i \in 1..Len(q \o r), NEW j \in 1..Len(q \o r),
                    (q \o r)[i] \in T, (q \o r)[j] \in T
             PROVE  i = j
  BY DEF Once
<1>1. i \in 1..Len(q) => q[i] \in T
  BY ConcatPlace
<1>2. j \in 1..Len(q) => q[j] \in T
  BY ConcatPlace
<1>3. i \notin 1..Len(q) => i - Len(q) \in 1..Len(r) /\ r[i - Len(q)] \in T
  BY ConcatPlace
<1>4. j \notin 1..Len(q) => j - Len(q) \in 1..Len(r) /\ r[j - Len(q)] \in T
  BY ConcatPlace
<1>5. CASE i \in 1..Len(q) /\ j \in 1..Len(q)
  BY <1>1, <1>2, <1>5 DEF Once
<1>6. CASE i \notin 1..Len(q) /\ j \notin 1..Len(q)
  <2>1. i - Len(q) = j - Len(q)
    BY <1>3, <1>4, <1>6 DEF Once
  <2>2. i \in Int /\ j \in Int /\ Len(q) \in Int
    OBVIOUS
  <2>. QED
    BY <2>1, <2>2
<1>7. CASE (i \in 1..Len(q)) # (j \in 1..Len(q))
  BY <1>1, <1>2, <1>3, <1>4, <1>7 DEF Without
<1>. QED
  BY <1>5, <1>6, <1>7

\* A queue whose head is taken.
LEMMA OnceTail ==
    ASSUME NEW S, NEW q \in Seq(S), q # <<>>, NEW T, Once(q, T)
    PROVE  Once(Tail(q), T) /\ (Head(q) \in T => Without(Tail(q), T))
<1>1. /\ Tail(q) \in Seq(S) /\ Head(q) = q[1] /\ 1 \in 1..Len(q)
      /\ \A i \in 1..Len(Tail(q)) : i + 1 \in 1..Len(q) /\ Tail(q)[i] = q[i + 1]
  BY TailPlace
<1>2. Once(Tail(q), T)
  BY <1>1 DEF Once
<1>3. ASSUME Head(q) \in T, NEW i \in 1..Len(Tail(q)), Tail(q)[i] \in T
      PROVE  FALSE
  <2>1. i + 1 = 1
    BY <1>1, <1>3 DEF Once
  <2>. QED
    BY <2>1
<1>. QED
  BY <1>2, <1>3 DEF Without

-----------------------------------------------------------------------------
(* The network: what a step puts on it and takes from it.                   *)

Nets == [Nodes -> [Nodes -> Seq(Packet)]]
Outs == [Nodes -> Seq(Packet)]

\* The network w without the oldest packet from s to n, and w with what n
\* sends put behind.
Dropped(w, s, n) == [w EXCEPT ![s][n] = Tail(@)]
Sent(w, n, out) ==
    [a \in Nodes |-> [b \in Nodes |->
        IF a = n THEN w[a][b] \o out[b] ELSE w[a][b]]]

\* The packets under way from a to b.
Fly(w, a, b) == Elements(w[a][b])

\* F[a][b] are the packets from a to b that count as tokens of one kind: no
\* two of them are under way, or none is.
OneToken(w, F) ==
    /\ \A a, b \in Nodes : Once(w[a][b], F[a][b])
    /\ \A a, b, c, d \in Nodes :
          ~Without(w[a][b], F[a][b]) /\ ~Without(w[c][d], F[c][d])
             => a = c /\ b = d
NoToken(w, F) == \A a, b \in Nodes : Without(w[a][b], F[a][b])

\* Handlers take a packet first and send then.
LEMMA ReplySent ==
    ASSUME net \in Nets, NEW s \in Nodes, NEW n \in Nodes, net[s][n] # <<>>,
           NEW out \in Outs, Reply(s, n, out)
    PROVE  net' = Sent(Dropped(net, s, n), n, out)
<1>1. \A q \in Seq(Packet) : q \o <<>> = q
  OBVIOUS
<1>2. \A a, b \in Nodes : net[a][b] \in Seq(Packet)
  BY DEF Nets
<1>3. Tail(net[s][n]) \in Seq(Packet)
  BY <1>2, TailPlace
<1> DEFINE w == Dropped(net, s, n)
<1>4. \A a, b \in Nodes : w[a][b] = IF a = s /\ b = n THEN Tail(net[a][b]) ELSE net[a][b]
  BY DEF Dropped, Nets
<1> HIDE DEF w
<1>5. \A a, b \in Nodes : a # n => net'[a][b] = w[a][b]
  BY <1>1, <1>2, <1>3, <1>4 DEF Reply
<1>6. \A a, b \in Nodes : a = n => net'[a][b] = w[a][b] \o out[b]
  BY <1>4 DEF Reply
<1>7. net' = [a \in Nodes |-> [b \in Nodes |-> net'[a][b]]]
  BY DEF Reply
<1>. QED
  BY <1>5, <1>6, <1>7 DEF Sent, w

\* A branch of the TIME thread only sends.
LEMMA SendSent ==
    ASSUME net \in Nets, NEW n \in Nodes, NEW out \in Outs, Send(n, out)
    PROVE  net' = Sent(net, n, out)
BY DEF Nets, Send, Sent

\* Taking the oldest packet.
LEMMA AfterDropped ==
    ASSUME NEW w \in Nets, NEW s \in Nodes, NEW n \in Nodes, w[s][n] # <<>>
    PROVE  /\ Dropped(w, s, n) \in Nets
           /\ \A a, b \in Nodes : Fly(Dropped(w, s, n), a, b) \subseteq Fly(w, a, b)
           /\ Head(w[s][n]) \in Fly(w, s, n)
<1> DEFINE v == Dropped(w, s, n)
<1>1. /\ \A a, b \in Nodes : w[a][b] \in Seq(Packet)
      /\ \A a, b \in Nodes : v[a][b] = IF a = s /\ b = n THEN Tail(w[a][b]) ELSE w[a][b]
  BY DEF Dropped, Nets
<1>2. /\ Elements(Tail(w[s][n])) \subseteq Elements(w[s][n])
      /\ Head(w[s][n]) \in Elements(w[s][n]) /\ Tail(w[s][n]) \in Seq(Packet)
  BY <1>1, TailElements, TailPlace
<1>3. v \in Nets
  BY <1>2 DEF Dropped, Nets
<1> HIDE DEF v
<1>4. \A a, b \in Nodes : Fly(v, a, b) \subseteq Fly(w, a, b)
  BY <1>1, <1>2 DEF Fly
<1>. QED
  BY <1>2, <1>3, <1>4 DEF Fly, v

\* The tokens after taking the oldest packet.
LEMMA TokenDropped ==
    ASSUME NEW w \in Nets, NEW s \in Nodes, NEW n \in Nodes, w[s][n] # <<>>,
           NEW F
    PROVE  /\ NoToken(w, F) => NoToken(Dropped(w, s, n), F)
           /\ OneToken(w, F) =>
                /\ OneToken(Dropped(w, s, n), F)
                /\ Head(w[s][n]) \in F[s][n] => NoToken(Dropped(w, s, n), F)
<1> DEFINE v == Dropped(w, s, n)
<1>1. /\ \A a, b \in Nodes : w[a][b] \in Seq(Packet)
      /\ \A a, b \in Nodes : v[a][b] = IF a = s /\ b = n THEN Tail(w[a][b]) ELSE w[a][b]
  BY DEF Dropped, Nets
<1>2. \A a, b \in Nodes : Without(w[a][b], F[a][b]) => Without(v[a][b], F[a][b])
  <2>1. Elements(Tail(w[s][n])) \subseteq Elements(w[s][n])
    BY <1>1, TailElements
  <2>. QED
    BY <1>1, <2>1, WithoutElements
<1>3. NoToken(w, F) => NoToken(v, F)
  BY <1>2 DEF NoToken
<1>4. ASSUME OneToken(w, F)
      PROVE  OneToken(v, F) /\ (Head(w[s][n]) \in F[s][n] => NoToken(v, F))
  <2>1. /\ Once(Tail(w[s][n]), F[s][n])
        /\ Head(w[s][n]) \in F[s][n] => Without(Tail(w[s][n]), F[s][n])
    BY <1>1, <1>4, OnceTail DEF OneToken
  <2>2. OneToken(v, F)
    <3>1. \A a, b \in Nodes : Once(v[a][b], F[a][b])
      BY <1>1, <1>4, <2>1 DEF OneToken
    <3>. QED
      BY <1>2, <1>4, <3>1 DEF OneToken
  <2>3. ASSUME Head(w[s][n]) \in F[s][n], NEW a \in Nodes, NEW b \in Nodes
        PROVE  Without(v[a][b], F[a][b])
    <3>1. CASE a = s /\ b = n
      BY <1>1, <2>1, <2>3, <3>1
    <3>2. CASE ~(a = s /\ b = n)
      <4>1. ~Without(w[s][n], F[s][n])
        BY <1>1, <2>3, TailElements, WithoutElements
      <4>. QED
        BY <1>2, <1>4, <3>2, <4>1 DEF OneToken
    <3>. QED
      BY <3>1, <3>2
  <2>. QED
    BY <2>2, <2>3 DEF NoToken
<1>. QED
  BY <1>3, <1>4

\* Sending.
LEMMA AfterSent ==
    ASSUME NEW w \in Nets, NEW n \in Nodes, NEW out \in Outs
    PROVE  /\ Sent(w, n, out) \in Nets
           /\ \A a, b \in Nodes :
                 Fly(Sent(w, n, out), a, b)
                    \subseteq Fly(w, a, b) \cup (IF a = n THEN Elements(out[b]) ELSE {})
<1> DEFINE v == Sent(w, n, out)
<1>1. /\ \A a, b \in Nodes : w[a][b] \in Seq(Packet) /\ out[b] \in Seq(Packet)
      /\ \A a, b \in Nodes : v[a][b] = IF a = n THEN w[a][b] \o out[b] ELSE w[a][b]
  BY DEF Sent, Nets, Outs
<1>2. \A a, b \in Nodes : /\ w[a][b] \o out[b] \in Seq(Packet)
                          /\ Elements(w[a][b] \o out[b])
                               \subseteq Elements(w[a][b]) \cup Elements(out[b])
  BY <1>1, ConcatElements
<1>3. v \in Nets
  BY <1>1, <1>2 DEF Sent, Nets
<1> HIDE DEF v
<1>. QED
  BY <1>1, <1>2, <1>3 DEF Fly, v

\* The tokens after sending none.
LEMMA TokenSentNone ==
    ASSUME NEW w \in Nets, NEW n \in Nodes, NEW out \in Outs, NEW F,
           \A b \in Nodes : Without(out[b], F[n][b])
    PROVE  /\ NoToken(w, F) => NoToken(Sent(w, n, out), F)
           /\ OneToken(w, F) => OneToken(Sent(w, n, out), F)
<1> DEFINE v == Sent(w, n, out)
<1>1. /\ \A a, b \in Nodes : w[a][b] \in Seq(Packet) /\ out[b] \in Seq(Packet)
      /\ \A a, b \in Nodes : v[a][b] = IF a = n THEN w[a][b] \o out[b] ELSE w[a][b]
  BY DEF Sent, Nets, Outs
<1>2. \A a, b \in Nodes : Without(w[a][b], F[a][b]) => Without(v[a][b], F[a][b])
  <2>1. \A b \in Nodes : Elements(w[n][b] \o out[b])
                             \subseteq Elements(w[n][b]) \cup Elements(out[b])
    BY <1>1, ConcatElements
  <2>. QED
    BY <1>1, <2>1, WithoutElements
<1>3. \A a, b \in Nodes : Once(w[a][b], F[a][b]) => Once(v[a][b], F[a][b])
  <2>1. \A b \in Nodes : Once(out[b], F[n][b])
    BY DEF Once, Without
  <2>2. \A b \in Nodes : Once(w[n][b], F[n][b]) => Once(w[n][b] \o out[b], F[n][b])
    BY <1>1, <2>1, OnceConcat
  <2>. QED
    BY <1>1, <2>2
<1> HIDE DEF v
<1>. QED
  BY <1>2, <1>3 DEF NoToken, OneToken, v

\* The tokens after sending one where there was none.
LEMMA TokenSentOne ==
    ASSUME NEW w \in Nets, NEW n \in Nodes, NEW out \in Outs, NEW F,
           NoToken(w, F), NEW c \in Nodes, Once(out[c], F[n][c]),
           \A b \in Nodes \ {c} : Without(out[b], F[n][b])
    PROVE  OneToken(Sent(w, n, out), F)
<1> DEFINE v == Sent(w, n, out)
<1>1. /\ \A a, b \in Nodes : w[a][b] \in Seq(Packet) /\ out[b] \in Seq(Packet)
      /\ \A a, b \in Nodes : v[a][b] = IF a = n THEN w[a][b] \o out[b] ELSE w[a][b]
  BY DEF Sent, Nets, Outs
<1>2. \A a, b \in Nodes : ~(a = n /\ b = c) => Without(v[a][b], F[a][b])
  <2>1. \A b \in Nodes : Elements(w[n][b] \o out[b])
                             \subseteq Elements(w[n][b]) \cup Elements(out[b])
    BY <1>1, ConcatElements
  <2>2. \A a, b \in Nodes : Without(w[a][b], F[a][b])
    BY DEF NoToken
  <2>3. \A b \in Nodes \ {c} : Without(w[n][b] \o out[b], F[n][b])
    BY <2>1, <2>2, WithoutElements
  <2>. QED
    BY <1>1, <2>2, <2>3
<1>3. Once(v[n][c], F[n][c])
  <2>1. Without(w[n][c], F[n][c]) /\ Once(w[n][c], F[n][c])
    BY DEF NoToken, Without, Once
  <2>2. Once(w[n][c] \o out[c], F[n][c])
    BY <1>1, <2>1, OnceConcat
  <2>. QED
    BY <1>1, <2>2
<1>4. \A a, b \in Nodes : Once(v[a][b], F[a][b])
  BY <1>2, <1>3 DEF Once, Without
<1> HIDE DEF v
<1>. QED
  BY <1>2, <1>4 DEF OneToken, v

-----------------------------------------------------------------------------
(* What the handlers send.                                                  *)

\* The answers to SETUP that decide it.
Verdicts == {p \in Packet : p.type \in {"ADVERTISE", "INITIAL_STATUS"}}

\* A packet of NodeSetup of n to s.
SetupAnswer(s, n, p) ==
    \/ p.type = "ADVERTISE"
    \/ p.type = "ID" /\ p.body[1].ip = s /\ n = Origin
    \/ /\ p.type = "INITIAL_STATUS" /\ cached[n]
       /\ p.body # <<>> => p.body[1] \in NewChild(s, n)

\* What n sends to a when it handles h, which came from s.
Sends(s, n, h, a, msgs) ==
    \/ msgs = <<>>
    \/ /\ h.type = "SETUP" /\ a = s /\ Once(msgs, Verdicts)
       /\ \A p \in Elements(msgs) : SetupAnswer(s, n, p)
    \/ h.type = "ADVERTISE" /\ msgs = <<SendSetup(n)>> /\ a = dst'[n][PARENT_ID]
    \/ /\ h.type = "CONNECT" /\ a = h.body[1].ip
       /\ \/ msgs = <<SendUnaccept(n)>>
          \/ msgs = <<Msg("ACCEPT", <<My(n)>>)>>
    \/ h.type \in {"UNACCEPT", "DETACH"} /\ msgs = <<SendConnect(n)>>
    \/ /\ h.type = "DEPART" /\ a = GtoPIP(n, h.body[1])
       /\ msgs = <<Msg("DETACH", <<>>)>>
    \/ /\ h.type = "REQ_LIST"
       /\ \A p \in Elements(msgs) : p.type = "RES_LIST"

\* Sending nothing is sending it to nobody.
LEMMA SilenceTo == Silence = To(NoAddr, <<>>)
BY DEF Silence, To

\* SendID, alone or with the answer behind it.
LEMMA IdAndAnswer ==
    ASSUME TypeOK, NEW s \in Nodes, NEW n \in Nodes, NEW msgs \in Seq(Packet),
           Once(msgs, Verdicts), \A p \in Elements(msgs) : SetupAnswer(s, n, p)
    PROVE  /\ SendID(s, n) \o msgs \in Seq(Packet)
           /\ Once(SendID(s, n) \o msgs, Verdicts)
           /\ \A p \in Elements(SendID(s, n) \o msgs) : SetupAnswer(s, n, p)
<1> DEFINE id == [OnlyId(CurrentId(s, n)) EXCEPT !.ip = s]
<1>1. SendID(s, n) \in Seq(Packet)
  BY SendIDType
<1>2. SendID(s, n) = <<>> \/ (n = Origin /\ SendID(s, n) = <<Msg("ID", <<id>>)>>)
  BY DEF SendID, Numbers
<1>3. id.ip = s
  BY DEF OnlyId, ZeroStatus
<1> HIDE DEF id
<1>4. Msg("ID", <<id>>).type = "ID" /\ Msg("ID", <<id>>).body[1].ip = s
  BY <1>3 DEF Msg
<1>5. \A p \in Elements(SendID(s, n)) : SetupAnswer(s, n, p) /\ p \notin Verdicts
  BY <1>2, <1>4, FewElements DEF SetupAnswer, Verdicts
<1>6. Without(SendID(s, n), Verdicts) /\ Once(SendID(s, n), Verdicts)
  BY <1>5 DEF Without, Elements, Once
<1>. QED
  BY <1>1, <1>5, <1>6, ConcatElements, OnceConcat

\* NodeSetup that redirects.
LEMMA RedirectSends ==
    ASSUME TypeOK, NEW s \in Nodes, NEW n \in Nodes, NEW i,
           Arrived(s, n, "SETUP"), Redirect(s, n, i)
    PROVE  \E msgs \in Seq(Packet) :
              /\ Reply(s, n, To(s, msgs)) /\ Once(msgs, Verdicts)
              /\ \A p \in Elements(msgs) : SetupAnswer(s, n, p)
<1>1. PICK ad \in SlotRecord(n, i) :
         Reply(s, n, To(s, SendID(s, n) \o
            IF AdvertiseNum(n) < 0 THEN <<>> ELSE <<SendAdvertise(n, i, ad)>>))
  BY DEF Redirect
<1> DEFINE msgs == IF AdvertiseNum(n) < 0 THEN <<>> ELSE <<SendAdvertise(n, i, ad)>>
<1>2. ad \in Status /\ AdvertiseNum(n) \in Int
  BY SlotRecordType, NodeParts DEF AdvertiseNum
<1>3. msgs \in Seq(Packet)
  BY <1>2, SendAdvertiseType
<1>4. SendAdvertise(n, i, ad).type = "ADVERTISE"
  BY DEF SendAdvertise, Msg
<1>5. Once(msgs, Verdicts) /\ \A p \in Elements(msgs) : SetupAnswer(s, n, p)
  BY <1>4, FewElements DEF Once, SetupAnswer
<1> HIDE DEF msgs
<1>. QED
  BY <1>1, <1>3, <1>5, IdAndAnswer DEF msgs

\* NodeSetup that takes the sender.
LEMMA JoinSends ==
    ASSUME TypeOK, NEW s \in Nodes, NEW n \in Nodes, NodeSetupJoin(s, n)
    PROVE  \E child \in NewChild(s, n) : \E msgs \in Seq(Packet) :
              /\ AddChild(n, CheckChildNum(n), child, s)
              /\ Reply(s, n, To(s, msgs)) /\ Once(msgs, Verdicts)
              /\ \A p \in Elements(msgs) : SetupAnswer(s, n, p)
<1> DEFINE i == CheckChildNum(n)
<1>1. PICK child \in NewChild(s, n) :
         /\ AddChild(n, i, child, s)
         /\ Reply(s, n, To(s, SendID(s, n) \o
              IF InitialStatusNum(n) < 0 THEN <<>>
              ELSE <<SendInitialStatus(n, i, child)>>))
  BY DEF NodeSetupJoin
<1>2. child \in Status
  BY <1>1, NewChildType DEF NodeSetupJoin
<1> DEFINE recs == <<child, My(n)>> \o Neighbours(n, i)
           num == InitialStatusNum(n)
           msgs == IF num < 0 THEN <<>> ELSE <<SendInitialStatus(n, i, child)>>
<1>3. num \in Int
  BY NodeParts DEF InitialStatusNum
<1>4. msgs \in Seq(Packet)
  BY <1>2, <1>3, SendInitialStatusType
<1>5. recs[1] = child /\ 1 <= Len(recs)
  BY <1>2, NodeParts, NeighboursType
<1>6. Records(recs, num) # <<>> => Records(recs, num)[1] = child
  BY <1>3, <1>5 DEF Records
<1>7. SendInitialStatus(n, i, child) = Msg("INITIAL_STATUS", Records(recs, num))
  BY DEF SendInitialStatus
<1>8. SetupAnswer(s, n, SendInitialStatus(n, i, child))
  BY <1>1, <1>6, <1>7 DEF SetupAnswer, Msg, NodeSetupJoin, Ready
<1>9. Once(msgs, Verdicts) /\ \A p \in Elements(msgs) : SetupAnswer(s, n, p)
  BY <1>8, FewElements DEF Once
<1> HIDE DEF msgs, recs, num
<1>. QED
  BY <1>1, <1>4, <1>9, IdAndAnswer DEF msgs, num

\* Every handler takes the oldest packet and sends to one node at most.
LEMMA HandlerSends ==
    ASSUME TypeOK, NEW s \in Nodes, NEW n \in Nodes, Receive(s, n)
    PROVE  /\ up[n] = "up" /\ net[s][n] # <<>>
           /\ \E a \in Addrs : \E msgs \in Seq(Packet) :
                 /\ Reply(s, n, To(a, msgs))
                 /\ Sends(s, n, Head(net[s][n]), a, msgs)
<1> DEFINE h == Head(net[s][n])
           Goal == \E a \in Addrs : \E msgs \in Seq(Packet) :
                      Reply(s, n, To(a, msgs)) /\ Sends(s, n, h, a, msgs)
<1>1. ASSUME NEW type, Arrived(s, n, type)
      PROVE  up[n] = "up" /\ net[s][n] # <<>> /\ h.type = type
  BY <1>1 DEF Arrived
<1>2. ASSUME Reply(s, n, Silence)
      PROVE  Goal
  <2>1. NoAddr \in Addrs /\ <<>> \in Seq(Packet)
    BY DEF Addrs
  <2>. QED
    BY <1>2, <2>1, SilenceTo DEF Sends
<1>3. s \in Addrs
  BY DEF Addrs
<1>4. ASSUME NEW i, Arrived(s, n, "SETUP"), Redirect(s, n, i)
      PROVE  Goal
  <2>1. PICK msgs \in Seq(Packet) :
              /\ Reply(s, n, To(s, msgs)) /\ Once(msgs, Verdicts)
              /\ \A p \in Elements(msgs) : SetupAnswer(s, n, p)
    BY <1>4, RedirectSends
  <2>2. Sends(s, n, h, s, msgs)
    BY <1>1, <1>4, <2>1 DEF Sends
  <2>. QED
    BY <1>3, <2>1, <2>2
<1>5. CASE NodeSetupDrawn(s, n)
  <2>1. PICK i : Arrived(s, n, "SETUP") /\ Redirect(s, n, i)
    BY <1>5 DEF NodeSetupDrawn
  <2>. QED
    BY <1>1, <1>4, <2>1
<1>6. CASE NodeSetupUncached(s, n)
  BY <1>1, <1>4, <1>6 DEF NodeSetupUncached
<1>7. CASE NodeSetupFull(s, n)
  <2>1. PICK i : Arrived(s, n, "SETUP") /\ Redirect(s, n, i)
    BY <1>7 DEF NodeSetupFull
  <2>. QED
    BY <1>1, <1>4, <2>1
<1>8. CASE NodeSetupJoin(s, n)
  <2>1. PICK msgs \in Seq(Packet) :
              /\ Reply(s, n, To(s, msgs)) /\ Once(msgs, Verdicts)
              /\ \A p \in Elements(msgs) : SetupAnswer(s, n, p)
    BY <1>8, JoinSends
  <2>2. Arrived(s, n, "SETUP")
    BY <1>8 DEF NodeSetupJoin
  <2>3. Sends(s, n, h, s, msgs)
    BY <1>1, <2>1, <2>2 DEF Sends
  <2>. QED
    BY <1>1, <1>3, <2>1, <2>2, <2>3
<1>9. CASE NodeID(s, n)
  BY <1>1, <1>2, <1>9 DEF NodeID
<1>10. CASE NodeInitialStatus(s, n)
  BY <1>1, <1>2, <1>10 DEF NodeInitialStatus
<1>11. CASE NodeAdvertise(s, n)
  <2>1. Arrived(s, n, "ADVERTISE")
    BY <1>11 DEF NodeAdvertise
  <2>2. PICK ad \in RecordAt(Body(s, n), 1) :
              /\ dst' = [dst EXCEPT ![n][PARENT_ID] = GtoPIP(n, ad)]
              /\ Reply(s, n, To(GtoPIP(n, ad), <<SendSetup(n)>>))
    BY <1>11 DEF NodeAdvertise
  <2>3. ad \in Status
    BY <2>1, BodyType, RecordAtType DEF Types
  <2>4. GtoPIP(n, ad) \in Addrs /\ <<SendSetup(n)>> \in Seq(Packet)
    BY <2>3, GtoPIPType, SendSetupType
  <2>5. dst'[n][PARENT_ID] = GtoPIP(n, ad)
    <3>1. dst[n] \in [0..PARENT_ID -> Addrs] /\ dst \in [Nodes -> [0..PARENT_ID -> Addrs]]
          /\ PARENT_ID \in 0..PARENT_ID
      BY DEF TypeOK, PARENT_ID
    <3>. QED
      BY <2>2, <3>1
  <2>6. Sends(s, n, h, GtoPIP(n, ad), <<SendSetup(n)>>)
    BY <1>1, <2>1, <2>5 DEF Sends
  <2>. QED
    BY <1>1, <2>1, <2>2, <2>4, <2>6
<1>12. CASE NodeConnectRefused(s, n)
  <2>1. Arrived(s, n, "CONNECT")
        /\ Reply(s, n, To(Body(s, n)[1].ip, <<SendUnaccept(n)>>))
    BY <1>12 DEF NodeConnectRefused
  <2>2. Body(s, n)[1].ip \in Addrs /\ <<SendUnaccept(n)>> \in Seq(Packet)
    BY <2>1, BodyType, StatusParts, ConnectTypes DEF Types, Addressed
  <2>3. Sends(s, n, h, Body(s, n)[1].ip, <<SendUnaccept(n)>>)
    BY <1>1, <2>1 DEF Sends, Body
  <2>. QED
    BY <1>1, <2>1, <2>2, <2>3
<1>13. CASE NodeConnectDuplicate(s, n)
  BY <1>1, <1>2, <1>13 DEF NodeConnectDuplicate
<1>14. CASE NodeConnectAccepted(s, n)
  <2>1. Arrived(s, n, "CONNECT")
        /\ Reply(s, n, To(Body(s, n)[1].ip, <<Msg("ACCEPT", <<My(n)>>)>>))
    BY <1>14 DEF NodeConnectAccepted
  <2>2. Body(s, n)[1].ip \in Addrs /\ <<Msg("ACCEPT", <<My(n)>>)>> \in Seq(Packet)
    BY <2>1, BodyType, StatusParts, ConnectTypes DEF Types, Addressed
  <2>3. Sends(s, n, h, Body(s, n)[1].ip, <<Msg("ACCEPT", <<My(n)>>)>>)
    BY <1>1, <2>1 DEF Sends, Body
  <2>. QED
    BY <1>1, <2>1, <2>2, <2>3
<1>15. CASE NodeAccept(s, n)
  BY <1>1, <1>2, <1>15 DEF NodeAccept
<1>16. CASE NodeUnaccept(s, n)
  <2> DEFINE c == NextCandidate(n, Body(s, n)[1].id)
  <2>1. Arrived(s, n, "UNACCEPT") /\ Reply(s, n, To(GtoPIP(n, c), <<SendConnect(n)>>))
    BY <1>16 DEF NodeUnaccept
  <2>2. c \in Status
    BY NodeParts, CandidateListed DEF NextCandidate
  <2> HIDE DEF c
  <2>3. GtoPIP(n, c) \in Addrs /\ <<SendConnect(n)>> \in Seq(Packet)
    BY <2>2, GtoPIPType, ConnectTypes
  <2>4. Sends(s, n, h, GtoPIP(n, c), <<SendConnect(n)>>)
    BY <1>1, <2>1 DEF Sends
  <2>. QED
    BY <1>1, <2>1, <2>3, <2>4
<1>17. CASE NodeDepart(s, n)
  <2> DEFINE a == GtoPIP(n, Body(s, n)[1])
  <2>1. Arrived(s, n, "DEPART") /\ Reply(s, n, To(a, <<Msg("DETACH", <<>>)>>))
    BY <1>17 DEF NodeDepart
  <2>2. a \in Addrs
    BY <2>1, BodyType, GtoPIPType DEF Types, Addressed
  <2>3. <<Msg("DETACH", <<>>)>> \in Seq(Packet)
    <3>1. "DETACH" \in Types /\ "DETACH" \notin Addressed /\ <<>> \in Seq(Status)
      BY DEF Types, Addressed
    <3>. QED
      BY <3>1, MsgType
  <2>4. Sends(s, n, h, a, <<Msg("DETACH", <<>>)>>)
    BY <1>1, <2>1 DEF Sends, Body
  <2>. QED
    BY <1>1, <2>1, <2>2, <2>3, <2>4
<1>18. CASE NodeDetach(s, n)
  <2> DEFINE c == Candidate(nodesList[n], My(n).layer, exceptList[n])
  <2>1. Arrived(s, n, "DETACH") /\ Reply(s, n, To(GtoPIP(n, c), <<SendConnect(n)>>))
    BY <1>18 DEF NodeDetach
  <2>2. c \in Status
    BY NodeParts, CandidateListed
  <2> HIDE DEF c
  <2>3. GtoPIP(n, c) \in Addrs /\ <<SendConnect(n)>> \in Seq(Packet)
    BY <2>2, GtoPIPType, ConnectTypes
  <2>4. Sends(s, n, h, GtoPIP(n, c), <<SendConnect(n)>>)
    BY <1>1, <2>1 DEF Sends
  <2>. QED
    BY <1>1, <2>1, <2>3, <2>4
<1>19. CASE NodeReqListUnknown(s, n)
  BY <1>1, <1>2, <1>19 DEF NodeReqListUnknown
<1>20. CASE NodeReqList(s, n)
  <2> DEFINE i == SlotOf(n, Body(s, n)[1].id)
  <2>1. Arrived(s, n, "REQ_LIST")
    BY <1>20 DEF NodeReqList
  <2>2. PICK a \in Target(n, i) :
              Reply(s, n, IF ResListNum(n, i) < 0 THEN Silence
                          ELSE To(a, <<SendResList(n, i)>>))
    BY <1>20 DEF NodeReqList
  <2>3. CASE ResListNum(n, i) < 0
    BY <1>1, <1>2, <2>1, <2>2, <2>3
  <2>4. CASE ~(ResListNum(n, i) < 0)
    <3>1. <<SendResList(n, i)>> \in Seq(Packet)
      BY <2>4, SendResListType
    <3>2. SendResList(n, i).type = "RES_LIST"
      BY DEF SendResList, Msg
    <3>3. a \in Addrs
      <4>1. i \in Connected(n) \/ i = -1
        BY DEF SlotOf
      <4>2. i # -1
        BY <1>20 DEF NodeReqList
      <4>3. i \in Slots
        BY <4>1, <4>2 DEF Connected
      <4>4. a \in Target(n, i)
        BY <2>2
      <4>5. \A j \in 0..PARENT_ID : dst[n][j] \in Addrs
        BY DEF TypeOK, PARENT_ID
      <4> HIDE DEF i
      <4>6. i # MY_ID => i \in 0..PARENT_ID
        BY <4>3 DEF MY_ID, PARENT_ID, Slots
      <4>. QED
        BY <4>4, <4>5, <4>6 DEF Target
    <3>4. Sends(s, n, h, a, <<SendResList(n, i)>>)
      BY <1>1, <2>1, <3>2, FewElements DEF Sends
    <3>. QED
      BY <1>1, <2>1, <2>2, <2>4, <3>1, <3>3, <3>4
  <2>. QED
    BY <2>3, <2>4
<1>21. CASE NodeResList(s, n)
  BY <1>1, <1>2, <1>21 DEF NodeResList
<1>. QED
  BY <1>5, <1>6, <1>7, <1>8, <1>9, <1>10, <1>11, <1>12, <1>13, <1>14, <1>15,
     <1>16, <1>17, <1>18, <1>19, <1>20, <1>21 DEF Receive

\* What a handler leaves under way.
LEMMA AfterHandler ==
    ASSUME TypeOK, NEW s \in Nodes, NEW n \in Nodes, net[s][n] # <<>>,
           NEW a, NEW msgs \in Seq(Packet), Reply(s, n, To(a, msgs))
    PROVE  /\ net' = Sent(Dropped(net, s, n), n, To(a, msgs))
           /\ net \in Nets /\ Dropped(net, s, n) \in Nets /\ To(a, msgs) \in Outs
           /\ Head(net[s][n]) \in Fly(net, s, n)
           /\ \A x, y \in Nodes : Fly(Dropped(net, s, n), x, y) \subseteq Fly(net, x, y)
           /\ \A x, y \in Nodes : \A p \in Fly(net', x, y) :
                 \/ p \in Fly(Dropped(net, s, n), x, y)
                 \/ x = n /\ y = a /\ up[a] = "up" /\ p \in Elements(msgs)
<1>1. net \in Nets
  BY DEF TypeOK, Nets
<1>2. To(a, msgs) \in Outs
  BY ToType DEF Outs
<1> DEFINE w == Dropped(net, s, n)
<1>3. /\ w \in Nets /\ Head(net[s][n]) \in Fly(net, s, n)
      /\ \A x, y \in Nodes : Fly(w, x, y) \subseteq Fly(net, x, y)
  BY <1>1, AfterDropped
<1>4. net' = Sent(w, n, To(a, msgs))
  BY <1>1, <1>2, ReplySent
<1> HIDE DEF w
<1>5. \A x, y \in Nodes : Fly(net', x, y)
          \subseteq Fly(w, x, y) \cup (IF x = n THEN Elements(To(a, msgs)[y]) ELSE {})
  BY <1>2, <1>3, <1>4, AfterSent
<1>6. \A y \in Nodes : Elements(To(a, msgs)[y])
          = IF y = a /\ up[a] = "up" THEN Elements(msgs) ELSE {}
  BY FewElements DEF To
<1>. QED
  BY <1>1, <1>2, <1>3, <1>4, <1>5, <1>6 DEF w

\* What a branch of the TIME thread leaves under way.
LEMMA AfterTimer ==
    ASSUME TypeOK, NEW n \in Nodes, NEW out \in Outs, Send(n, out)
    PROVE  /\ net' = Sent(net, n, out) /\ net \in Nets
           /\ \A x, y \in Nodes : \A p \in Fly(net', x, y) :
                 p \in Fly(net, x, y) \/ (x = n /\ p \in Elements(out[y]))
<1>1. net \in Nets
  BY DEF TypeOK, Nets
<1>2. net' = Sent(net, n, out)
  BY <1>1, SendSent
<1>3. \A x, y \in Nodes : Fly(net', x, y)
          \subseteq Fly(net, x, y) \cup (IF x = n THEN Elements(out[y]) ELSE {})
  BY <1>1, <1>2, AfterSent
<1>. QED
  BY <1>1, <1>2, <1>3

\* The elements of what is sent to one node.
LEMMA ToElements ==
    ASSUME NEW a, NEW msgs \in Seq(Packet)
    PROVE  /\ To(a, msgs) \in Outs
           /\ \A y \in Nodes : Elements(To(a, msgs)[y])
                 = IF y = a /\ up[a] = "up" THEN Elements(msgs) ELSE {}
<1>1. To(a, msgs) \in Outs
  BY ToType DEF Outs
<1>. QED
  BY <1>1, FewElements DEF To

\* One packet to one node.
LEMMA ToOne ==
    ASSUME NEW a, NEW p, <<p>> \in Seq(Packet)
    PROVE  /\ To(a, <<p>>) \in Outs
           /\ \A y \in Nodes : \A q \in Elements(To(a, <<p>>)[y]) :
                 q = p /\ y = a /\ up[a] = "up"
<1>1. Elements(<<p>>) = {p}
  BY FewElements
<1>. QED
  BY <1>1, ToElements

\* The faults put nothing new under way; a packet sent to the wrong node was
\* under way to another one.
LEMMA AfterFault ==
    ASSUME TypeOK,
           \/ \E s, n \in Nodes : Network(s, n)
           \/ \E n \in Nodes : Crash(n)
    PROVE  \A x, y \in Nodes : \A p \in Fly(net', x, y) :
              \/ p \in Fly(net, x, y)
              \/ \E s, n, m \in Nodes : Misdirect(s, n, m) /\ p \in Fly(net, s, n)
<1>1. \A x, y \in Nodes : net[x][y] \in Seq(Packet)
  BY DEF TypeOK
<1>2. ASSUME NEW s \in Nodes, NEW n \in Nodes,
             Lose(s, n) \/ Duplicate(s, n) \/ Reorder(s, n)
      PROVE  \A x, y \in Nodes : Fly(net', x, y) \subseteq Fly(net, x, y)
  <2> DEFINE q == net[s][n]
  <2>1. q # <<>> /\ \E r : /\ r \in {Tail(q), q \o <<Head(q)>>, Tail(q) \o <<Head(q)>>}
                          /\ net' = [net EXCEPT ![s][n] = r]
    <3>1. q \in Seq(Packet)
      BY <1>1
    <3>2. \A r \in Seq(Packet) : Append(r, Head(q)) = r \o <<Head(q)>>
      OBVIOUS
    <3>3. CASE Lose(s, n)
      BY <3>3 DEF Lose
    <3>4. CASE Duplicate(s, n)
      BY <3>1, <3>2, <3>4 DEF Duplicate
    <3>5. CASE Reorder(s, n)
      <4>1. q # <<>> /\ Tail(q) \in Seq(Packet)
        BY <3>1, <3>5 DEF Reorder
      <4>. QED
        BY <3>2, <3>5, <4>1 DEF Reorder
    <3>. QED
      BY <1>2, <3>3, <3>4, <3>5
  <2>2. PICK r : /\ r \in {Tail(q), q \o <<Head(q)>>, Tail(q) \o <<Head(q)>>}
                 /\ net' = [net EXCEPT ![s][n] = r]
    BY <2>1
  <2>3. /\ q \in Seq(Packet) /\ Tail(q) \in Seq(Packet)
        /\ <<Head(q)>> \in Seq(Packet)
        /\ Elements(Tail(q)) \subseteq Elements(q) /\ Elements(<<Head(q)>>) \subseteq Elements(q)
    BY <1>1, <2>1, TailPlace, TailElements, FewElements
  <2> HIDE DEF q
  <2>4. Elements(r) \subseteq Elements(q)
    BY <2>2, <2>3, ConcatElements
  <2>5. \A x, y \in Nodes : net'[x][y] = IF x = s /\ y = n THEN r ELSE net[x][y]
    BY <2>2 DEF TypeOK
  <2>. QED
    BY <2>4, <2>5 DEF Fly, q
<1>3. ASSUME NEW n \in Nodes, Crash(n)
      PROVE  \A x, y \in Nodes : Fly(net', x, y) \subseteq Fly(net, x, y)
  <2>1. \A x, y \in Nodes : net'[x][y] = <<>> \/ net'[x][y] = net[x][y]
    BY <1>3 DEF Crash, TypeOK
  <2>. QED
    BY <2>1, FewElements DEF Fly
<1>4. ASSUME NEW s \in Nodes, NEW n \in Nodes, NEW m \in Nodes, Misdirect(s, n, m)
      PROVE  \A x, y \in Nodes : \A p \in Fly(net', x, y) :
                p \in Fly(net, x, y) \/ p \in Fly(net, s, n)
  <2> DEFINE h == Head(net[s][n])
  <2>1. net[s][n] # <<>> /\ m # n
    BY <1>4 DEF Misdirect
  <2>2. /\ net[s][n] \in Seq(Packet) /\ net[s][m] \in Seq(Packet)
        /\ Tail(net[s][n]) \in Seq(Packet) /\ <<h>> \in Seq(Packet)
        /\ Elements(Tail(net[s][n])) \subseteq Elements(net[s][n])
        /\ Elements(<<h>>) \subseteq Elements(net[s][n])
    <3>1. net[s][n] \in Seq(Packet) /\ net[s][m] \in Seq(Packet)
      BY <1>1
    <3>2. Tail(net[s][n]) \in Seq(Packet) /\ <<h>> \in Seq(Packet)
      BY <2>1, <3>1
    <3>. QED
      BY <2>1, <3>1, <3>2, TailPlace, TailElements, FewElements
  <2>3. Append(net[s][m], h) = net[s][m] \o <<h>>
    <3>1. \A r \in Seq(Packet) : Append(r, h) = r \o <<h>>
      OBVIOUS
    <3>. QED
      BY <2>2, <3>1
  <2>4. \A x, y \in Nodes :
           net'[x][y] = IF x = s /\ y = n THEN Tail(net[s][n])
                        ELSE IF x = s /\ y = m THEN net[s][m] \o <<h>>
                        ELSE net[x][y]
    BY <1>4, <2>1, <2>3 DEF Misdirect, TypeOK
  <2>5. \A p \in Elements(net[s][m] \o <<h>>) :
           p \in Elements(net[s][m]) \/ p \in Elements(net[s][n])
    BY <2>2, ConcatElements
  <2> HIDE DEF h
  <2>. QED
    BY <2>2, <2>4, <2>5 DEF Fly
<1>. QED
  BY <1>2, <1>3, <1>4 DEF Network

-----------------------------------------------------------------------------
(* What is left of the budget.                                              *)

BudgetInv == budget \in [Kinds -> Nat] /\ \A k \in Kinds : budget[k] <= Budget[k]

LEMMA BudgetInit == Init => BudgetInv
BY BudgetAssumption DEF Init, BudgetInv

\* Spending only lowers it.
LEMMA BudgetSpend ==
    ASSUME BudgetInv, NEW kind \in Kinds \ {"total"}, Spend(kind)
    PROVE  BudgetInv'
<1>1. "total" \in Kinds /\ budget \in [Kinds -> Nat]
  BY DEF BudgetInv, Kinds
<1>2. /\ budget[kind] - 1 \in Nat /\ budget["total"] - 1 \in Nat
      /\ budget' = [budget EXCEPT ![kind] = budget[kind] - 1,
                                 !["total"] = budget["total"] - 1]
  BY <1>1 DEF Spend
<1>3. \A k \in Kinds : budget'[k] \in Nat /\ budget'[k] <= budget[k]
  BY <1>1, <1>2
<1>4. budget' \in [Kinds -> Nat]
  BY <1>1, <1>2
<1>. QED
  BY <1>1, <1>3, <1>4, BudgetAssumption DEF BudgetInv

\* A kind of step with an empty budget is never taken.
LEMMA Unaffordable ==
    ASSUME BudgetInv, NEW kind \in Kinds, Budget[kind] = 0
    PROVE  ~Spend(kind)
BY DEF BudgetInv, Spend

\* No packet goes astray where no race happens.
LEMMA NoRace ==
    ASSUME BudgetInv, Budget["race"] = 0, NEW s, NEW n, NEW m
    PROVE  ~Misdirect(s, n, m)
BY Unaffordable DEF Misdirect, Kinds

\* No step raises it.
LEMMA BudgetNext == BudgetInv /\ [Next]_vars => BudgetInv'
<1> SUFFICES ASSUME BudgetInv, [Next]_vars
             PROVE  BudgetInv'
  OBVIOUS
<1>1. ASSUME UNCHANGED budget
      PROVE  BudgetInv'
  BY <1>1 DEF BudgetInv
<1>2. \A k \in {"loss", "dup", "reorder", "crash", "resend", "expire", "lists",
                "retry", "depart", "drain", "race"} : k \in Kinds \ {"total"}
  BY DEF Kinds
<1>3. ASSUME NEW s \in Nodes, NEW n \in Nodes, Receive(s, n)
      PROVE  UNCHANGED budget
  BY <1>3 DEF Receive, NodeSetupDrawn, NodeSetupUncached, NodeSetupFull,
     Redirect, NodeSetupJoin, NodeID, NodeInitialStatus, NodeAdvertise,
     NodeConnectRefused, NodeConnectDuplicate, NodeConnectAccepted, NodeAccept,
     NodeUnaccept, NodeDepart, NodeDetach, NodeReqListUnknown, NodeReqList,
     NodeResList
<1>4. ASSUME NEW s \in Nodes, NEW n \in Nodes, Network(s, n)
      PROVE  BudgetInv'
  BY <1>1, <1>2, <1>4, BudgetSpend DEF Network, Lose, Duplicate, Reorder, Misdirect
<1>5. ASSUME NEW n \in Nodes, TimeProcess(n)
      PROVE  BudgetInv'
  BY <1>1, <1>2, <1>5, BudgetSpend
     DEF TimeProcess, SetupTimer, ExpireSlot, ExpireParent, RetryTimer,
         ListTimer, DepartTimer, CacheFull, CacheDrains
<1>6. ASSUME NEW n \in Nodes, Start(n) \/ Crash(n)
      PROVE  BudgetInv'
  BY <1>1, <1>2, <1>6, BudgetSpend DEF Start, Crash
<1>7. ASSUME NEW k \in Nodes, NEW m \in Nodes, NEW n \in Nodes, KeepAlive(k, m, n)
      PROVE  BudgetInv'
  BY <1>1, <1>7 DEF KeepAlive
<1>8. CASE UNCHANGED vars
  BY <1>1, <1>8 DEF vars
<1>. QED
  BY <1>1, <1>3, <1>4, <1>5, <1>6, <1>7, <1>8 DEF Next

\* Every branch of the TIME thread sends packets of one type, if any.
LEMMA TimerSends ==
    ASSUME TypeOK, NEW n \in Nodes, TimeProcess(n) \/ Start(n)
    PROVE  \/ UNCHANGED net
           \/ \E out \in Outs :
                /\ Send(n, out)
                /\ \/ SetupTimer(n) /\ out = To(dst[n][PARENT_ID], <<SendSetup(n)>>)
                   \/ Start(n) /\ out = To(Origin, <<SendSetup(n)>>)
                   \/ /\ ExpireParent(n) \/ RetryTimer(n)
                      /\ \E a \in Addrs : out = To(a, <<SendConnect(n)>>)
                   \/ /\ ListTimer(n)
                      /\ \A y \in Nodes : \A p \in Elements(out[y]) : p.type = "REQ_LIST"
                   \/ /\ DepartTimer(n)
                      /\ out = To(dst[n][PARENT_ID], <<Msg("DEPART", <<My(n)>>)>>)
<1>1. CASE SetupTimer(n)
  BY <1>1, SendSetupType, ToElements DEF SetupTimer
<1>2. CASE Start(n)
  BY <1>2, SendSetupType, ToElements DEF Start
<1>3. CASE ExpireParent(n) \/ RetryTimer(n)
  <2> DEFINE c == NextCandidate(n, status[n][PARENT_ID].id)
  <2>1. Send(n, To(GtoPIP(n, c), <<SendConnect(n)>>))
    BY <1>3 DEF ExpireParent, RetryTimer, NodeRetry
  <2>2. c \in Status
    BY NodeParts, CandidateListed DEF NextCandidate
  <2> HIDE DEF c
  <2>3. GtoPIP(n, c) \in Addrs /\ To(GtoPIP(n, c), <<SendConnect(n)>>) \in Outs
    BY <2>2, GtoPIPType, ConnectTypes, ToElements
  <2>. QED
    BY <1>3, <2>1, <2>3
<1>4. CASE ListTimer(n)
  <2> DEFINE entries(m) == {k \in 1..Len(nodesList[n]) :
                               GtoPIP(n, nodesList[n][k]) = m}
             copies(m) == Cardinality(entries(m))
                            + IF dst[n][PARENT_ID] = m THEN 1 ELSE 0
             req == Msg("REQ_LIST", <<OnlyId(My(n).id)>>)
             out == [m \in Nodes |-> IF up[m] = "up" THEN [k \in 1..copies(m) |-> req]
                                     ELSE <<>>]
  <2>1. Len(nodesList[n]) \in Nat
    BY NodeParts
  <2>2. \A m : entries(m) \in SUBSET (1..Len(nodesList[n]))
    OBVIOUS
  <2> HIDE DEF entries
  <2>3. \A m : Cardinality(entries(m)) \in Nat
    BY <2>1, <2>2, PositionsFinite
  <2>4. \A m : copies(m) \in Nat
    <3>1. \A c \in Nat : \A m : c + (IF dst[n][PARENT_ID] = m THEN 1 ELSE 0) \in Nat
      OBVIOUS
    <3>. QED
      BY <2>3, <3>1
  <2>5. req \in Packet /\ req.type = "REQ_LIST"
    BY ConnectTypes, OneRecord DEF Types, Msg
  <2> HIDE DEF copies, req
  <2>6. \A m : /\ [k \in 1..copies(m) |-> req] \in Seq(Packet)
               /\ \A p \in Elements([k \in 1..copies(m) |-> req]) : p = req
    BY <2>4, <2>5 DEF Elements
  <2>7. out \in Outs
    BY <2>6 DEF Outs
  <2>8. \A y \in Nodes : \A p \in Elements(out[y]) : p.type = "REQ_LIST"
    BY <2>5, <2>6, FewElements
  <2>9. Send(n, out)
    BY <1>4 DEF ListTimer, entries, copies, req
  <2> HIDE DEF out
  <2>. QED
    BY <1>4, <2>7, <2>8, <2>9
<1>5. CASE DepartTimer(n)
  <2>1. <<Msg("DEPART", <<My(n)>>)>> \in Seq(Packet)
    BY NodeParts, OneRecord DEF Types
  <2>. QED
    BY <1>5, <2>1, ToElements DEF DepartTimer
<1>6. CASE (\E i \in Slots : ExpireSlot(n, i)) \/ CacheFull(n) \/ CacheDrains(n)
  BY <1>6 DEF ExpireSlot, CacheFull, CacheDrains
<1>. QED
  BY <1>1, <1>2, <1>3, <1>4, <1>5, <1>6 DEF TimeProcess

-----------------------------------------------------------------------------
(* As long as no slot expires and nobody departs.                           *)

\* No TIME thread clears a bit of CONNECTED_NODES or sends DEPART.
Staying == Budget["expire"] = 0 /\ Budget["depart"] = 0

Moving == {"CONNECT", "ACCEPT", "UNACCEPT", "DEPART", "DETACH"}

\* Nobody moves, so no such packet is sent and NodeRetry is not called; the
\* count and the bits change together; who has not joined has an empty cache.
StayNode(n) ==
    /\ ~isRetry[n]
    /\ childNum[n] = Kids(connected[n])
    /\ isSetup[n] => ~cached[n] /\ connected[n] = 0
StayInv ==
    /\ TypeInv /\ BudgetInv
    /\ \A x, y \in Nodes : \A p \in Fly(net, x, y) : p.type \notin Moving
    /\ \A n \in Nodes : StayNode(n)

\* The TIME thread branches that need what is not there.
LEMMA NobodyMoves ==
    ASSUME Staying, StayInv, NEW n \in Nodes
    PROVE  /\ ~\E i \in Slots : ExpireSlot(n, i)
           /\ ~ExpireParent(n) /\ ~RetryTimer(n) /\ ~DepartTimer(n)
<1>1. ~Spend("expire") /\ ~Spend("depart")
  BY Unaffordable DEF Staying, StayInv, Kinds
<1>. QED
  BY <1>1 DEF StayInv, StayNode, ExpireSlot, ExpireParent, RetryTimer, DepartTimer

\* No packet of a move is sent.
LEMMA NoMovePackets ==
    ASSUME Staying, StayInv, Next
    PROVE  \A x, y \in Nodes : \A p \in Fly(net', x, y) : p.type \notin Moving
<1> DEFINE Old == \A x, y \in Nodes : \A p \in Fly(net, x, y) : p.type \notin Moving
           Goal == \A x, y \in Nodes : \A p \in Fly(net', x, y) : p.type \notin Moving
<1>1. TypeOK /\ Old
  BY DEF StayInv, TypeInv
<1>2. UNCHANGED net => Goal
  BY <1>1
<1> HIDE DEF Old, Goal
<1>3. ASSUME NEW s \in Nodes, NEW n \in Nodes, Receive(s, n)
      PROVE  Goal
  <2>1. PICK a \in Addrs, msgs \in Seq(Packet) :
              /\ net[s][n] # <<>> /\ Reply(s, n, To(a, msgs))
              /\ Sends(s, n, Head(net[s][n]), a, msgs)
    BY <1>1, <1>3, HandlerSends
  <2>2. Head(net[s][n]).type \notin Moving
    BY <1>1, <2>1, AfterHandler DEF Old
  <2>3. \A p \in Elements(msgs) : p.type \notin Moving
    BY <2>1, <2>2, FewElements DEF Sends, SetupAnswer, SendSetup, Msg, Moving
  <2>. QED
    BY <1>1, <2>1, <2>3, AfterHandler DEF Old, Goal
<1>4. ASSUME NEW n \in Nodes, TimeProcess(n) \/ Start(n)
      PROVE  Goal
  <2>1. SUFFICES ASSUME ~UNCHANGED net
                 PROVE  Goal
    BY <1>2
  <2>2. PICK out \in Outs :
           /\ Send(n, out)
           /\ \/ \E a : out = To(a, <<SendSetup(n)>>)
              \/ \A y \in Nodes : \A p \in Elements(out[y]) : p.type = "REQ_LIST"
    BY <1>1, <1>4, <2>1, TimerSends, NobodyMoves
  <2>3. \A y \in Nodes : \A p \in Elements(out[y]) : p.type \notin Moving
    <3>1. CASE \E a : out = To(a, <<SendSetup(n)>>)
      <4>1. PICK a : out = To(a, <<SendSetup(n)>>)
        BY <3>1
      <4>2. SendSetup(n).type \notin Moving /\ <<SendSetup(n)>> \in Seq(Packet)
        BY <1>1, SendSetupType DEF SendSetup, Msg, Moving
      <4>. QED
        BY <4>1, <4>2, ToOne
    <3>2. CASE \A y \in Nodes : \A p \in Elements(out[y]) : p.type = "REQ_LIST"
      BY <3>2 DEF Moving
    <3>. QED
      BY <2>2, <3>1, <3>2
  <2>. QED
    BY <1>1, <2>2, <2>3, AfterTimer DEF Old, Goal
<1>5. CASE \/ \E s, n \in Nodes : Network(s, n)
           \/ \E n \in Nodes : Crash(n)
  BY <1>1, <1>5, AfterFault DEF Old, Goal
<1>6. ASSUME NEW k \in Nodes, NEW m \in Nodes, NEW n \in Nodes, KeepAlive(k, m, n)
      PROVE  Goal
  <2>1. UNCHANGED net
    BY <1>6 DEF KeepAlive
  <2>. QED
    BY <1>2, <2>1
<1>. QED
  BY <1>3, <1>4, <1>5, <1>6 DEF Next, Goal

\* A new child sets one clear child bit and counts one.
LEMMA AddChildLinks ==
    ASSUME TypeInv, NEW n \in Nodes, CheckChildNum(n) # -1, NEW child, NEW addr,
           AddChild(n, CheckChildNum(n), child, addr)
    PROVE  \E i \in ChildSlots :
              /\ ~Bit(connected[n], i)
              /\ connected' = [connected EXCEPT ![n] = SetBit(connected[n], i)]
              /\ childNum' = [childNum EXCEPT ![n] = childNum[n] + 1]
              /\ stamped' = [stamped EXCEPT ![n] = stamped[n] \cup {i}]
              /\ Kids(SetBit(connected[n], i)) = Kids(connected[n]) + 1
              /\ SetBit(connected[n], i) \in 0..255
<1> DEFINE i == CheckChildNum(n)
<1>1. i \in ChildSlots /\ ~Bit(connected[n], i)
  BY FreeSlot
<1>2. connected[n] \in 0..255
  BY DEF TypeInv, TypeOK
<1>3. Kids(SetBit(connected[n], i)) = Kids(connected[n]) + 1 /\ SetBit(connected[n], i) \in 0..255
  BY <1>1, <1>2, SetChildBit
<1>. QED
  BY <1>1, <1>3 DEF AddChild, Stamp

\* Bits, count and flags of every node.
LEMMA StayNodes ==
    ASSUME Staying, StayInv, Next
    PROVE  \A n \in Nodes : StayNode(n)'
<1>1. TypeOK /\ TypeInv /\ (\A n \in Nodes : StayNode(n))
  BY DEF StayInv, TypeInv
<1>2. ASSUME UNCHANGED <<linkVars, isSetup, isRetry, cached>>
      PROVE  \A n \in Nodes : StayNode(n)'
  BY <1>1, <1>2 DEF StayNode, linkVars
<1>3. ASSUME NEW s \in Nodes, NEW n \in Nodes, Receive(s, n)
      PROVE  \A m \in Nodes : StayNode(m)'
  <2>1. ~\E type \in Moving : Arrived(s, n, type)
    <3>1. PICK a \in Addrs, msgs \in Seq(Packet) :
                net[s][n] # <<>> /\ Reply(s, n, To(a, msgs))
      BY <1>1, <1>3, HandlerSends
    <3>. QED
      BY <1>1, <3>1, AfterHandler DEF StayInv, Arrived
  <2>2. CASE \/ NodeSetupDrawn(s, n) \/ NodeSetupUncached(s, n) \/ NodeSetupFull(s, n)
             \/ NodeID(s, n) \/ NodeAdvertise(s, n)
             \/ NodeReqListUnknown(s, n) \/ NodeReqList(s, n) \/ NodeResList(s, n)
    BY <1>2, <2>2 DEF NodeSetupDrawn, NodeSetupUncached, NodeSetupFull, Redirect,
       NodeID, NodeAdvertise, NodeReqListUnknown, NodeReqList, NodeResList, flagVars
  <2>3. CASE NodeSetupJoin(s, n)
    <3>1. /\ \E child : AddChild(n, CheckChildNum(n), child, s)
          /\ CheckChildNum(n) # -1 /\ cached[n] /\ UNCHANGED <<flagVars, cached>>
      BY <2>3 DEF NodeSetupJoin, Ready
    <3>2. PICK i \in ChildSlots :
              /\ connected' = [connected EXCEPT ![n] = SetBit(connected[n], i)]
              /\ childNum' = [childNum EXCEPT ![n] = childNum[n] + 1]
              /\ Kids(SetBit(connected[n], i)) = Kids(connected[n]) + 1
      BY <1>1, <3>1, AddChildLinks
    <3>. QED
      BY <1>1, <3>1, <3>2 DEF StayNode, flagVars, TypeOK
  <2>4. CASE NodeInitialStatus(s, n)
    <3>1. /\ connected' = [connected EXCEPT ![n] = SetBit(connected[n], PARENT_ID)]
          /\ isSetup' = [isSetup EXCEPT ![n] = FALSE]
          /\ UNCHANGED <<childNum, isRetry, cached>>
      BY <2>4 DEF NodeInitialStatus
    <3>2. connected[n] \in 0..255
      BY <1>1 DEF TypeOK
    <3>3. Kids(SetBit(connected[n], PARENT_ID)) = Kids(connected[n])
      BY <3>2, SetParentBit
    <3>. QED
      BY <1>1, <3>1, <3>3 DEF StayNode, TypeOK
  <2>5. CASE \/ NodeConnectRefused(s, n) \/ NodeConnectDuplicate(s, n)
             \/ NodeConnectAccepted(s, n) \/ NodeAccept(s, n) \/ NodeUnaccept(s, n)
             \/ NodeDepart(s, n) \/ NodeDetach(s, n)
    BY <2>1, <2>5 DEF NodeConnectRefused, NodeConnectDuplicate, NodeConnectAccepted,
       NodeAccept, NodeUnaccept, NodeDepart, NodeDetach, Moving
  <2>. QED
    BY <1>3, <2>2, <2>3, <2>4, <2>5 DEF Receive
<1>4. ASSUME NEW n \in Nodes, TimeProcess(n)
      PROVE  \A m \in Nodes : StayNode(m)'
  <2>1. CASE SetupTimer(n) \/ ListTimer(n)
    BY <1>2, <2>1 DEF SetupTimer, ListTimer, flagVars
  <2>2. CASE CacheFull(n)
    BY <1>1, <2>2 DEF CacheFull, StayNode, linkVars, TypeOK
  <2>3. CASE CacheDrains(n)
    BY <1>1, <2>3 DEF CacheDrains, StayNode, linkVars, flagVars, TypeOK
  <2>. QED
    BY <1>4, <2>1, <2>2, <2>3, NobodyMoves DEF TimeProcess
<1>5. ASSUME NEW n \in Nodes, Start(n) \/ Crash(n)
      PROVE  \A m \in Nodes : StayNode(m)'
  BY <1>2, <1>5 DEF Start, Crash, flagVars
<1>6. ASSUME NEW s \in Nodes, NEW n \in Nodes, Network(s, n)
      PROVE  \A m \in Nodes : StayNode(m)'
  BY <1>2, <1>6 DEF Network, Lose, Duplicate, Reorder, Misdirect, flagVars
<1>7. ASSUME NEW k \in Nodes, NEW m \in Nodes, NEW n \in Nodes, KeepAlive(k, m, n)
      PROVE  \A q \in Nodes : StayNode(q)'
  BY <1>2, <1>7 DEF KeepAlive, flagVars
<1>. QED
  BY <1>3, <1>4, <1>5, <1>6, <1>7 DEF Next

\* The processes start without a packet and without a neighbour.
LEMMA StayInit == Init => StayInv
<1> SUFFICES ASSUME Init
             PROVE  StayInv
  OBVIOUS
<1>1. TypeInv /\ BudgetInv
  BY TypeInit, CountInit, BudgetInit DEF TypeInv
<1>2. \A x, y \in Nodes : Fly(net, x, y) = {}
  BY FewElements DEF Init, Fly
<1>3. ASSUME NEW n \in Nodes
      PROVE  StayNode(n)
  <2>1. ~isRetry[n] /\ connected[n] = 0 /\ childNum[n] = 0
    BY DEF Init
  <2>2. isSetup[n] = (n # Origin) /\ cached[n] = (n = Origin /\ OriginWarm)
    BY DEF Init
  <2>3. Kids(0) = 0
    BY DEF Kids
  <2>. QED
    BY <2>1, <2>2, <2>3 DEF StayNode
<1>. QED
  BY <1>1, <1>2, <1>3 DEF StayInv

LEMMA StayNext == ASSUME Staying PROVE StayInv /\ [Next]_vars => StayInv'
<1> SUFFICES ASSUME StayInv, [Next]_vars
             PROVE  StayInv'
  OBVIOUS
<1>1. TypeInv' /\ BudgetInv'
  BY TypeNext, BudgetNext DEF StayInv
<1>2. CASE Next
  BY <1>1, <1>2, NoMovePackets, StayNodes DEF StayInv
<1>3. CASE UNCHANGED vars
  <2>1. \A n \in Nodes : StayNode(n)'
    BY <1>3 DEF StayInv, StayNode, vars
  <2>2. net' = net
    BY <1>3 DEF vars
  <2>. QED
    BY <1>1, <2>1, <2>2 DEF StayInv
<1>. QED
  BY <1>2, <1>3

\* ChildCountExact: as long as no slot expires and nobody departs, no loss,
\* repetition, reordering, misdirection or crash parts CURRENT_CHILD_NUM from
\* the child bits.
THEOREM CountExact == ASSUME Staying PROVE Spec => []ChildCountExact
<1>1. StayInv => ChildCountExact
  BY DEF StayInv, StayNode, ChildCountExact
<1>. QED
  BY <1>1, StayInit, StayNext, PTL DEF Spec

\* UnjoinedIsIdle, whatever packets are lost, repeated, reordered and sent to
\* the wrong node.
THEOREM UnjoinedIdleStaying == ASSUME Staying PROVE Spec => []UnjoinedIsIdle
<1>1. StayInv => UnjoinedIsIdle
  <2>1. Kids(0) = 0
    BY DEF Kids
  <2>. QED
    BY <2>1 DEF StayInv, StayNode, UnjoinedIsIdle
<1>. QED
  BY <1>1, StayInit, StayNext, PTL DEF Spec

-----------------------------------------------------------------------------
(* As long as no packet goes astray or is repeated, by the network or by an *)
(* early timer.                                                             *)

\* The buffer behind a packet spells no node's address.
Unrepeated ==
    /\ Budget["dup"] = 0 /\ Budget["race"] = 0
    /\ Prompt \/ Budget["resend"] = 0
    /\ \A t \in Stale : t.ip = NoAddr /\ t.p = NoAddr

\* The address of n, or none yet.
Self(n) == {n, NoAddr}
Owned(n, st) == st.ip \in Self(n) /\ st.p \in Self(n)

\* The packets that carry n's request to join: SETUP and its answers.
Asking(n) ==
    [a \in Nodes |-> [b \in Nodes |->
        {p \in Packet : \/ a = n /\ p.type = "SETUP"
                        \/ b = n /\ p.type \in {"ADVERTISE", "INITIAL_STATUS"}}]]

\* What a packet under way from a to b says about the two.
Fit(a, b, p) ==
    /\ p.type \in {"SETUP", "DEPART"} => dst[a][PARENT_ID] = b
    /\ p.type \in {"SETUP", "CONNECT", "DEPART"} => Owned(a, p.body[1])
    /\ p.type \in {"CONNECT", "DEPART"} => ~isSetup[a]
    /\ p.type \in {"ACCEPT", "UNACCEPT", "DEPART", "DETACH"} => ~isSetup[b]
    /\ p.type = "ID" => p.body[1].ip = b
    /\ p.type = "INITIAL_STATUS" => /\ dst[b][PARENT_ID] = a /\ ~isSetup[a]
                                    /\ p.body # <<>> => Owned(b, p.body[1])

\* A node that has not joined is idle; its request is in one place.  A node
\* that has joined sends to one that has, and has no request under way.
LinkNode(n) ==
    /\ isSetup[n] => /\ ~cached[n] /\ ~streaming[n] /\ ~isRetry[n]
                     /\ connected[n] = 0 /\ childNum[n] = 0
    /\ OneToken(net, Asking(n))
    /\ ~isSetup[n] \/ up[n] = "off" => NoToken(net, Asking(n))
    /\ up[n] = "off" => isSetup[n] /\ dst[n][PARENT_ID] = Origin
    /\ ~isSetup[n] /\ dst[n][PARENT_ID] \in Nodes => ~isSetup[dst[n][PARENT_ID]]
    /\ Owned(n, My(n))

LinkInv ==
    /\ TypeInv /\ BudgetInv
    /\ \A a, b \in Nodes : \A p \in Fly(net, a, b) : Fit(a, b, p)
    /\ \A n \in Nodes : LinkNode(n)

\* What a handler of n leaves alone.
LEMMA HandlerFrame ==
    ASSUME TypeOK, NEW s \in Nodes, NEW n \in Nodes, Receive(s, n)
    PROVE  /\ \A m \in Nodes \ {n} :
                 /\ up'[m] = up[m] /\ isSetup'[m] = isSetup[m]
                 /\ isRetry'[m] = isRetry[m] /\ streaming'[m] = streaming[m]
                 /\ connected'[m] = connected[m] /\ childNum'[m] = childNum[m]
                 /\ stamped'[m] = stamped[m]
                 /\ status'[m] = status[m] /\ dst'[m] = dst[m]
           /\ up'[n] \in {up[n], "dead"} /\ cached' = cached
           /\ Head(net[s][n]).type # "ADVERTISE" => dst'[n][PARENT_ID] = dst[n][PARENT_ID]
           /\ IF Head(net[s][n]).type = "INITIAL_STATUS" THEN ~isSetup'[n]
              ELSE isSetup' = isSetup
<1>1. CASE \/ NodeSetupDrawn(s, n) \/ NodeSetupUncached(s, n) \/ NodeSetupFull(s, n)
  <2>1. \E i : Arrived(s, n, "SETUP") /\ Redirect(s, n, i)
    BY <1>1 DEF NodeSetupDrawn, NodeSetupUncached, NodeSetupFull
  <2>. QED
    BY <2>1 DEF Redirect, Survives, Arrived, TypeOK, slotVars, linkVars, flagVars
<1>2. CASE NodeSetupJoin(s, n)
  <2> DEFINE i == CheckChildNum(n)
  <2>1. \E child : AddChild(n, i, child, s) /\ Survives(n, InitialStatusNum(n))
    BY <1>2 DEF NodeSetupJoin
  <2>2. i \in ChildSlots /\ i # PARENT_ID
    BY <1>2, FreeSlot DEF NodeSetupJoin, ChildSlots, PARENT_ID
  <2> HIDE DEF i
  <2>3. UNCHANGED <<flagVars, cached>> /\ Head(net[s][n]).type = "SETUP"
    BY <1>2 DEF NodeSetupJoin, Arrived
  <2>. QED
    BY <2>1, <2>2, <2>3 DEF AddChild, Stamp, Survives, TypeOK, flagVars
<1>3. CASE NodeID(s, n)
  BY <1>3 DEF NodeID, Arrived, TypeOK, nodeVars, linkVars, flagVars
<1>4. CASE NodeInitialStatus(s, n)
  BY <1>4 DEF NodeInitialStatus, Arrived, Stamp, TypeOK, nodeVars
<1>5. CASE NodeAdvertise(s, n)
  BY <1>5 DEF NodeAdvertise, Arrived, TypeOK, nodeVars, linkVars, flagVars
<1>6. CASE NodeConnectRefused(s, n) \/ NodeConnectDuplicate(s, n)
  BY <1>6 DEF NodeConnectRefused, NodeConnectDuplicate, Arrived, TypeOK,
     nodeVars, slotVars, linkVars, flagVars
<1>7. CASE NodeConnectAccepted(s, n)
  <2> DEFINE i == CheckChildNum(n)
  <2>1. \E child, addr : AddChild(n, i, child, addr)
    BY <1>7 DEF NodeConnectAccepted
  <2>2. i \in ChildSlots /\ i # PARENT_ID
    BY <1>7, FreeSlot DEF NodeConnectAccepted, ChildSlots, PARENT_ID
  <2> HIDE DEF i
  <2>3. UNCHANGED <<nodeVars, flagVars, cached>> /\ Head(net[s][n]).type = "CONNECT"
    BY <1>7 DEF NodeConnectAccepted, Arrived
  <2>. QED
    BY <2>1, <2>2, <2>3 DEF AddChild, Stamp, TypeOK, flagVars, nodeVars
<1>8. CASE NodeAccept(s, n)
  BY <1>8 DEF NodeAccept, Arrived, Stamp, TypeOK, nodeVars
<1>9. CASE NodeUnaccept(s, n)
  BY <1>9 DEF NodeUnaccept, Arrived, TypeOK, nodeVars, slotVars, linkVars, flagVars
<1>10. CASE NodeDepart(s, n)
  BY <1>10 DEF NodeDepart, Arrived, TypeOK, nodeVars, slotVars, flagVars
<1>11. CASE NodeDetach(s, n)
  BY <1>11 DEF NodeDetach, Arrived, TypeOK, nodeVars
<1>12. CASE NodeReqListUnknown(s, n) \/ NodeReqList(s, n) \/ NodeResList(s, n)
  BY <1>12 DEF NodeReqListUnknown, NodeReqList, NodeResList, Survives, Arrived,
     TypeOK, nodeVars, slotVars, linkVars, flagVars
<1>. QED
  BY <1>1, <1>2, <1>3, <1>4, <1>5, <1>6, <1>7, <1>8, <1>9, <1>10, <1>11, <1>12
     DEF Receive

\* The status a node keeps of itself after a handler.
LEMMA HandlerMy ==
    ASSUME TypeOK, NEW s \in Nodes, NEW n \in Nodes, Receive(s, n)
    PROVE  LET h == Head(net[s][n]) IN
           \/ My(n)' = My(n)
           \/ h.type = "ID" /\ My(n)' = [My(n) EXCEPT !.id = h.body[1].id,
                                                      !.ip = h.body[1].ip]
           \/ h.type = "INITIAL_STATUS" /\ My(n)' \in RecordAt(h.body, 1)
           \/ h.type = "ACCEPT" /\ My(n)' =
                [My(n) EXCEPT !.layer = (h.body[1].layer + 1) % LayerSpace]
<1>1. status[n] \in [Slots -> Status] /\ MY_ID \in Slots /\ PARENT_ID \in Slots
      /\ MY_ID # PARENT_ID /\ status \in [Nodes -> [Slots -> Status]]
  BY DEF TypeOK, Slots, MY_ID, PARENT_ID
<1>2. CASE NodeID(s, n)
  BY <1>1, <1>2 DEF NodeID, Arrived, Body, My
<1>3. CASE NodeInitialStatus(s, n)
  BY <1>1, <1>3 DEF NodeInitialStatus, Arrived, Body, My
<1>4. CASE NodeAccept(s, n)
  BY <1>1, <1>4 DEF NodeAccept, Arrived, Body, My
<1>5. CASE NodeDetach(s, n)
  BY <1>1, <1>5 DEF NodeDetach, My
<1>6. CASE NodeSetupJoin(s, n) \/ NodeConnectAccepted(s, n)
  <2> DEFINE i == CheckChildNum(n)
  <2>1. \E child, addr : AddChild(n, i, child, addr)
    BY <1>6 DEF NodeSetupJoin, NodeConnectAccepted
  <2>2. i # MY_ID
    BY <1>6, FreeSlot DEF NodeSetupJoin, NodeConnectAccepted, ChildSlots, MY_ID
  <2> HIDE DEF i
  <2>. QED
    BY <1>1, <2>1, <2>2 DEF AddChild, My
<1>7. CASE \/ NodeSetupDrawn(s, n) \/ NodeSetupUncached(s, n) \/ NodeSetupFull(s, n)
  BY <1>7 DEF NodeSetupDrawn, NodeSetupUncached, NodeSetupFull, Redirect, slotVars, My
<1>8. CASE \/ NodeAdvertise(s, n) \/ NodeConnectRefused(s, n)
           \/ NodeConnectDuplicate(s, n) \/ NodeUnaccept(s, n) \/ NodeDepart(s, n)
           \/ NodeReqListUnknown(s, n) \/ NodeReqList(s, n) \/ NodeResList(s, n)
  BY <1>8 DEF NodeAdvertise, NodeConnectRefused, NodeConnectDuplicate,
     NodeUnaccept, NodeDepart, NodeReqListUnknown, NodeReqList, NodeResList,
     slotVars, My
<1>. QED
  BY <1>2, <1>3, <1>4, <1>5, <1>6, <1>7, <1>8 DEF Receive

\* A node whose cache is low takes no child, and only answers to a move or to
\* SETUP change its bits and flags.
LEMMA HandlerIdle ==
    ASSUME NEW s \in Nodes, NEW n \in Nodes, Receive(s, n), ~cached[n],
           Head(net[s][n]).type \notin {"INITIAL_STATUS", "ACCEPT", "DEPART", "DETACH"}
    PROVE  UNCHANGED <<connected, childNum, isRetry, streaming>>
<1>1. CASE \/ NodeSetupDrawn(s, n) \/ NodeSetupUncached(s, n) \/ NodeSetupFull(s, n)
  BY <1>1 DEF NodeSetupDrawn, NodeSetupUncached, NodeSetupFull, Redirect,
     linkVars, flagVars
<1>2. CASE \/ NodeID(s, n) \/ NodeAdvertise(s, n) \/ NodeConnectRefused(s, n)
           \/ NodeConnectDuplicate(s, n) \/ NodeUnaccept(s, n)
           \/ NodeReqListUnknown(s, n) \/ NodeReqList(s, n) \/ NodeResList(s, n)
  BY <1>2 DEF NodeID, NodeAdvertise, NodeConnectRefused, NodeConnectDuplicate,
     NodeUnaccept, NodeReqListUnknown, NodeReqList, NodeResList, linkVars, flagVars
<1>3. ~NodeSetupJoin(s, n) /\ ~NodeConnectAccepted(s, n)
  BY DEF NodeSetupJoin, NodeConnectAccepted, Ready
<1>4. ~NodeInitialStatus(s, n) /\ ~NodeAccept(s, n) /\ ~NodeDepart(s, n) /\ ~NodeDetach(s, n)
  BY DEF NodeInitialStatus, NodeAccept, NodeDepart, NodeDetach, Arrived
<1>. QED
  BY <1>1, <1>2, <1>3, <1>4 DEF Receive

\* A new child is known by its own address.
LEMMA NewChildOwned ==
    ASSUME Unrepeated, TypeOK, NEW s \in Nodes, NEW n \in Nodes,
           Arrived(s, n, "SETUP"), Owned(s, Body(s, n)[1]),
           NEW child \in NewChild(s, n)
    PROVE  Owned(s, child)
<1> DEFINE m == Body(s, n)[1]
           read == IF My(n).id = ORIGIN_ID
                   THEN {[id |-> IF n = Origin THEN CurrentId(s, n) ELSE 0,
                          ip |-> s]}
                   ELSE IF m.id = 0
                        THEN {[id |-> t.id, ip |-> t.ip] : t \in Stale}
                        ELSE {[id |-> m.id, ip |-> m.ip]}
<1>1. \A r \in read : r.ip \in Self(s)
  BY DEF Unrepeated, Owned, Self
<1>2. child \in {[id |-> r.id, ip |-> r.ip, p |-> m.p, layer |-> NextLayer(n)] : r \in read}
  BY DEF NewChild
<1> HIDE DEF read
<1>3. PICK r \in read :
         child = [id |-> r.id, ip |-> r.ip, p |-> m.p, layer |-> NextLayer(n)]
  BY <1>2
<1>. QED
  BY <1>1, <1>3 DEF Owned

\* What is said of a packet stays true when a handler runs.
LEMMA FitStays ==
    ASSUME LinkInv, NEW s \in Nodes, NEW n \in Nodes, Receive(s, n),
           net[s][n] # <<>>,
           NEW x \in Nodes, NEW y \in Nodes, NEW p \in Fly(Dropped(net, s, n), x, y)
    PROVE  Fit(x, y, p)'
<1> DEFINE h == Head(net[s][n])
           w == Dropped(net, s, n)
<1>1. TypeOK /\ net \in Nets
  BY DEF LinkInv, TypeInv, TypeOK, Nets
<1>2. p \in Fly(net, x, y) /\ Fit(x, y, p) /\ p \in Packet
  <2>1. p \in Fly(net, x, y)
    BY <1>1, AfterDropped
  <2>2. net[x][y] \in Seq(Packet)
    BY <1>1 DEF Nets
  <2>. QED
    BY <2>1, <2>2 DEF LinkInv, Fly, Elements
<1>3. \A m \in Nodes : ~isSetup[m] => ~isSetup'[m]
  BY <1>1, HandlerFrame
<1>4. \A m \in Nodes : dst'[m][PARENT_ID] # dst[m][PARENT_ID] => m = n /\ h.type = "ADVERTISE"
  BY <1>1, HandlerFrame
<1>5. ASSUME h.type = "ADVERTISE"
      PROVE  /\ isSetup[n]
             /\ x = n => p.type \notin {"SETUP", "DEPART"}
             /\ y = n => p.type # "INITIAL_STATUS"
  <2>1. h \in Packet /\ h \in Fly(net, s, n)
    <3>1. net[s][n] \in Seq(Packet)
      BY <1>1 DEF Nets
    <3>. QED
      BY <3>1, <1>1, AfterDropped
  <2>2. h \in Asking(n)[s][n]
    BY <1>5, <2>1 DEF Asking
  <2>3. NoToken(w, Asking(n)) /\ ~NoToken(net, Asking(n))
    <3>1. NoToken(w, Asking(n))
      BY <1>1, <2>2, TokenDropped DEF LinkInv, LinkNode
    <3>2. ~Without(net[s][n], Asking(n)[s][n])
      BY <2>1, <2>2, WithoutElements DEF Fly
    <3>. QED
      BY <3>1, <3>2 DEF NoToken
  <2>4. isSetup[n]
    BY <2>3 DEF LinkInv, LinkNode
  <2>5. p \notin Asking(n)[x][y]
    BY <2>3, WithoutElements DEF NoToken, Fly
  <2>. QED
    BY <1>2, <2>4, <2>5 DEF Asking, Fit
<1>. QED
  BY <1>2, <1>3, <1>4, <1>5 DEF Fit, Owned

\* What is said of a packet is true when a handler sends it.
LEMMA FitSent ==
    ASSUME Unrepeated, LinkInv, NEW s \in Nodes, NEW n \in Nodes, Receive(s, n),
           net[s][n] # <<>>, NEW y \in Nodes, NEW msgs \in Seq(Packet),
           Sends(s, n, Head(net[s][n]), y, msgs), NEW p \in Elements(msgs)
    PROVE  Fit(n, y, p)'
<1> DEFINE h == Head(net[s][n])
<1>1. TypeOK /\ net \in Nets /\ h = Head(net[s][n])
  BY DEF LinkInv, TypeInv, TypeOK, Nets
<1>2. Fit(s, n, h) /\ NoAddr \notin Nodes
  BY <1>1, AfterDropped, NodesAssumption DEF LinkInv
<1>3. /\ \A m \in Nodes : ~isSetup[m] => ~isSetup'[m]
      /\ h.type # "ADVERTISE" => \A m \in Nodes : dst'[m][PARENT_ID] = dst[m][PARENT_ID]
  BY <1>1, HandlerFrame
<1>4. Owned(n, My(n)) /\ (cached[n] => ~isSetup[n])
  BY DEF LinkInv, LinkNode
<1> HIDE DEF h
<1>5. CASE h.type = "SETUP" /\ y = s /\ SetupAnswer(s, n, p)
  <2>1. CASE p.type = "ADVERTISE"
    BY <2>1 DEF Fit
  <2>2. CASE p.type = "ID" /\ p.body[1].ip = s
    BY <1>5, <2>2 DEF Fit
  <2>3. CASE /\ p.type = "INITIAL_STATUS" /\ cached[n]
             /\ p.body # <<>> => p.body[1] \in NewChild(s, n)
    <3>1. Arrived(s, n, "SETUP") /\ Owned(s, Body(s, n)[1])
      <4>1. up[n] = "up"
        BY <1>1, HandlerSends
      <4>. QED
        BY <1>1, <1>2, <1>5, <4>1 DEF Arrived, Body, Fit
    <3>2. p.body # <<>> => Owned(s, p.body[1])
      BY <1>1, <2>3, <3>1, NewChildOwned
    <3>3. dst'[s][PARENT_ID] = n /\ ~isSetup'[n]
      BY <1>2, <1>3, <1>4, <1>5, <2>3 DEF Fit
    <3>. QED
      BY <1>5, <2>3, <3>2, <3>3 DEF Fit, Owned
  <2>. QED
    BY <1>5, <2>1, <2>2, <2>3 DEF SetupAnswer
<1>6. CASE h.type = "ADVERTISE" /\ p = SendSetup(n) /\ y = dst'[n][PARENT_ID]
  <2>1. p.type = "SETUP" /\ Owned(n, p.body[1])
    BY <1>1, <1>4, <1>6, NodeParts DEF SendSetup, Msg, Owned, Self, ZeroStatus, Status
  <2>. QED
    BY <1>6, <2>1 DEF Fit, Owned
<1>7. CASE /\ h.type = "CONNECT" /\ y = h.body[1].ip
           /\ p.type \in {"UNACCEPT", "ACCEPT"}
  <2>1. y = s /\ ~isSetup[s]
    BY <1>2, <1>7 DEF Fit, Owned, Self
  <2>. QED
    BY <1>3, <1>7, <2>1 DEF Fit
<1>8. CASE h.type \in {"UNACCEPT", "DETACH"} /\ p = SendConnect(n)
  <2>1. p.type = "CONNECT" /\ p.body[1] = My(n)
    BY <1>8 DEF SendConnect, Msg
  <2>. QED
    BY <1>2, <1>3, <1>4, <1>8, <2>1 DEF Fit, Owned
<1>9. CASE h.type = "DEPART" /\ y = GtoPIP(n, h.body[1]) /\ p.type = "DETACH"
  <2>1. y = s /\ ~isSetup[s]
    BY <1>2, <1>9 DEF Fit, Owned, Self, GtoPIP
  <2>. QED
    BY <1>3, <1>9, <2>1 DEF Fit
<1>10. CASE p.type = "RES_LIST"
  BY <1>10 DEF Fit
<1>. QED
  <2>1. \A q : p \in Elements(<<q>>) => p = q
    BY FewElements
  <2>2. SendUnaccept(n).type = "UNACCEPT" /\ Msg("ACCEPT", <<My(n)>>).type = "ACCEPT"
        /\ Msg("DETACH", <<>>).type = "DETACH"
    BY DEF SendUnaccept, Msg
  <2>3. msgs # <<>>
    BY FewElements
  <2>. QED
    BY <1>1, <1>5, <1>6, <1>7, <1>8, <1>9, <1>10, <2>1, <2>2, <2>3 DEF Sends

\* What a packet that was sent to y counts for, token by token.
LEMMA SentTokens ==
    ASSUME NEW s \in Nodes, NEW n \in Nodes, NEW h, NEW a, NEW msgs \in Seq(Packet),
           Sends(s, n, h, a, msgs), NEW m \in Nodes, NEW b \in Nodes
    PROVE  /\ \/ Without(To(a, msgs)[b], Asking(m)[n][b])
              \/ h.type = "SETUP" /\ m = s /\ b = s
              \/ h.type = "ADVERTISE" /\ m = n /\ b = a
           /\ Once(To(a, msgs)[b], Asking(m)[n][b])
<1>1. \A q, T : Elements(q) \cap T = {} => Without(q, T) /\ Once(q, T)
  BY WithoutElements DEF Without, Once
<1>2. Elements(To(a, msgs)[b]) = IF b = a /\ up[a] = "up" THEN Elements(msgs) ELSE {}
  BY ToElements
<1>3. CASE ~(b = a /\ up[a] = "up")
  BY <1>1, <1>2, <1>3
<1>4. CASE b = a /\ up[a] = "up"
  <2>1. To(a, msgs)[b] = msgs
    BY <1>4 DEF To
  <2>2. CASE /\ h.type = "SETUP" /\ a = s /\ Once(msgs, Verdicts)
             /\ \A p \in Elements(msgs) : SetupAnswer(s, n, p)
    <3>1. \A p \in Elements(msgs) : p.type \in {"ADVERTISE", "ID", "INITIAL_STATUS"}
      BY <2>2 DEF SetupAnswer
    <3>2. \A p \in Elements(msgs) \cap Asking(m)[n][b] : p \in Verdicts /\ b = m
      BY <3>1 DEF Asking, Verdicts
    <3>3. Once(msgs, Asking(m)[n][b])
      BY <2>2, <3>2 DEF Once, Elements
    <3>4. m # s => Without(msgs, Asking(m)[n][b])
      BY <1>1, <1>4, <2>2, <3>2
    <3>. QED
      BY <1>4, <2>1, <2>2, <3>3, <3>4
  <2>3. CASE h.type = "ADVERTISE" /\ msgs = <<SendSetup(n)>>
    <3>1. SendSetup(n).type = "SETUP"
      BY DEF SendSetup, Msg
    <3>2. m # n => Elements(msgs) \cap Asking(m)[n][b] = {}
      BY <2>3, <3>1, FewElements DEF Asking
    <3>3. Once(msgs, Asking(m)[n][b])
      BY <2>3 DEF Once
    <3>. QED
      BY <1>1, <1>4, <2>1, <2>3, <3>2, <3>3
  <2>4. CASE \A p \in Elements(msgs) : p.type \notin {"SETUP", "ADVERTISE", "INITIAL_STATUS"}
    <3>1. Elements(msgs) \cap Asking(m)[n][b] = {}
      BY <2>4 DEF Asking
    <3>. QED
      BY <1>1, <2>1, <3>1
  <2>. QED
    BY <2>2, <2>3, <2>4, FewElements DEF Sends, SendUnaccept, SendConnect, Msg
<1>. QED
  BY <1>3, <1>4

\* A handler moves a request, ends it, or leaves it where it is.
LEMMA HandlerToken ==
    ASSUME LinkInv, NEW s \in Nodes, NEW n \in Nodes, Receive(s, n), NEW m \in Nodes
    PROVE  /\ OneToken(net', Asking(m))
           /\ ~isSetup'[m] \/ up'[m] = "off" => NoToken(net', Asking(m))
<1>1. TypeOK
  BY DEF LinkInv, TypeInv
<1>2. PICK a \in Addrs, msgs \in Seq(Packet) :
          /\ up[n] = "up" /\ net[s][n] # <<>> /\ Reply(s, n, To(a, msgs))
          /\ Sends(s, n, Head(net[s][n]), a, msgs)
  BY <1>1, HandlerSends
<1> DEFINE h == Head(net[s][n])
           w == Dropped(net, s, n)
           out == To(a, msgs)
           F == Asking(m)
<1>3. /\ net' = Sent(w, n, out) /\ net \in Nets /\ w \in Nets /\ out \in Outs
      /\ h \in Fly(net, s, n)
  BY <1>1, <1>2, AfterHandler
<1>4. /\ OneToken(net, F) /\ (~isSetup[m] \/ up[m] = "off" => NoToken(net, F))
      /\ OneToken(w, F) /\ (NoToken(net, F) => NoToken(w, F))
      /\ h \in F[s][n] => NoToken(w, F)
  BY <1>2, <1>3, TokenDropped DEF LinkInv, LinkNode
<1>5. h \in F[s][n] => ~NoToken(net, F)
  BY <1>3, WithoutElements DEF NoToken, Fly
<1>6. h \in Packet
  <2>1. net[s][n] \in Seq(Packet)
    BY <1>3 DEF Nets
  <2>. QED
    BY <1>3, <2>1 DEF Fly, Elements
<1>7. /\ \A b \in Nodes : \/ Without(out[b], F[n][b])
                          \/ h.type = "SETUP" /\ m = s /\ b = s
                          \/ h.type = "ADVERTISE" /\ m = n /\ b = a
      /\ \A b \in Nodes : Once(out[b], F[n][b])
  BY <1>2, SentTokens
<1>8. /\ IF h.type = "INITIAL_STATUS" THEN ~isSetup'[n] ELSE isSetup' = isSetup
      /\ \A k \in Nodes \ {n} : isSetup'[k] = isSetup[k]
      /\ \A k \in Nodes : up'[k] = "off" => up[k] = "off" /\ k # n
  BY <1>1, <1>2, HandlerFrame
<1>9. \/ h.type = "SETUP" /\ m = s
      \/ h.type \in {"ADVERTISE", "INITIAL_STATUS"} /\ m = n
      => h \in F[s][n]
  BY <1>6 DEF Asking
<1> HIDE DEF h, w, out, F
<1>10. CASE \A b \in Nodes : Without(out[b], F[n][b])
  <2>1. OneToken(net', F) /\ (NoToken(w, F) => NoToken(net', F))
    BY <1>3, <1>4, <1>10, TokenSentNone
  <2>2. ~isSetup'[m] => ~isSetup[m] \/ (h.type = "INITIAL_STATUS" /\ m = n)
    BY <1>8
  <2>. QED
    BY <1>4, <1>8, <1>9, <2>1, <2>2 DEF F
<1>11. ASSUME NEW c \in Nodes, ~Without(out[c], F[n][c])
       PROVE  /\ OneToken(net', F)
              /\ ~isSetup'[m] \/ up'[m] = "off" => NoToken(net', F)
  <2>1. \/ h.type = "SETUP" /\ m = s /\ c = s
        \/ h.type = "ADVERTISE" /\ m = n /\ c = a
    BY <1>7, <1>11
  <2>2. \A b \in Nodes \ {c} : Without(out[b], F[n][b])
    BY <1>7, <2>1
  <2>3. NoToken(w, F) /\ ~NoToken(net, F)
    BY <1>4, <1>5, <1>9, <2>1
  <2>4. OneToken(net', F)
    BY <1>3, <1>7, <2>2, <2>3, TokenSentOne
  <2>5. isSetup[m] /\ up[m] # "off" /\ isSetup'[m] = isSetup[m]
    BY <1>4, <1>8, <2>1, <2>3
  <2>. QED
    BY <1>8, <2>4, <2>5
<1>. QED
  BY <1>10, <1>11 DEF F

\* A node after a handler.
LEMMA HandlerNode ==
    ASSUME Unrepeated, LinkInv, NEW s \in Nodes, NEW n \in Nodes, Receive(s, n),
           NEW m \in Nodes
    PROVE  LinkNode(m)'
<1> DEFINE h == Head(net[s][n])
<1>1. TypeOK /\ LinkNode(m) /\ LinkNode(n)
  BY DEF LinkInv, TypeInv
<1>2. up[n] = "up" /\ net[s][n] # <<>> /\ Fit(s, n, h) /\ NoAddr \notin Nodes
  <2>1. net \in Nets /\ up[n] = "up" /\ net[s][n] # <<>>
    BY <1>1, HandlerSends DEF TypeOK, Nets
  <2>. QED
    BY <2>1, AfterDropped, NodesAssumption DEF LinkInv
<1>3. /\ \A k \in Nodes \ {n} :
                 /\ up'[k] = up[k] /\ isSetup'[k] = isSetup[k]
                 /\ isRetry'[k] = isRetry[k] /\ streaming'[k] = streaming[k]
                 /\ connected'[k] = connected[k] /\ childNum'[k] = childNum[k]
                 /\ status'[k] = status[k] /\ dst'[k] = dst[k]
      /\ up'[n] \in {up[n], "dead"} /\ cached' = cached
      /\ h.type # "ADVERTISE" => dst'[n][PARENT_ID] = dst[n][PARENT_ID]
      /\ IF h.type = "INITIAL_STATUS" THEN ~isSetup'[n] ELSE isSetup' = isSetup
  BY <1>1, HandlerFrame
<1>4. \A k \in Nodes : ~isSetup[k] => ~isSetup'[k]
  BY <1>3
<1>5. h.type = "ADVERTISE" => isSetup[n]
  <2>1. net[s][n] \in Seq(Packet)
    BY <1>1 DEF TypeOK
  <2>2. h \in Packet /\ h \in Fly(net, s, n)
    BY <1>2, <2>1, TailPlace DEF Fly, Elements
  <2>3. h.type = "ADVERTISE" => h \in Asking(n)[s][n]
    BY <2>2 DEF Asking
  <2>. QED
    BY <1>1, <2>2, <2>3, WithoutElements DEF LinkNode, NoToken, Fly
<1>6. isSetup'[m] => /\ ~cached'[m] /\ ~streaming'[m] /\ ~isRetry'[m]
                     /\ connected'[m] = 0 /\ childNum'[m] = 0
  <2>1. CASE m # n
    BY <1>1, <1>3, <2>1 DEF LinkNode
  <2>2. CASE m = n /\ isSetup'[n]
    <3>1. isSetup[n] /\ ~cached[n] /\ h.type # "INITIAL_STATUS"
      BY <1>1, <1>3, <1>4, <2>2 DEF LinkNode
    <3>2. h.type \notin {"ACCEPT", "DEPART", "DETACH"}
      BY <1>2, <3>1 DEF Fit
    <3>3. UNCHANGED <<connected, childNum, isRetry, streaming>>
      BY <3>1, <3>2, HandlerIdle
    <3>. QED
      BY <1>1, <1>3, <2>2, <3>1, <3>3 DEF LinkNode
  <2>. QED
    BY <2>1, <2>2
<1>7. up'[m] = "off" => isSetup'[m] /\ dst'[m][PARENT_ID] = Origin
  BY <1>1, <1>2, <1>3 DEF LinkNode
<1>8. ~isSetup'[m] /\ dst'[m][PARENT_ID] \in Nodes => ~isSetup'[dst'[m][PARENT_ID]]
  <2>1. CASE m # n
    BY <1>1, <1>3, <1>4, <2>1 DEF LinkNode
  <2>2. CASE m = n /\ h.type = "INITIAL_STATUS"
    BY <1>2, <1>3, <1>4, <2>2 DEF Fit
  <2>3. CASE m = n /\ h.type # "INITIAL_STATUS"
    BY <1>1, <1>3, <1>4, <1>5, <2>3 DEF LinkNode
  <2>. QED
    BY <2>1, <2>2, <2>3
<1>9. Owned(m, My(m)')
  <2>1. CASE m # n
    BY <1>1, <1>3, <2>1 DEF LinkNode, My
  <2>2. CASE m = n
    <3>1. My(n) \in Status /\ Owned(n, My(n))
      BY <1>1, NodeParts DEF LinkNode
    <3>2. CASE My(n)' = My(n)
      BY <2>2, <3>1, <3>2
    <3>3. CASE /\ h.type = "ID"
               /\ My(n)' = [My(n) EXCEPT !.id = h.body[1].id, !.ip = h.body[1].ip]
      BY <1>2, <2>2, <3>1, <3>3 DEF Fit, Owned, Self, Status
    <3>4. CASE h.type = "INITIAL_STATUS" /\ My(n)' \in RecordAt(h.body, 1)
      <4>1. h.body # <<>> /\ 1 <= Len(h.body) => Owned(n, h.body[1])
        BY <1>2, <3>4 DEF Fit
      <4>2. 1 <= Len(h.body) => h.body # <<>>
        OBVIOUS
      <4>. QED
        BY <2>2, <3>4, <4>1, <4>2 DEF RecordAt, Unrepeated, Owned, Self
    <3>5. CASE My(n)' = [My(n) EXCEPT !.layer = (h.body[1].layer + 1) % LayerSpace]
      BY <2>2, <3>1, <3>5 DEF Owned, Self, Status
    <3>. QED
      BY <1>1, <3>2, <3>3, <3>4, <3>5, HandlerMy
  <2>. QED
    BY <2>1, <2>2
<1>10. Owned(m, My(m))'
  BY <1>9 DEF Owned, Self
<1>. QED
  BY <1>6, <1>7, <1>8, <1>10, HandlerToken DEF LinkNode

\* No slot of an idle node is connected.
LEMMA NoBits == \A i \in Slots : ~Bit(0, i)
BY DEF Slots, Bit, Weight

\* What the TIME thread and main leave alone.
LEMMA TimerFrame ==
    ASSUME TypeOK, NEW n \in Nodes, TimeProcess(n) \/ Start(n)
    PROVE  /\ UNCHANGED <<isSetup, dst, status>>
           /\ up' = up \/ (Start(n) /\ up' = [up EXCEPT ![n] = "up"])
<1>1. CASE Start(n)
  BY <1>1 DEF Start, slotVars, flagVars
<1>2. CASE SetupTimer(n) \/ (\E i \in Slots : ExpireSlot(n, i))
           \/ ExpireParent(n) \/ RetryTimer(n)
  BY <1>2 DEF SetupTimer, ExpireSlot, ExpireParent, RetryTimer, nodeVars,
     slotVars, flagVars
<1>3. CASE ListTimer(n) \/ DepartTimer(n) \/ CacheFull(n) \/ CacheDrains(n)
  BY <1>3 DEF ListTimer, DepartTimer, CacheFull, CacheDrains, nodeVars,
     slotVars, flagVars
<1>. QED
  BY <1>1, <1>2, <1>3 DEF TimeProcess

\* What a TIME thread sends fits, and so does what was under way.
LEMMA TimerFit ==
    ASSUME LinkInv, NEW n \in Nodes, TimeProcess(n) \/ Start(n),
           NEW x \in Nodes, NEW y \in Nodes, NEW p \in Fly(net', x, y)
    PROVE  Fit(x, y, p)'
<1>1. TypeOK /\ LinkNode(n) /\ NoAddr \notin Nodes
  BY NodesAssumption DEF LinkInv, TypeInv
<1>2. \A q : Fit(x, y, q) => Fit(x, y, q)'
  BY <1>1, TimerFrame DEF Fit, Owned, Self
<1>3. p \in Fly(net, x, y) => Fit(x, y, p)
  BY DEF LinkInv
<1>4. SUFFICES ASSUME p \notin Fly(net, x, y)
               PROVE  Fit(x, y, p)
  BY <1>2, <1>3
<1>5. PICK out \in Outs :
                /\ Send(n, out)
                /\ \/ SetupTimer(n) /\ out = To(dst[n][PARENT_ID], <<SendSetup(n)>>)
                   \/ Start(n) /\ out = To(Origin, <<SendSetup(n)>>)
                   \/ /\ ExpireParent(n) \/ RetryTimer(n)
                      /\ \E a \in Addrs : out = To(a, <<SendConnect(n)>>)
                   \/ /\ ListTimer(n)
                      /\ \A b \in Nodes : \A q \in Elements(out[b]) : q.type = "REQ_LIST"
                   \/ /\ DepartTimer(n)
                      /\ out = To(dst[n][PARENT_ID], <<Msg("DEPART", <<My(n)>>)>>)
  BY <1>1, <1>4, TimerSends
<1>6. x = n /\ p \in Elements(out[y])
  BY <1>1, <1>4, <1>5, AfterTimer
<1>7. ASSUME NEW a, NEW q, <<q>> \in Seq(Packet), out = To(a, <<q>>)
      PROVE  p = q /\ y = a
  <2>1. \A r \in Elements(To(a, <<q>>)[y]) : r = q /\ y = a
    BY <1>7, ToOne
  <2>. QED
    BY <1>6, <1>7, <2>1
<1>8. Owned(n, My(n)) /\ (HasParent(n) \/ isRetry[n] => ~isSetup[n])
  <2>1. PARENT_ID \in Slots
    BY DEF PARENT_ID, Slots
  <2>. QED
    BY <1>1, <2>1, NoBits DEF LinkNode, HasParent
<1>9. ASSUME out = To(dst[n][PARENT_ID], <<SendSetup(n)>>)
             \/ (Start(n) /\ out = To(Origin, <<SendSetup(n)>>))
      PROVE  Fit(x, y, p)
  <2>1. p = SendSetup(n) /\ (y = dst[n][PARENT_ID] \/ (Start(n) /\ y = Origin))
    BY <1>1, <1>7, <1>9, SendSetupType
  <2>2. p.type = "SETUP" /\ Owned(n, p.body[1])
    BY <1>1, <1>8, <2>1, NodeParts DEF SendSetup, Msg, Owned, Self, ZeroStatus, Status
  <2>3. y = dst[n][PARENT_ID]
    BY <1>1, <2>1 DEF Start, LinkNode
  <2>. QED
    BY <1>6, <2>2, <2>3 DEF Fit
<1>10. ASSUME ExpireParent(n) \/ RetryTimer(n), NEW a \in Addrs,
              out = To(a, <<SendConnect(n)>>)
       PROVE  Fit(x, y, p)
  <2>1. p.type = "CONNECT" /\ p.body[1] = My(n)
    <3>1. p = SendConnect(n)
      BY <1>1, <1>7, <1>10, ConnectTypes
    <3>. QED
      BY <3>1 DEF SendConnect, Msg
  <2>2. ~isSetup[n]
    BY <1>8, <1>10 DEF ExpireParent, RetryTimer, Overdue, Connected, HasParent
  <2>. QED
    BY <1>6, <1>8, <2>1, <2>2 DEF Fit
<1>11. ASSUME \A b \in Nodes : \A q \in Elements(out[b]) : q.type = "REQ_LIST"
       PROVE  Fit(x, y, p)
  BY <1>6, <1>11 DEF Fit
<1>12. ASSUME DepartTimer(n), out = To(dst[n][PARENT_ID], <<Msg("DEPART", <<My(n)>>)>>)
       PROVE  Fit(x, y, p)
  <2>1. <<Msg("DEPART", <<My(n)>>)>> \in Seq(Packet)
    BY <1>1, NodeParts, OneRecord DEF Types
  <2>2. p.type = "DEPART" /\ p.body[1] = My(n) /\ y = dst[n][PARENT_ID]
    BY <1>7, <1>12, <2>1 DEF Msg
  <2>3. ~isSetup[n] /\ ~isSetup[y]
    BY <1>1, <1>8, <1>12, <2>2 DEF DepartTimer, Departs, LinkNode
  <2>. QED
    BY <1>6, <1>8, <2>2, <2>3 DEF Fit
<1>. QED
  BY <1>5, <1>9, <1>10, <1>11, <1>12

\* Under Prompt the SETUP is sent again when none is under way.
LEMMA SetupAgain ==
    ASSUME Unrepeated, LinkInv, NEW n \in Nodes, SetupTimer(n),
           dst[n][PARENT_ID] \in Nodes, up[dst[n][PARENT_ID]] = "up"
    PROVE  NoToken(net, Asking(n))
<1>1. NoAddr \notin Nodes /\ "resend" \in Kinds
  BY NodesAssumption DEF Kinds
<1>2. Spend("resend") /\ Timely(n)
  BY <1>1 DEF SetupTimer
<1>3. Prompt
  BY <1>1, <1>2, Unaffordable DEF Unrepeated, LinkInv
<1>4. \A m \in Nodes : net[m][n] = <<>> /\ (net[n][m] = <<>> \/ up[m] # "up")
  BY <1>2, <1>3 DEF Timely
<1>5. ASSUME NEW a \in Nodes, NEW b \in Nodes, NEW p \in Fly(net, a, b),
             p \in Asking(n)[a][b]
      PROVE  FALSE
  <2>1. b # n
    BY <1>4, <1>5, FewElements DEF Fly
  <2>2. a = n /\ p.type = "SETUP"
    BY <1>5, <2>1 DEF Asking
  <2>3. b = dst[n][PARENT_ID]
    BY <1>5, <2>2 DEF LinkInv, Fit
  <2>. QED
    BY <1>4, <1>5, <2>2, <2>3, FewElements DEF Fly
<1>. QED
  BY <1>5, WithoutElements DEF NoToken, Fly

\* A request appears when a process starts, or again when it was lost.
LEMMA TimerToken ==
    ASSUME Unrepeated, LinkInv, NEW n \in Nodes, TimeProcess(n) \/ Start(n),
           NEW m \in Nodes
    PROVE  /\ OneToken(net', Asking(m))
           /\ ~isSetup'[m] \/ up'[m] = "off" => NoToken(net', Asking(m))
<1> DEFINE F == Asking(m)
<1>1. TypeOK /\ NoAddr \notin Nodes
  BY NodesAssumption DEF LinkInv, TypeInv
<1>2. OneToken(net, F) /\ (~isSetup[m] \/ up[m] = "off" => NoToken(net, F))
  BY DEF LinkInv, LinkNode
<1>3. isSetup' = isSetup /\ (up'[m] = "off" => up[m] = "off")
  BY <1>1, TimerFrame DEF TypeOK
<1>4. CASE UNCHANGED net
  BY <1>2, <1>3, <1>4
<1>5. ASSUME NEW out \in Outs, Send(n, out)
      PROVE  net' = Sent(net, n, out) /\ net \in Nets
  BY <1>1, <1>5, AfterTimer
<1>6. ASSUME NEW out \in Outs, Send(n, out), \A b \in Nodes : Without(out[b], F[n][b])
      PROVE  /\ OneToken(net', F)
             /\ ~isSetup'[m] \/ up'[m] = "off" => NoToken(net', F)
  BY <1>2, <1>3, <1>5, <1>6, TokenSentNone
<1>7. ASSUME NEW out \in Outs, Send(n, out),
             \A b \in Nodes : \A p \in Elements(out[b]) :
                p.type \in {"CONNECT", "DEPART", "REQ_LIST"}
      PROVE  /\ OneToken(net', F)
             /\ ~isSetup'[m] \/ up'[m] = "off" => NoToken(net', F)
  <2>1. \A b \in Nodes : Without(out[b], F[n][b])
    BY <1>7, WithoutElements DEF Asking
  <2>. QED
    BY <1>6, <1>7, <2>1
<1>8. ASSUME NEW c \in Addrs, Send(n, To(c, <<SendSetup(n)>>)),
             \/ SetupTimer(n) /\ c = dst[n][PARENT_ID]
             \/ Start(n) /\ c = Origin
      PROVE  /\ OneToken(net', F)
             /\ ~isSetup'[m] \/ up'[m] = "off" => NoToken(net', F)
  <2> DEFINE out == To(c, <<SendSetup(n)>>)
  <2>1. /\ out \in Outs
        /\ \A b \in Nodes : \A p \in Elements(out[b]) :
              p = SendSetup(n) /\ b = c /\ up[c] = "up"
    BY <1>1, SendSetupType, ToOne
  <2>2. SendSetup(n).type = "SETUP"
    BY DEF SendSetup, Msg
  <2>3. out[c] = <<SendSetup(n)>> \/ c \notin Nodes \/ up[c] # "up"
    BY DEF To
  <2>4. Send(n, out)
    BY <1>8
  <2> HIDE DEF out
  <2>5. CASE m # n \/ c \notin Nodes \/ up[c] # "up"
    <3>1. \A b \in Nodes : Without(out[b], F[n][b])
      BY <2>1, <2>2, <2>5, WithoutElements DEF Asking
    <3>. QED
      BY <1>6, <2>1, <2>4, <3>1
  <2>6. CASE m = n /\ c \in Nodes /\ up[c] = "up"
    <3>1. NoToken(net, F)
      BY <1>2, <1>8, <2>6, SetupAgain DEF Start
    <3>2. Once(out[c], F[n][c])
      BY <2>3, <2>6 DEF Once
    <3>3. \A b \in Nodes \ {c} : Without(out[b], F[n][b])
      BY <2>1, WithoutElements
    <3>4. OneToken(net', F)
      BY <1>5, <2>1, <2>4, <2>6, <3>1, <3>2, <3>3, TokenSentOne
    <3>5. isSetup[n] /\ up'[n] # "off"
      <4>1. CASE SetupTimer(n)
        BY <4>1 DEF SetupTimer, nodeVars
      <4>2. CASE Start(n)
        BY <1>1, <4>2 DEF Start, TypeOK, LinkInv, LinkNode
      <4>. QED
        BY <1>8, <4>1, <4>2
    <3>. QED
      BY <1>3, <2>6, <3>4, <3>5
  <2>. QED
    BY <2>5, <2>6
<1>9. CASE ~UNCHANGED net
  <2>1. PICK out \in Outs :
                /\ Send(n, out)
                /\ \/ SetupTimer(n) /\ out = To(dst[n][PARENT_ID], <<SendSetup(n)>>)
                   \/ Start(n) /\ out = To(Origin, <<SendSetup(n)>>)
                   \/ \E a \in Addrs : out = To(a, <<SendConnect(n)>>)
                   \/ \A b \in Nodes : \A q \in Elements(out[b]) : q.type = "REQ_LIST"
                   \/ out = To(dst[n][PARENT_ID], <<Msg("DEPART", <<My(n)>>)>>)
    BY <1>1, <1>9, TimerSends
  <2>2. dst[n][PARENT_ID] \in Addrs /\ Origin \in Addrs
    BY <1>1, Values DEF TypeOK, PARENT_ID
  <2>3. <<SendConnect(n)>> \in Seq(Packet) /\ <<Msg("DEPART", <<My(n)>>)>> \in Seq(Packet)
    BY <1>1, ConnectTypes, NodeParts, OneRecord DEF Types
  <2>4. SendConnect(n).type = "CONNECT" /\ Msg("DEPART", <<My(n)>>).type = "DEPART"
    BY DEF SendConnect, Msg
  <2>5. ASSUME NEW a, out = To(a, <<SendConnect(n)>>) \/ out = To(a, <<Msg("DEPART", <<My(n)>>)>>)
        PROVE  \A b \in Nodes : \A p \in Elements(out[b]) : p.type \in {"CONNECT", "DEPART"}
    <3>1. CASE out = To(a, <<SendConnect(n)>>)
      <4>1. \A b \in Nodes : \A p \in Elements(out[b]) : p = SendConnect(n)
        BY <2>3, <3>1, ToOne
      <4>. QED
        BY <2>4, <4>1
    <3>2. CASE out = To(a, <<Msg("DEPART", <<My(n)>>)>>)
      <4>1. \A b \in Nodes : \A p \in Elements(out[b]) : p = Msg("DEPART", <<My(n)>>)
        BY <2>3, <3>2, ToOne
      <4>. QED
        BY <2>4, <4>1
    <3>. QED
      BY <2>5, <3>1, <3>2
  <2>. QED
    BY <1>7, <1>8, <2>1, <2>2, <2>5
<1>. QED
  BY <1>4, <1>9 DEF F

\* A node after a pass of a TIME thread.
LEMMA TimerNode ==
    ASSUME Unrepeated, LinkInv, NEW n \in Nodes, TimeProcess(n) \/ Start(n),
           NEW m \in Nodes
    PROVE  LinkNode(m)'
<1>1. TypeOK /\ LinkNode(m) /\ LinkNode(n)
  BY DEF LinkInv, TypeInv
<1>2. UNCHANGED <<isSetup, dst, status>> /\ (up'[m] = "off" => up[m] = "off")
  BY <1>1, TimerFrame DEF TypeOK
<1>3. isSetup[m] => /\ ~cached'[m] /\ ~streaming'[m] /\ ~isRetry'[m]
                    /\ connected'[m] = 0 /\ childNum'[m] = 0
  <2>1. isSetup[n] => ~\E i \in Slots : ExpireSlot(n, i)
    BY <1>1, NoBits DEF ExpireSlot, Overdue, Connected, LinkNode
  <2>2. isSetup[n] => ~ExpireParent(n) /\ ~RetryTimer(n)
    BY <1>1, NoBits DEF ExpireParent, RetryTimer, Overdue, Connected, LinkNode
  <2>3. CASE ExpireParent(n) \/ RetryTimer(n) \/ \E i \in Slots : ExpireSlot(n, i)
    BY <1>1, <2>1, <2>2, <2>3 DEF ExpireParent, RetryTimer, ExpireSlot, NodeRetry,
       LinkNode, TypeOK, linkVars, flagVars
  <2>4. CASE SetupTimer(n) \/ ListTimer(n) \/ DepartTimer(n) \/ Start(n)
    BY <1>1, <2>4 DEF SetupTimer, ListTimer, DepartTimer, Start, LinkNode,
       linkVars, flagVars
  <2>5. CASE CacheFull(n) \/ CacheDrains(n)
    BY <1>1, <2>5 DEF CacheFull, CacheDrains, LinkNode, TypeOK, linkVars, flagVars
  <2>. QED
    BY <2>3, <2>4, <2>5 DEF TimeProcess
<1>4. Owned(m, My(m))'
  BY <1>1, <1>2 DEF LinkNode, Owned, Self, My
<1>. QED
  BY <1>1, <1>2, <1>3, <1>4, TimerToken DEF LinkNode

\* Some queues emptied.
LEMMA TokenCleared ==
    ASSUME NEW F, \A a, b \in Nodes : net'[a][b] = <<>> \/ net'[a][b] = net[a][b]
    PROVE  /\ NoToken(net, F) => NoToken(net', F)
           /\ OneToken(net, F) => OneToken(net', F)
<1>1. \A T : Without(<<>>, T) /\ Once(<<>>, T)
  BY DEF Without, Once
<1>2. \A a, b \in Nodes : Without(net[a][b], F[a][b]) => Without(net'[a][b], F[a][b])
  BY <1>1
<1>3. \A a, b \in Nodes : Once(net[a][b], F[a][b]) => Once(net'[a][b], F[a][b])
  BY <1>1
<1>. QED
  BY <1>2, <1>3 DEF NoToken, OneToken

\* A packet lost or overtaken.
LEMMA TokenFault ==
    ASSUME TypeOK, NEW s \in Nodes, NEW n \in Nodes, Lose(s, n) \/ Reorder(s, n), NEW F
    PROVE  /\ NoToken(net, F) => NoToken(net', F)
           /\ OneToken(net, F) => OneToken(net', F)
<1> DEFINE h == Head(net[s][n])
           w == Dropped(net, s, n)
           out == [b \in Nodes |-> IF b = n THEN <<h>> ELSE <<>>]
<1>1. net \in Nets /\ net[s][n] \in Seq(Packet)
  BY DEF TypeOK, Nets
<1>2. net[s][n] # <<>>
  BY <1>1 DEF Lose, Reorder
<1>3. /\ w \in Nets /\ (NoToken(net, F) => NoToken(w, F))
      /\ OneToken(net, F) => OneToken(w, F) /\ (h \in F[s][n] => NoToken(w, F))
  BY <1>1, <1>2, AfterDropped, TokenDropped
<1>4. CASE Lose(s, n)
  <2>1. net' = w
    BY <1>4 DEF Lose, Dropped
  <2>. QED
    BY <1>3, <2>1
<1>5. CASE Reorder(s, n)
  <2>1. <<h>> \in Seq(Packet)
    BY <1>1, <1>2, TailPlace
  <2>2. out \in Outs
    BY <2>1 DEF Outs
  <2>3. net' = Sent(w, s, out)
    <3>1. net' = [net EXCEPT ![s][n] = Append(Tail(net[s][n]), h)]
      BY <1>5 DEF Reorder
    <3>2. Append(Tail(net[s][n]), h) = Tail(net[s][n]) \o <<h>>
      BY <1>1, <1>2
    <3>3. \A q \in Seq(Packet) : q \o <<>> = q
      OBVIOUS
    <3>4. \A a, b \in Nodes : w[a][b] = IF a = s /\ b = n THEN Tail(net[a][b]) ELSE net[a][b]
      BY <1>1 DEF Dropped, Nets
    <3> HIDE DEF w
    <3>5. \A a, b \in Nodes : net'[a][b] = IF a = s THEN w[a][b] \o out[b] ELSE w[a][b]
      <4>1. \A a, b \in Nodes : w[a][b] \in Seq(Packet)
        BY <1>3 DEF Nets
      <4>2. \A a, b \in Nodes : net'[a][b] =
               IF a = s /\ b = n THEN Tail(net[s][n]) \o <<h>> ELSE net[a][b]
        BY <1>1, <3>1, <3>2 DEF Nets
      <4>. QED
        <5>1. ASSUME NEW a \in Nodes, NEW b \in Nodes, a = s
              PROVE  net'[a][b] = w[a][b] \o out[b]
          <6>1. CASE b = n
            BY <3>4, <4>2, <5>1, <6>1
          <6>2. CASE b # n
            BY <3>3, <3>4, <4>1, <4>2, <5>1, <6>2
          <6>. QED
            BY <6>1, <6>2
        <5>2. \A a, b \in Nodes : a # s => net'[a][b] = w[a][b]
          BY <3>4, <4>2
        <5>. QED
          BY <5>1, <5>2
    <3>6. net' = [a \in Nodes |-> [b \in Nodes |-> net'[a][b]]]
      BY <1>1, <3>1 DEF Nets
    <3> HIDE DEF out
    <3>. QED
      BY <3>5, <3>6 DEF Sent
  <2>4. \A b \in Nodes : Once(out[b], F[s][b])
    BY DEF Once
  <2>5. \A b \in Nodes \ {n} : Without(out[b], F[s][b])
    BY DEF Without
  <2>6. h \notin F[s][n] => Without(out[n], F[s][n])
    BY DEF Without
  <2>7. h \in F[s][n] => ~NoToken(net, F)
    BY <1>1, <1>2, AfterDropped, WithoutElements DEF NoToken, Fly
  <2> HIDE DEF h, w, out
  <2>8. CASE h \in F[s][n]
    BY <1>3, <2>2, <2>3, <2>4, <2>5, <2>7, <2>8, TokenSentOne
  <2>9. CASE h \notin F[s][n]
    <3>1. \A b \in Nodes : Without(out[b], F[s][b])
      BY <2>5, <2>6, <2>9
    <3>. QED
      BY <1>3, <2>2, <2>3, <3>1, TokenSentNone
  <2>. QED
    BY <2>8, <2>9
<1>. QED
  BY <1>4, <1>5

\* What a fault changes.
LEMMA FaultFrame ==
    ASSUME TypeOK,
           \/ \E s, n \in Nodes : Network(s, n)
           \/ \E n \in Nodes : Crash(n)
    PROVE  /\ UNCHANGED <<status, dst, stamped, connected, childNum, isSetup,
                          isRetry, streaming, cached, nodesList, exceptList>>
           /\ \A m \in Nodes : up'[m] = "off" => up[m] = "off"
<1>1. CASE \E s, n \in Nodes : Network(s, n)
  BY <1>1 DEF Network, Lose, Duplicate, Reorder, Misdirect, nodeVars, slotVars, linkVars,
     flagVars, listVars
<1>2. CASE \E n \in Nodes : Crash(n)
  BY <1>2 DEF Crash, TypeOK, slotVars, linkVars, flagVars, listVars
<1>. QED
  BY <1>1, <1>2

\* Tokens survive the faults, unless packets are repeated.
LEMMA FaultToken ==
    ASSUME TypeOK, BudgetInv, Budget["dup"] = 0, Budget["race"] = 0,
           \/ \E s, n \in Nodes : Network(s, n)
           \/ \E n \in Nodes : Crash(n),
           NEW F
    PROVE  /\ NoToken(net, F) => NoToken(net', F)
           /\ OneToken(net, F) => OneToken(net', F)
<1>1. ASSUME NEW s \in Nodes, NEW n \in Nodes, Network(s, n)
      PROVE  Lose(s, n) \/ Reorder(s, n)
  BY <1>1, Unaffordable, NoRace DEF Network, Duplicate, Kinds
<1>2. ASSUME NEW n \in Nodes, Crash(n)
      PROVE  \A a, b \in Nodes : net'[a][b] = <<>> \/ net'[a][b] = net[a][b]
  BY <1>2 DEF Crash, TypeOK
<1>. QED
  BY <1>1, <1>2, TokenFault, TokenCleared

\* KEEPALIVE only stamps.
LEMMA KeepAliveFrame ==
    ASSUME NEW k \in Nodes, NEW m \in Nodes, NEW n \in Nodes, KeepAlive(k, m, n)
    PROVE  UNCHANGED <<up, status, dst, connected, childNum, isSetup, isRetry,
                       streaming, cached, nodesList, exceptList, net, budget>>
BY DEF KeepAlive, nodeVars, linkVars, flagVars, listVars

\* No request, no neighbour: what the processes start with.
LEMMA LinkInit == Init => LinkInv
<1> SUFFICES ASSUME Init
             PROVE  LinkInv
  OBVIOUS
<1>1. TypeInv /\ BudgetInv
  BY TypeInit, CountInit, BudgetInit DEF TypeInv
<1>2. \A x, y \in Nodes : net[x][y] = <<>>
  BY DEF Init
<1>3. \A F : NoToken(net, F) /\ OneToken(net, F)
  BY <1>2 DEF NoToken, OneToken, Without, Once
<1>4. ASSUME NEW n \in Nodes
      PROVE  LinkNode(n)
  <2>1. ~isRetry[n] /\ connected[n] = 0 /\ childNum[n] = 0
    BY DEF Init
  <2>2. /\ isSetup[n] = (n # Origin) /\ cached[n] = (n = Origin /\ OriginWarm)
        /\ streaming[n] = (n = Origin /\ OriginWarm)
        /\ up[n] = IF n = Origin THEN "up" ELSE "off"
    BY DEF Init
  <2>3. dst[n][PARENT_ID] = IF n # Origin THEN Origin ELSE NoAddr
    BY DEF Init, PARENT_ID
  <2>4. Owned(n, My(n))
    <3>1. My(n) = IF n = Origin THEN OriginStatus ELSE [ZeroStatus EXCEPT !.p = n]
      BY DEF Init, My, MY_ID, PARENT_ID, Slots
    <3>. QED
      BY <3>1 DEF Owned, Self, OriginStatus, ZeroStatus
  <2>5. NoAddr \notin Nodes
    BY NodesAssumption
  <2>6. n = Origin \/ n # Origin
    OBVIOUS
  <2>. QED
    BY <1>3, <2>1, <2>2, <2>3, <2>4, <2>5, <2>6 DEF LinkNode
<1>5. \A x, y \in Nodes : Fly(net, x, y) = {}
  BY <1>2, FewElements DEF Fly
<1>. QED
  BY <1>1, <1>4, <1>5 DEF LinkInv

\* LinkNode is about these parts of the state.
LEMMA LinkSame ==
    ASSUME NEW m \in Nodes, LinkNode(m),
           UNCHANGED <<isSetup, cached, streaming, isRetry, connected, childNum,
                       dst, status>>,
           up'[m] = "off" => up[m] = "off",
           NoToken(net, Asking(m)) => NoToken(net', Asking(m)),
           OneToken(net, Asking(m)) => OneToken(net', Asking(m))
    PROVE  LinkNode(m)'
<1>1. Owned(m, My(m))'
  BY DEF LinkNode, Owned, Self, My
<1>. QED
  BY <1>1 DEF LinkNode

LEMMA LinkNext == ASSUME Unrepeated PROVE LinkInv /\ [Next]_vars => LinkInv'
<1> SUFFICES ASSUME LinkInv, [Next]_vars
             PROVE  LinkInv'
  OBVIOUS
<1> DEFINE AllFit == \A a, b \in Nodes : \A p \in Fly(net, a, b) : Fit(a, b, p)
           AllNodes == \A m \in Nodes : LinkNode(m)
<1>1. TypeInv' /\ BudgetInv'
  BY TypeNext, BudgetNext DEF LinkInv
<1>2. TypeOK /\ BudgetInv /\ AllFit /\ AllNodes
  BY DEF LinkInv, TypeInv
<1> HIDE DEF AllFit, AllNodes
<1>3. ASSUME NEW s \in Nodes, NEW n \in Nodes, Receive(s, n)
      PROVE  AllFit' /\ AllNodes'
  <2>1. AllNodes'
    BY <1>3, HandlerNode DEF AllNodes
  <2>2. PICK a \in Addrs, msgs \in Seq(Packet) :
            /\ up[n] = "up" /\ net[s][n] # <<>> /\ Reply(s, n, To(a, msgs))
            /\ Sends(s, n, Head(net[s][n]), a, msgs)
    BY <1>2, <1>3, HandlerSends
  <2>3. ASSUME NEW x \in Nodes, NEW y \in Nodes, NEW p \in Fly(net', x, y)
        PROVE  Fit(x, y, p)'
    <3>1. \/ p \in Fly(Dropped(net, s, n), x, y)
          \/ x = n /\ y = a /\ p \in Elements(msgs)
      BY <1>2, <2>2, <2>3, AfterHandler
    <3>. QED
      BY <1>3, <2>2, <3>1, FitStays, FitSent
  <2>. QED
    BY <2>1, <2>3 DEF AllFit
<1>4. ASSUME NEW n \in Nodes, TimeProcess(n) \/ Start(n)
      PROVE  AllFit' /\ AllNodes'
  BY <1>4, TimerFit, TimerNode DEF AllFit, AllNodes
<1>5. ASSUME UNCHANGED <<isSetup, dst>>,
             \A x, y \in Nodes : Fly(net', x, y) \subseteq Fly(net, x, y)
      PROVE  AllFit'
  <2>1. \A a, b \in Nodes : \A p : Fit(a, b, p) => Fit(a, b, p)'
    BY <1>5 DEF Fit, Owned, Self
  <2>. QED
    BY <1>2, <1>5, <2>1 DEF AllFit
<1>6. ASSUME \/ \E s, n \in Nodes : Network(s, n)
             \/ \E n \in Nodes : Crash(n)
      PROVE  AllFit' /\ AllNodes'
  <2>1. AllNodes'
    <3>1. Budget["dup"] = 0 /\ Budget["race"] = 0
      BY DEF Unrepeated
    <3>. QED
      BY <1>2, <1>6, <3>1, FaultFrame, FaultToken, LinkSame DEF AllNodes
  <2>. QED
    BY <1>2, <1>5, <1>6, <2>1, FaultFrame, AfterFault, NoRace DEF Unrepeated
<1>7. ASSUME UNCHANGED <<up, status, dst, connected, childNum, isSetup, isRetry,
                         streaming, cached, net>>
      PROVE  AllFit' /\ AllNodes'
  BY <1>2, <1>5, <1>7, LinkSame DEF AllNodes
<1>8. ASSUME NEW k \in Nodes, NEW m \in Nodes, NEW n \in Nodes, KeepAlive(k, m, n)
      PROVE  AllFit' /\ AllNodes'
  BY <1>7, <1>8, KeepAliveFrame
<1>9. ASSUME UNCHANGED vars
      PROVE  AllFit' /\ AllNodes'
  BY <1>7, <1>9 DEF vars
<1>10. AllFit' /\ AllNodes'
  BY <1>3, <1>4, <1>6, <1>8, <1>9 DEF Next
<1>. QED
  BY <1>1, <1>10 DEF LinkInv, AllFit, AllNodes

\* UnjoinedIsIdle, with losses, reordering, crashes, expiry and departures:
\* every request to join is in one place, and no move packet reaches a node
\* that has not joined.
THEOREM UnjoinedIdle == ASSUME Unrepeated PROVE Spec => []UnjoinedIsIdle
<1>1. LinkInv => UnjoinedIsIdle
  BY DEF LinkInv, LinkNode, UnjoinedIsIdle
<1>. QED
  BY <1>1, LinkInit, LinkNext, PTL DEF Spec

-----------------------------------------------------------------------------
(* As long as nobody departs either.                                        *)

\* No DEPART, so no DETACH and no NodeDepart: the bits are only set when they
\* are clear and cleared when they are set.
Settled == Unrepeated /\ Budget["depart"] = 0

Leavings == {"DEPART", "DETACH"}

\* No bit above the parent's, every bit with a timestamp, and a node that
\* looks for a parent has none.
OrphanNode(n) ==
    /\ connected[n] < 8
    /\ Connected(n) \subseteq stamped[n]
    /\ isRetry[n] => ~HasParent(n)
OrphanInv ==
    /\ LinkInv
    /\ \A x, y \in Nodes : \A p \in Fly(net, x, y) : p.type \notin Leavings
    /\ \A n \in Nodes : OrphanNode(n)

\* A byte below 8, by its three bits.
LEMMA ThreeBits ==
    ASSUME NEW a \in 0..1, NEW b \in 0..1, NEW d \in 0..1
    PROVE  LET c == a + 2 * b + 4 * d IN
           /\ Bit(c, 0) <=> a = 1
           /\ Bit(c, 1) <=> b = 1
           /\ Bit(c, 2) <=> d = 1
           /\ ~Bit(c, 3) /\ c \in 0..7
<1>1. (a = 0 \/ a = 1) /\ (b = 0 \/ b = 1) /\ (d = 0 \/ d = 1)
  OBVIOUS
<1>2. /\ \A c : Bit(c, 0) <=> (c \div 1) % 2 = 1
      /\ \A c : Bit(c, 1) <=> (c \div 2) % 2 = 1
      /\ \A c : Bit(c, 2) <=> (c \div 4) % 2 = 1
      /\ \A c : Bit(c, 3) <=> (c \div 8) % 2 = 1
  BY DEF Bit, Weight
<1>. QED
  BY <1>1, <1>2

\* Setting a clear bit and clearing a set one, below 8.
LEMMA SmallBits ==
    ASSUME NEW c \in 0..7, NEW i \in 0..2
    PROVE  /\ ~Bit(c, 3)
           /\ ~Bit(c, i) => /\ SetBit(c, i) \in 0..7
                            /\ \A j \in Slots : Bit(SetBit(c, i), j) <=> j = i \/ Bit(c, j)
           /\ Bit(c, i) => /\ ClearBit(c, i) \in 0..7
                           /\ \A j \in Slots : Bit(ClearBit(c, i), j) <=> j # i /\ Bit(c, j)
<1>1. PICK a \in 0..1, b \in 0..1, d \in 0..1 : c = a + 2 * b + 4 * d
  <2>1. \A k \in 0..7 : k = (k % 2) + 2 * ((k \div 2) % 2) + 4 * (k \div 4)
    OBVIOUS
  <2>2. c % 2 \in 0..1 /\ (c \div 2) % 2 \in 0..1 /\ c \div 4 \in 0..1
    OBVIOUS
  <2>. QED
    BY <2>1, <2>2
<1>2. /\ Bit(c, 0) <=> a = 1
      /\ Bit(c, 1) <=> b = 1
      /\ Bit(c, 2) <=> d = 1
      /\ ~Bit(c, 3)
  BY <1>1, ThreeBits
<1>3. \A j \in Slots : j = 0 \/ j = 1 \/ j = 2 \/ j = 3
  BY DEF Slots
<1>4. (a = 0 \/ a = 1) /\ (b = 0 \/ b = 1) /\ (d = 0 \/ d = 1) /\ 0 \in 0..1 /\ 1 \in 0..1
  OBVIOUS
<1>5. CASE i = 0
  <2>1. SetBit(c, i) = (c + 1) % 256 /\ ClearBit(c, i) = (c - 1) % 256
    BY <1>5 DEF SetBit, ClearBit, Weight
  <2>2. /\ a = 0 => SetBit(c, i) = 1 + 2 * b + 4 * d
        /\ a = 1 => ClearBit(c, i) = 0 + 2 * b + 4 * d
    BY <1>1, <1>4, <2>1
  <2>. QED
    BY <1>2, <1>3, <1>4, <1>5, <2>2, ThreeBits
<1>6. CASE i = 1
  <2>1. SetBit(c, i) = (c + 2) % 256 /\ ClearBit(c, i) = (c - 2) % 256
    BY <1>6 DEF SetBit, ClearBit, Weight
  <2>2. /\ b = 0 => SetBit(c, i) = a + 2 * 1 + 4 * d
        /\ b = 1 => ClearBit(c, i) = a + 2 * 0 + 4 * d
    BY <1>1, <1>4, <2>1
  <2>. QED
    BY <1>2, <1>3, <1>4, <1>6, <2>2, ThreeBits
<1>7. CASE i = 2
  <2>1. SetBit(c, i) = (c + 4) % 256 /\ ClearBit(c, i) = (c - 4) % 256
    BY <1>7 DEF SetBit, ClearBit, Weight
  <2>2. /\ d = 0 => SetBit(c, i) = a + 2 * b + 4 * 1
        /\ d = 1 => ClearBit(c, i) = a + 2 * b + 4 * 0
    BY <1>1, <1>4, <2>1
  <2>. QED
    BY <1>2, <1>3, <1>4, <1>7, <2>2, ThreeBits
<1>8. i = 0 \/ i = 1 \/ i = 2
  OBVIOUS
<1>. QED
  BY <1>5, <1>6, <1>7, <1>8

\* Nobody departs, so nobody is detached.
LEMMA NoLeavings ==
    ASSUME Settled, OrphanInv, Next
    PROVE  \A x, y \in Nodes : \A p \in Fly(net', x, y) : p.type \notin Leavings
<1> DEFINE Old == \A x, y \in Nodes : \A p \in Fly(net, x, y) : p.type \notin Leavings
           New == \A x, y \in Nodes : \A p \in Fly(net', x, y) : p.type \notin Leavings
<1>1. TypeOK /\ Old
  BY DEF OrphanInv, LinkInv, TypeInv
<1>2. UNCHANGED net => New
  BY <1>1
<1> HIDE DEF Old, New
<1>3. ASSUME NEW s \in Nodes, NEW n \in Nodes, Receive(s, n)
      PROVE  New
  <2>1. PICK a \in Addrs, msgs \in Seq(Packet) :
              /\ net[s][n] # <<>> /\ Reply(s, n, To(a, msgs))
              /\ Sends(s, n, Head(net[s][n]), a, msgs)
    BY <1>1, <1>3, HandlerSends
  <2>2. Head(net[s][n]).type \notin Leavings
    BY <1>1, <2>1, AfterHandler DEF Old
  <2>3. \A p \in Elements(msgs) : p.type \notin Leavings
    BY <2>1, <2>2, FewElements
       DEF Sends, SetupAnswer, SendSetup, SendConnect, SendUnaccept, Msg, Leavings
  <2>. QED
    BY <1>1, <2>1, <2>3, AfterHandler DEF Old, New
<1>4. ASSUME NEW n \in Nodes, TimeProcess(n) \/ Start(n)
      PROVE  New
  <2>1. SUFFICES ASSUME ~UNCHANGED net
                 PROVE  New
    BY <1>2
  <2>2. ~DepartTimer(n)
    <3>1. ~Spend("depart")
      BY Unaffordable DEF Settled, OrphanInv, LinkInv, Kinds
    <3>. QED
      BY <3>1 DEF DepartTimer
  <2>3. PICK out \in Outs :
           /\ Send(n, out)
           /\ \/ \E a : out = To(a, <<SendSetup(n)>>)
              \/ \E a : out = To(a, <<SendConnect(n)>>)
              \/ \A y \in Nodes : \A p \in Elements(out[y]) : p.type = "REQ_LIST"
    BY <1>1, <1>4, <2>1, <2>2, TimerSends
  <2>4. ASSUME NEW q, <<q>> \in Seq(Packet), q.type \notin Leavings,
               NEW a, out = To(a, <<q>>)
        PROVE  \A y \in Nodes : \A p \in Elements(out[y]) : p.type \notin Leavings
    BY <2>4, ToOne
  <2>5. /\ <<SendSetup(n)>> \in Seq(Packet) /\ SendSetup(n).type \notin Leavings
        /\ <<SendConnect(n)>> \in Seq(Packet) /\ SendConnect(n).type \notin Leavings
    <3>1. SendSetup(n).type = "SETUP" /\ SendConnect(n).type = "CONNECT"
      BY DEF SendSetup, SendConnect, Msg
    <3>. QED
      BY <1>1, <3>1, SendSetupType, ConnectTypes DEF Leavings
  <2>6. \A y \in Nodes : \A p \in Elements(out[y]) : p.type \notin Leavings
    <3>1. CASE \A y \in Nodes : \A p \in Elements(out[y]) : p.type = "REQ_LIST"
      BY <3>1 DEF Leavings
    <3>. QED
      BY <2>3, <2>4, <2>5, <3>1
  <2>. QED
    BY <1>1, <2>3, <2>6, AfterTimer DEF Old, New
<1>5. ASSUME \/ \E s, n \in Nodes : Network(s, n)
             \/ \E n \in Nodes : Crash(n)
      PROVE  New
  <2>1. BudgetInv /\ Budget["race"] = 0
    BY <1>1 DEF LinkInv, OrphanInv, Settled, Unrepeated
  <2>. QED
    BY <1>1, <1>5, <2>1, AfterFault, NoRace DEF Old, New
<1>6. ASSUME NEW k \in Nodes, NEW m \in Nodes, NEW n \in Nodes, KeepAlive(k, m, n)
      PROVE  New
  BY <1>2, <1>6, KeepAliveFrame
<1>. QED
  BY <1>3, <1>4, <1>5, <1>6 DEF Next, New

\* A node that sets a clear bit, or clears a set one.
LEMMA OrphanAt ==
    ASSUME TypeOK, NEW n \in Nodes, OrphanNode(n), NEW i \in 0..2, OrphanNode(n),
           \/ /\ ~Bit(connected[n], i) /\ connected'[n] = SetBit(connected[n], i)
              /\ stamped'[n] = stamped[n] \cup {i}
              /\ isRetry'[n] => isRetry[n] /\ i # PARENT_ID
           \/ /\ Bit(connected[n], i) /\ connected'[n] = ClearBit(connected[n], i)
              /\ stamped'[n] = stamped[n]
              /\ isRetry'[n] => isRetry[n] \/ i = PARENT_ID
    PROVE  OrphanNode(n)'
<1>1. connected[n] \in 0..7 /\ PARENT_ID \in Slots
  <2>1. connected[n] \in 0..255 /\ connected[n] < 8
    BY DEF TypeOK, OrphanNode
  <2>. QED
    BY <2>1 DEF PARENT_ID, Slots
<1> DEFINE c == connected[n]
           d == connected'[n]
<1>2. /\ ~Bit(c, i) => /\ SetBit(c, i) \in 0..7
                       /\ \A j \in Slots : Bit(SetBit(c, i), j) <=> j = i \/ Bit(c, j)
      /\ Bit(c, i) => /\ ClearBit(c, i) \in 0..7
                      /\ \A j \in Slots : Bit(ClearBit(c, i), j) <=> j # i /\ Bit(c, j)
  BY <1>1, SmallBits
<1>3. d \in 0..7
  BY <1>2
<1>4. d < 8
  BY <1>3
<1>5. Connected(n) = {j \in Slots : Bit(c, j)} /\ Connected(n)' = {j \in Slots : Bit(d, j)}
  BY DEF Connected
<1>6. HasParent(n) = Bit(c, PARENT_ID) /\ HasParent(n)' = Bit(d, PARENT_ID)
  BY DEF HasParent
<1>7. Connected(n) \subseteq stamped[n] /\ (isRetry[n] => ~HasParent(n))
  BY DEF OrphanNode
<1> HIDE DEF c, d
<1>8. Connected(n)' \subseteq stamped'[n]
  BY <1>2, <1>5, <1>7 DEF c, d
<1>9. isRetry'[n] => ~HasParent(n)'
  BY <1>1, <1>2, <1>6, <1>7 DEF c, d
<1>. QED
  BY <1>4, <1>8, <1>9 DEF OrphanNode, d

\* A node that keeps its bits.
LEMMA OrphanSame ==
    ASSUME NEW m \in Nodes, OrphanNode(m), connected'[m] = connected[m],
           stamped[m] \subseteq stamped'[m], isRetry'[m] => isRetry[m]
    PROVE  OrphanNode(m)'
BY DEF OrphanNode, Connected, HasParent

\* INITIAL_STATUS finds a node that has no neighbour yet.
LEMMA FirstStatus ==
    ASSUME LinkInv, NEW s \in Nodes, NEW n \in Nodes, Arrived(s, n, "INITIAL_STATUS")
    PROVE  isSetup[n] /\ connected[n] = 0 /\ ~isRetry[n]
<1>1. net[s][n] \in Seq(Packet) /\ net[s][n] # <<>>
  BY DEF LinkInv, TypeInv, TypeOK, Arrived
<1>2. /\ Head(net[s][n]) \in Packet
      /\ Head(net[s][n]) \in Elements(net[s][n])
  BY <1>1, TailElements
<1>3. Head(net[s][n]) \in Asking(n)[s][n]
  BY <1>2 DEF Asking, Arrived
<1>4. ~NoToken(net, Asking(n))
  BY <1>2, <1>3, WithoutElements DEF NoToken
<1>. QED
  BY <1>4 DEF LinkInv, LinkNode

\* Every handler.
LEMMA OrphanHandler ==
    ASSUME OrphanInv, NEW s \in Nodes, NEW n \in Nodes, Receive(s, n),
           NEW m \in Nodes
    PROVE  OrphanNode(m)'
<1>1. TypeOK /\ TypeInv /\ LinkInv /\ OrphanNode(m) /\ OrphanNode(n)
  BY DEF OrphanInv, LinkInv, TypeInv
<1>2. CASE m # n
  <2>1. connected'[m] = connected[m] /\ stamped'[m] = stamped[m] /\ isRetry'[m] = isRetry[m]
    BY <1>1, <1>2, HandlerFrame
  <2>. QED
    BY <1>1, <2>1, OrphanSame
<1>3. CASE \/ NodeSetupDrawn(s, n) \/ NodeSetupUncached(s, n) \/ NodeSetupFull(s, n)
           \/ NodeID(s, n) \/ NodeAdvertise(s, n)
           \/ NodeReqListUnknown(s, n) \/ NodeReqList(s, n) \/ NodeResList(s, n)
  <2>1. UNCHANGED <<connected, stamped, isRetry>>
    BY <1>3 DEF NodeSetupDrawn, NodeSetupUncached, NodeSetupFull, Redirect,
       NodeID, NodeAdvertise, NodeReqListUnknown, NodeReqList, NodeResList,
       slotVars, linkVars, flagVars
  <2>. QED
    BY <1>1, <2>1, OrphanSame
<1>4. CASE NodeConnectRefused(s, n) \/ NodeConnectDuplicate(s, n) \/ NodeUnaccept(s, n)
  <2>1. UNCHANGED <<connected, stamped, isRetry>>
    BY <1>4 DEF NodeConnectRefused, NodeConnectDuplicate, NodeUnaccept,
       slotVars, linkVars, flagVars
  <2>. QED
    BY <1>1, <2>1, OrphanSame
<1>5. CASE m = n /\ (NodeSetupJoin(s, n) \/ NodeConnectAccepted(s, n))
  <2>1. /\ CheckChildNum(n) # -1 /\ isRetry' = isRetry
        /\ \E child, addr : AddChild(n, CheckChildNum(n), child, addr)
    BY <1>5 DEF NodeSetupJoin, NodeConnectAccepted, flagVars
  <2>2. PICK i \in ChildSlots :
              /\ ~Bit(connected[n], i)
              /\ connected' = [connected EXCEPT ![n] = SetBit(connected[n], i)]
              /\ stamped' = [stamped EXCEPT ![n] = stamped[n] \cup {i}]
    BY <1>1, <2>1, AddChildLinks
  <2>3. i \in 0..2 /\ i # PARENT_ID
    BY DEF ChildSlots, PARENT_ID
  <2>4. connected'[n] = SetBit(connected[n], i) /\ stamped'[n] = stamped[n] \cup {i}
    BY <1>1, <2>2 DEF TypeOK
  <2>. QED
    BY <1>1, <1>5, <2>1, <2>2, <2>3, <2>4, OrphanAt
<1>6. CASE m = n /\ NodeInitialStatus(s, n)
  <2>1. connected[n] = 0 /\ ~isRetry[n]
    BY <1>1, <1>6, FirstStatus DEF NodeInitialStatus
  <2>2. /\ connected'[n] = SetBit(connected[n], PARENT_ID)
        /\ stamped'[n] = stamped[n] \cup {PARENT_ID} /\ isRetry' = isRetry
    BY <1>1, <1>6 DEF NodeInitialStatus, Stamp, TypeOK
  <2>3. PARENT_ID \in 0..2 /\ PARENT_ID \in Slots
    BY DEF PARENT_ID, Slots
  <2>4. ~Bit(connected[n], PARENT_ID)
    BY <2>1, <2>3, NoBits
  <2>. QED
    BY <1>1, <1>6, <2>1, <2>2, <2>3, <2>4, OrphanAt
<1>7. CASE m = n /\ NodeAccept(s, n)
  <2>1. /\ connected'[n] = IF HasParent(n) THEN connected[n]
                           ELSE SetBit(connected[n], PARENT_ID)
        /\ stamped'[n] = stamped[n] \cup {PARENT_ID} /\ ~isRetry'[n]
    BY <1>1, <1>7 DEF NodeAccept, Stamp, TypeOK
  <2>2. CASE HasParent(n)
    BY <1>1, <1>7, <2>1, <2>2, OrphanSame
  <2>3. CASE ~HasParent(n)
    <3>1. PARENT_ID \in 0..2
      BY DEF PARENT_ID
    <3>. QED
      BY <1>1, <1>7, <2>1, <2>3, <3>1, OrphanAt DEF HasParent
  <2>. QED
    BY <2>2, <2>3
<1>8. ~NodeDepart(s, n) /\ ~NodeDetach(s, n)
  <2>1. PICK a \in Addrs, msgs \in Seq(Packet) :
              net[s][n] # <<>> /\ Reply(s, n, To(a, msgs))
    BY <1>1, HandlerSends
  <2>2. Head(net[s][n]).type \notin Leavings
    BY <1>1, <2>1, AfterHandler DEF OrphanInv
  <2>. QED
    BY <2>2 DEF NodeDepart, NodeDetach, Arrived, Leavings
<1>. QED
  BY <1>2, <1>3, <1>4, <1>5, <1>6, <1>7, <1>8 DEF Receive

\* Every branch of the TIME thread.
LEMMA OrphanTimer ==
    ASSUME OrphanInv, NEW n \in Nodes, TimeProcess(n), NEW m \in Nodes
    PROVE  OrphanNode(m)'
<1>1. TypeOK /\ OrphanNode(m) /\ OrphanNode(n)
  BY DEF OrphanInv, LinkInv, TypeInv
<1>2. PARENT_ID \in 0..2 /\ PARENT_ID \in Slots
  BY DEF PARENT_ID, Slots
<1>3. ASSUME NEW i \in Slots, ExpireSlot(n, i)
      PROVE  OrphanNode(m)'
  <2>1. /\ Bit(connected[n], i) /\ isRetry' = isRetry /\ stamped' = stamped
        /\ connected' = [connected EXCEPT ![n] = ClearBit(connected[n], i)]
    BY <1>3 DEF ExpireSlot, Overdue, Connected, slotVars, flagVars
  <2>2. CASE m = n
    <3>1. connected[n] \in 0..7
      <4>1. connected[n] \in 0..255 /\ connected[n] < 8
        BY <1>1 DEF TypeOK, OrphanNode
      <4>. QED
        BY <4>1
    <3>2. 0 \in 0..2 /\ \A j \in Slots : j # 3 => j \in 0..2
      BY DEF Slots
    <3>3. ~Bit(connected[n], 3)
      BY <3>1, <3>2, SmallBits
    <3>4. i \in 0..2
      BY <2>1, <3>2, <3>3
    <3>5. connected'[n] = ClearBit(connected[n], i)
      BY <1>1, <2>1 DEF TypeOK
    <3>. QED
      BY <1>1, <2>1, <2>2, <3>4, <3>5, OrphanAt
  <2>3. CASE m # n
    <3>1. connected'[m] = connected[m]
      BY <1>1, <2>1, <2>3 DEF TypeOK
    <3>. QED
      BY <1>1, <2>1, <3>1, OrphanSame
  <2>. QED
    BY <2>2, <2>3
<1>4. CASE ExpireParent(n)
  <2>1. /\ Bit(connected[n], PARENT_ID) /\ stamped' = stamped
        /\ isRetry' = [isRetry EXCEPT ![n] = TRUE]
        /\ connected' = [connected EXCEPT ![n] = ClearBit(connected[n], PARENT_ID)]
    BY <1>4 DEF ExpireParent, Overdue, Connected, NodeRetry, slotVars
  <2>2. CASE m = n
    <3>1. connected'[n] = ClearBit(connected[n], PARENT_ID)
      BY <1>1, <2>1 DEF TypeOK
    <3>. QED
      BY <1>1, <1>2, <2>1, <2>2, <3>1, OrphanAt
  <2>3. CASE m # n
    <3>1. connected'[m] = connected[m] /\ isRetry'[m] = isRetry[m]
      BY <1>1, <2>1, <2>3 DEF TypeOK
    <3>. QED
      BY <1>1, <2>1, <3>1, OrphanSame
  <2>. QED
    BY <2>2, <2>3
<1>5. CASE RetryTimer(n)
  <2>1. isRetry[n] /\ UNCHANGED <<connected, stamped>> /\ isRetry' = [isRetry EXCEPT ![n] = TRUE]
    BY <1>5 DEF RetryTimer, NodeRetry, slotVars, linkVars
  <2>2. isRetry'[m] => isRetry[m]
    BY <1>1, <2>1 DEF TypeOK
  <2>. QED
    BY <1>1, <2>1, <2>2, OrphanSame
<1>6. CASE \/ SetupTimer(n) \/ ListTimer(n) \/ DepartTimer(n)
           \/ CacheFull(n) \/ CacheDrains(n)
  <2>1. UNCHANGED <<connected, stamped, isRetry>>
    BY <1>6 DEF SetupTimer, ListTimer, DepartTimer, CacheFull, CacheDrains,
       slotVars, linkVars, flagVars
  <2>. QED
    BY <1>1, <2>1, OrphanSame
<1>. QED
  BY <1>3, <1>4, <1>5, <1>6 DEF TimeProcess

LEMMA OrphanInit == Init => OrphanInv
<1> SUFFICES ASSUME Init
             PROVE  OrphanInv
  OBVIOUS
<1>1. \A x, y \in Nodes : Fly(net, x, y) = {}
  BY FewElements DEF Init, Fly
<1>2. ASSUME NEW n \in Nodes
      PROVE  OrphanNode(n)
  <2>1. ~isRetry[n] /\ connected[n] = 0
    BY DEF Init
  <2>. QED
    BY <2>1, NoBits DEF OrphanNode, Connected
<1>. QED
  BY <1>1, <1>2, LinkInit DEF OrphanInv

LEMMA OrphanNext == ASSUME Settled PROVE OrphanInv /\ [Next]_vars => OrphanInv'
<1> SUFFICES ASSUME OrphanInv, [Next]_vars
             PROVE  OrphanInv'
  OBVIOUS
<1> DEFINE AllNodes == \A m \in Nodes : OrphanNode(m)
<1>1. LinkInv' /\ TypeOK /\ AllNodes
  BY LinkNext DEF Settled, OrphanInv, LinkInv, TypeInv
<1> HIDE DEF AllNodes
<1>2. ASSUME UNCHANGED <<connected, stamped, isRetry>>
      PROVE  AllNodes'
  BY <1>1, <1>2, OrphanSame DEF AllNodes
<1>3. ASSUME NEW k \in Nodes, NEW m \in Nodes, NEW n \in Nodes, KeepAlive(k, m, n)
      PROVE  AllNodes'
  <2>1. UNCHANGED <<connected, isRetry>> /\ \A q \in Nodes : stamped[q] \subseteq stamped'[q]
    BY <1>1, <1>3, KeepAliveFrame DEF KeepAlive, TypeOK
  <2>. QED
    BY <1>1, <2>1, OrphanSame DEF AllNodes
<1>4. ASSUME NEW n \in Nodes, Start(n)
      PROVE  AllNodes'
  BY <1>2, <1>4 DEF Start, slotVars, linkVars, flagVars
<1>5. ASSUME \/ \E s, n \in Nodes : Network(s, n)
             \/ \E n \in Nodes : Crash(n)
      PROVE  AllNodes'
  BY <1>1, <1>2, <1>5, FaultFrame
<1>6. ASSUME Next
      PROVE  AllNodes'
  BY <1>3, <1>4, <1>5, <1>6, OrphanHandler, OrphanTimer DEF Next, AllNodes
<1>7. ASSUME UNCHANGED vars
      PROVE  OrphanInv'
  <2>1. AllNodes' /\ net' = net
    BY <1>2, <1>7 DEF vars
  <2>. QED
    BY <1>1, <2>1 DEF OrphanInv, AllNodes
<1>. QED
  BY <1>1, <1>6, <1>7, NoLeavings DEF OrphanInv, AllNodes

\* RetryIsOrphan: through crashes, expiry, retries, losses and reordering, a
\* node that looks for a parent has none.
THEOREM RetryOrphan == ASSUME Settled PROVE Spec => []RetryIsOrphan
<1>1. OrphanInv => RetryIsOrphan
  BY DEF OrphanInv, OrphanNode, RetryIsOrphan
<1>. QED
  BY <1>1, OrphanInit, OrphanNext, PTL DEF Spec

\* SlotsExpire: in the same environments no bit is set that cannot expire.
THEOREM SlotsCanExpire == ASSUME Settled PROVE Spec => []SlotsExpire
<1>1. OrphanInv => SlotsExpire
  BY DEF OrphanInv, OrphanNode, SlotsExpire
<1>. QED
  BY <1>1, OrphanInit, OrphanNext, PTL DEF Spec

-----------------------------------------------------------------------------
(* As long as no packet outlives a timer: departures.                       *)

\* Setting a clear child bit or clearing a set one leaves the parent's alone.
LEMMA ChildBitParent ==
    ASSUME NEW c \in 0..255, NEW i \in ChildSlots
    PROVE  /\ ~Bit(c, i) => (Bit(SetBit(c, i), PARENT_ID) <=> Bit(c, PARENT_ID))
           /\ Bit(c, i) => /\ Bit(ClearBit(c, i), PARENT_ID) <=> Bit(c, PARENT_ID)
                           /\ Kids(ClearBit(c, i)) = Kids(c) - 1
<1>1. CASE i = 0
  BY <1>1 DEF Bit, SetBit, ClearBit, Kids, Weight, PARENT_ID
<1>2. CASE i = 1
  BY <1>2 DEF Bit, SetBit, ClearBit, Kids, Weight, PARENT_ID
<1>. QED
  BY <1>1, <1>2 DEF ChildSlots

\* Setting the parent's clear bit sets it; clearing MY_ID's costs no child.
LEMMA HighBits ==
    ASSUME NEW c \in 0..255
    PROVE  /\ ~Bit(c, PARENT_ID) => Bit(SetBit(c, PARENT_ID), PARENT_ID)
           /\ Kids(ClearBit(c, 3)) = Kids(c)
BY DEF Bit, SetBit, ClearBit, Kids, Weight, PARENT_ID

\* When NodeDepart ends with the count exact, it began so and did not borrow.
LEMMA DepartExact ==
    ASSUME NEW c \in 0..255, NEW k \in Int, NEW gone, k <= Kids(c),
           DepartNum(k, gone) = Kids(DepartBits(c, gone))
    PROVE  /\ k = Kids(c)
           /\ Bit(DepartBits(c, gone), PARENT_ID) <=> Bit(c, PARENT_ID)
<1> DEFINE g0 == One(0, gone)
           g1 == One(1, gone)
           d == DepartBits(c, gone)
<1>1. d = (c - g0 - 2 * g1) % 256 /\ DepartNum(k, gone) = k - g0 - g1
  BY DEF DepartBits, DepartNum
<1>2. (g0 = 0 \/ g0 = 1) /\ (g1 = 0 \/ g1 = 1)
  BY DEF One
<1>3. Bit(d, PARENT_ID) = ((d \div 4) % 2 = 1) /\ Bit(c, PARENT_ID) = ((c \div 4) % 2 = 1)
  BY DEF Bit, Weight, PARENT_ID
<1> HIDE DEF g0, g1, d
<1>4. CASE g0 = 0 /\ g1 = 0
  BY <1>1, <1>3, <1>4 DEF Kids, d
<1>5. CASE g0 = 1 /\ g1 = 0
  BY <1>1, <1>3, <1>5 DEF Kids, d
<1>6. CASE g0 = 0 /\ g1 = 1
  BY <1>1, <1>3, <1>6 DEF Kids, d
<1>7. CASE g0 = 1 /\ g1 = 1
  BY <1>1, <1>3, <1>7 DEF Kids, d
<1>. QED
  BY <1>2, <1>4, <1>5, <1>6, <1>7

\* The packets of a departure of n: DEPART and the DETACH that answers it.
Leaving(n) ==
    [a \in Nodes |-> [b \in Nodes |->
        {p \in Packet : \/ a = n /\ p.type = "DEPART"
                        \/ b = n /\ p.type = "DETACH"}]]

\* A node whose count is exact has a parent.
Sure(n) == childNum[n] = Kids(connected[n]) => HasParent(n)

\* One departure of a node at a time, as long as which it has its parent.
LeaveNode(n) ==
    /\ OneToken(net, Leaving(n))
    /\ ~NoToken(net, Leaving(n)) => Sure(n)
LeaveInv == LinkInv /\ \A n \in Nodes : LeaveNode(n)

\* What a handler sends that counts for a departure of m.
LEMMA SentLeaving ==
    ASSUME LinkInv, NEW s \in Nodes, NEW n \in Nodes, net[s][n] # <<>>,
           NEW a, NEW msgs \in Seq(Packet),
           Sends(s, n, Head(net[s][n]), a, msgs), NEW m \in Nodes, NEW b \in Nodes
    PROVE  /\ \/ Without(To(a, msgs)[b], Leaving(m)[n][b])
              \/ Head(net[s][n]).type = "DEPART" /\ m = s /\ b = s
           /\ Once(To(a, msgs)[b], Leaving(m)[n][b])
<1> DEFINE h == Head(net[s][n])
<1>1. \A q, T : Elements(q) \cap T = {} => Without(q, T) /\ Once(q, T)
  BY WithoutElements DEF Without, Once
<1>2. Elements(To(a, msgs)[b]) = IF b = a /\ up[a] = "up" THEN Elements(msgs) ELSE {}
  BY ToElements
<1>3. Fit(s, n, h) /\ NoAddr \notin Nodes
  <2>1. net \in Nets
    BY DEF LinkInv, TypeInv, TypeOK, Nets
  <2>. QED
    BY <2>1, AfterDropped, NodesAssumption DEF LinkInv
<1>4. CASE ~(b = a /\ up[a] = "up")
  BY <1>1, <1>2, <1>4
<1>5. CASE b = a /\ up[a] = "up"
  <2>1. To(a, msgs)[b] = msgs
    BY <1>5 DEF To
  <2>2. CASE /\ h.type = "DEPART" /\ a = GtoPIP(n, h.body[1])
             /\ msgs = <<Msg("DETACH", <<>>)>>
    <3>1. a = s
      BY <1>3, <1>5, <2>2 DEF Fit, Owned, Self, GtoPIP
    <3>2. Msg("DETACH", <<>>).type = "DETACH"
      BY DEF Msg
    <3>3. m # s => Elements(msgs) \cap Leaving(m)[n][b] = {}
      BY <1>5, <2>2, <3>1, <3>2, FewElements DEF Leaving
    <3>4. Once(msgs, Leaving(m)[n][b])
      BY <2>2 DEF Once
    <3>. QED
      BY <1>1, <1>5, <2>1, <2>2, <3>1, <3>3, <3>4
  <2>3. CASE \A p \in Elements(msgs) : p.type \notin {"DEPART", "DETACH"}
    <3>1. Elements(msgs) \cap Leaving(m)[n][b] = {}
      BY <2>3 DEF Leaving
    <3>. QED
      BY <1>1, <2>1, <3>1
  <2>. QED
    BY <2>2, <2>3, FewElements
       DEF Sends, SetupAnswer, SendSetup, SendUnaccept, SendConnect, Msg
<1>. QED
  BY <1>4, <1>5

\* A handler answers a departure, ends it, or leaves it where it is.
LEMMA LeavingToken ==
    ASSUME LeaveInv, NEW s \in Nodes, NEW n \in Nodes, Receive(s, n), NEW m \in Nodes
    PROVE  /\ OneToken(net', Leaving(m))
           /\ NoToken(net, Leaving(m)) => NoToken(net', Leaving(m))
           /\ NodeDetach(s, n) => NoToken(net', Leaving(n))
<1>1. TypeOK /\ LinkInv /\ \A k \in Nodes : OneToken(net, Leaving(k))
  BY DEF LeaveInv, LeaveNode, LinkInv, TypeInv
<1>2. PICK a \in Addrs, msgs \in Seq(Packet) :
          /\ up[n] = "up" /\ net[s][n] # <<>> /\ Reply(s, n, To(a, msgs))
          /\ Sends(s, n, Head(net[s][n]), a, msgs)
  BY <1>1, HandlerSends
<1> DEFINE h == Head(net[s][n])
           w == Dropped(net, s, n)
           out == To(a, msgs)
<1>3. /\ net' = Sent(w, n, out) /\ net \in Nets /\ w \in Nets /\ out \in Outs
      /\ h \in Fly(net, s, n)
  BY <1>1, <1>2, AfterHandler
<1>4. \A k \in Nodes : /\ OneToken(w, Leaving(k))
                       /\ NoToken(net, Leaving(k)) => NoToken(w, Leaving(k))
                       /\ h \in Leaving(k)[s][n] => NoToken(w, Leaving(k))
  BY <1>1, <1>2, <1>3, TokenDropped
<1>5. \A k \in Nodes : h \in Leaving(k)[s][n] => ~NoToken(net, Leaving(k))
  BY <1>3, WithoutElements DEF NoToken, Fly
<1>6. h \in Packet
  <2>1. net[s][n] \in Seq(Packet)
    BY <1>3 DEF Nets
  <2>. QED
    BY <1>3, <2>1 DEF Fly, Elements
<1>7. \A k, b \in Nodes : /\ \/ Without(out[b], Leaving(k)[n][b])
                             \/ h.type = "DEPART" /\ k = s /\ b = s
                          /\ Once(out[b], Leaving(k)[n][b])
  BY <1>1, <1>2, SentLeaving
<1>8. /\ h.type = "DEPART" => h \in Leaving(s)[s][n]
      /\ h.type = "DETACH" => h \in Leaving(n)[s][n]
  BY <1>6 DEF Leaving
<1>9. NodeDetach(s, n) => h.type = "DETACH"
  BY DEF NodeDetach, Arrived
<1> HIDE DEF h, w, out
<1>10. ASSUME NEW k \in Nodes, \A b \in Nodes : Without(out[b], Leaving(k)[n][b])
       PROVE  OneToken(net', Leaving(k)) /\ (NoToken(w, Leaving(k)) => NoToken(net', Leaving(k)))
  BY <1>3, <1>4, <1>10, TokenSentNone
<1>11. NodeDetach(s, n) => NoToken(net', Leaving(n))
  BY <1>4, <1>7, <1>8, <1>9, <1>10
<1>12. CASE \A b \in Nodes : Without(out[b], Leaving(m)[n][b])
  BY <1>4, <1>10, <1>11, <1>12
<1>13. CASE ~\A b \in Nodes : Without(out[b], Leaving(m)[n][b])
  <2>1. h.type = "DEPART" /\ m = s
    BY <1>7, <1>13
  <2>2. NoToken(w, Leaving(m)) /\ ~NoToken(net, Leaving(m))
    BY <1>4, <1>5, <1>8, <2>1
  <2>3. \A b \in Nodes \ {s} : Without(out[b], Leaving(m)[n][b])
    BY <1>7
  <2>4. OneToken(net', Leaving(m))
    BY <1>3, <1>7, <2>2, <2>3, TokenSentOne
  <2>. QED
    BY <1>11, <2>2, <2>4
<1>. QED
  BY <1>12, <1>13

\* Only DETACH takes the parent from a node whose count is exact afterwards.
LEMMA SureHandler ==
    ASSUME LinkInv, NEW s \in Nodes, NEW n \in Nodes, Receive(s, n),
           NEW m \in Nodes, Sure(m), m # n \/ ~NodeDetach(s, n)
    PROVE  Sure(m)'
<1>1. TypeOK /\ TypeInv
  BY DEF LinkInv, TypeInv
<1>2. connected[n] \in 0..255 /\ childNum[n] \in Int /\ childNum[n] <= Kids(connected[n])
      /\ Kids(connected[n]) \in Int
  <2>1. connected[n] \in 0..255 /\ childNum[n] \in Int /\ childNum[n] <= Kids(connected[n])
    BY <1>1 DEF TypeInv, TypeOK, CountInv, ChildCountBounded
  <2>. QED
    BY <2>1 DEF Kids
<1>3. ASSUME connected'[m] = connected[m], childNum'[m] = childNum[m]
      PROVE  Sure(m)'
  BY <1>3 DEF Sure, HasParent
<1>4. CASE m # n
  BY <1>1, <1>3, <1>4, HandlerFrame
<1>5. CASE \/ NodeSetupDrawn(s, n) \/ NodeSetupUncached(s, n) \/ NodeSetupFull(s, n)
           \/ NodeID(s, n) \/ NodeAdvertise(s, n)
           \/ NodeReqListUnknown(s, n) \/ NodeReqList(s, n) \/ NodeResList(s, n)
  <2>1. UNCHANGED linkVars
    BY <1>5 DEF NodeSetupDrawn, NodeSetupUncached, NodeSetupFull, Redirect,
       NodeID, NodeAdvertise, NodeReqListUnknown, NodeReqList, NodeResList
  <2>. QED
    BY <1>3, <2>1 DEF linkVars
<1>6. CASE NodeConnectRefused(s, n) \/ NodeConnectDuplicate(s, n) \/ NodeUnaccept(s, n)
  BY <1>3, <1>6 DEF NodeConnectRefused, NodeConnectDuplicate, NodeUnaccept, linkVars
<1>7. CASE m = n /\ (NodeSetupJoin(s, n) \/ NodeConnectAccepted(s, n))
  <2>1. /\ CheckChildNum(n) # -1
        /\ \E child, addr : AddChild(n, CheckChildNum(n), child, addr)
    BY <1>7 DEF NodeSetupJoin, NodeConnectAccepted
  <2>2. PICK i \in ChildSlots :
              /\ ~Bit(connected[n], i)
              /\ connected' = [connected EXCEPT ![n] = SetBit(connected[n], i)]
              /\ childNum' = [childNum EXCEPT ![n] = childNum[n] + 1]
              /\ Kids(SetBit(connected[n], i)) = Kids(connected[n]) + 1
    BY <1>1, <2>1, AddChildLinks
  <2>3. connected'[n] = SetBit(connected[n], i) /\ childNum'[n] = childNum[n] + 1
    BY <1>1, <2>2 DEF TypeOK
  <2>4. Bit(connected'[n], PARENT_ID) <=> Bit(connected[n], PARENT_ID)
    BY <1>2, <2>2, <2>3, ChildBitParent
  <2>5. childNum'[n] = Kids(connected'[n]) => childNum[n] = Kids(connected[n])
    BY <1>2, <2>2, <2>3
  <2>. QED
    BY <1>7, <2>4, <2>5 DEF Sure, HasParent
<1>8. CASE m = n /\ NodeInitialStatus(s, n)
  <2>1. connected[n] = 0
    BY <1>8, FirstStatus DEF NodeInitialStatus
  <2>2. connected'[n] = SetBit(connected[n], PARENT_ID)
    BY <1>1, <1>8 DEF NodeInitialStatus, TypeOK
  <2>3. PARENT_ID \in Slots
    BY DEF PARENT_ID, Slots
  <2>4. Bit(connected'[n], PARENT_ID)
    BY <1>2, <2>1, <2>2, <2>3, HighBits, NoBits
  <2>. QED
    BY <1>8, <2>4 DEF Sure, HasParent
<1>9. CASE m = n /\ NodeAccept(s, n)
  <2>1. connected'[n] = IF HasParent(n) THEN connected[n]
                        ELSE SetBit(connected[n], PARENT_ID)
    BY <1>1, <1>9 DEF NodeAccept, TypeOK
  <2>2. Bit(connected'[n], PARENT_ID)
    BY <1>2, <2>1, HighBits DEF HasParent
  <2>. QED
    BY <1>9, <2>2 DEF Sure, HasParent
<1>10. CASE m = n /\ NodeDepart(s, n)
  <2>1. PICK gone : /\ childNum'[n] = DepartNum(childNum[n], gone)
                    /\ connected'[n] = DepartBits(connected[n], gone)
    BY <1>1, <1>10 DEF NodeDepart, TypeOK
  <2>. QED
    BY <1>2, <1>10, <2>1, DepartExact DEF Sure, HasParent
<1>. QED
  BY <1>4, <1>5, <1>6, <1>7, <1>8, <1>9, <1>10 DEF Receive

\* The TIME thread takes no parent from a node whose count stays exact.
LEMMA SureTimer ==
    ASSUME LinkInv, NEW n \in Nodes, TimeProcess(n) \/ Start(n),
           NEW m \in Nodes, Sure(m)
    PROVE  Sure(m)'
<1>1. TypeOK /\ TypeInv
  BY DEF LinkInv, TypeInv
<1>2. connected[n] \in 0..255 /\ childNum[n] \in Int /\ childNum[n] <= Kids(connected[n])
      /\ Kids(connected[n]) \in Int
  <2>1. connected[n] \in 0..255 /\ childNum[n] \in Int /\ childNum[n] <= Kids(connected[n])
    BY <1>1 DEF TypeInv, TypeOK, CountInv, ChildCountBounded
  <2>. QED
    BY <2>1 DEF Kids
<1>3. ASSUME connected'[m] = connected[m], childNum'[m] = childNum[m]
      PROVE  Sure(m)'
  BY <1>3 DEF Sure, HasParent
<1>4. ASSUME NEW i \in Slots, Bit(connected[n], i),
             connected' = [connected EXCEPT ![n] = ClearBit(connected[n], i)],
             childNum' = [childNum EXCEPT ![n] = childNum[n] - 1]
      PROVE  Sure(m)'
  <2>1. CASE m # n
    <3>1. connected'[m] = connected[m] /\ childNum'[m] = childNum[m]
      BY <1>1, <1>4, <2>1 DEF TypeOK
    <3>. QED
      BY <1>3, <3>1
  <2>2. CASE m = n
    <3>1. connected'[n] = ClearBit(connected[n], i) /\ childNum'[n] = childNum[n] - 1
      BY <1>1, <1>4 DEF TypeOK
    <3>2. CASE i \in ChildSlots
      <4>1. /\ Bit(connected'[n], PARENT_ID) <=> Bit(connected[n], PARENT_ID)
            /\ Kids(connected'[n]) = Kids(connected[n]) - 1
        <5>1. /\ Bit(ClearBit(connected[n], i), PARENT_ID) <=> Bit(connected[n], PARENT_ID)
              /\ Kids(ClearBit(connected[n], i)) = Kids(connected[n]) - 1
          BY <1>2, <1>4, <3>2, ChildBitParent
        <5>. QED
          BY <3>1, <5>1
      <4>2. childNum'[n] = Kids(connected'[n]) => childNum[n] = Kids(connected[n])
        BY <1>2, <3>1, <4>1
      <4>. QED
        BY <2>2, <4>1, <4>2 DEF Sure, HasParent
    <3>3. CASE i \notin ChildSlots
      <4>1. i = PARENT_ID \/ i = 3
        BY <3>3 DEF Slots, ChildSlots, PARENT_ID
      <4>2. Kids(connected'[n]) = Kids(connected[n])
        <5>1. Kids(ClearBit(connected[n], i)) = Kids(connected[n])
          BY <1>2, <4>1, ClearParentBit, HighBits
        <5>. QED
          BY <3>1, <5>1
      <4>3. childNum'[n] # Kids(connected'[n])
        BY <1>2, <3>1, <4>2
      <4>. QED
        BY <2>2, <4>3 DEF Sure
    <3>. QED
      BY <3>2, <3>3
  <2>. QED
    BY <2>1, <2>2
<1>5. ASSUME NEW i \in Slots, ExpireSlot(n, i)
      PROVE  Sure(m)'
  <2>1. /\ Bit(connected[n], i)
        /\ connected' = [connected EXCEPT ![n] = ClearBit(connected[n], i)]
        /\ childNum' = [childNum EXCEPT ![n] = childNum[n] - 1]
    BY <1>5 DEF ExpireSlot, Overdue, Connected
  <2>. QED
    BY <1>4, <2>1
<1>6. CASE ExpireParent(n)
  <2>1. /\ Bit(connected[n], PARENT_ID) /\ PARENT_ID \in Slots
        /\ connected' = [connected EXCEPT ![n] = ClearBit(connected[n], PARENT_ID)]
        /\ childNum' = [childNum EXCEPT ![n] = childNum[n] - 1]
    BY <1>6 DEF ExpireParent, Overdue, Connected
  <2>. QED
    BY <1>4, <2>1
<1>7. CASE \/ SetupTimer(n) \/ RetryTimer(n) \/ ListTimer(n) \/ DepartTimer(n)
           \/ CacheFull(n) \/ CacheDrains(n) \/ Start(n)
  <2>1. UNCHANGED linkVars
    BY <1>7 DEF SetupTimer, RetryTimer, ListTimer, DepartTimer, CacheFull,
       CacheDrains, Start
  <2>. QED
    BY <1>3, <2>1 DEF linkVars
<1>. QED
  BY <1>5, <1>6, <1>7 DEF TimeProcess

\* Under Prompt a DEPART is sent when neither it nor its DETACH is under way.
LEMMA DepartOnce ==
    ASSUME Prompt, LinkInv, NEW n \in Nodes, DepartTimer(n),
           dst[n][PARENT_ID] \in Nodes, up[dst[n][PARENT_ID]] = "up"
    PROVE  NoToken(net, Leaving(n))
<1>1. \A m \in Nodes : net[m][n] = <<>> /\ (net[n][m] = <<>> \/ up[m] # "up")
  BY DEF DepartTimer, Timely
<1>2. ASSUME NEW a \in Nodes, NEW b \in Nodes, NEW p \in Fly(net, a, b),
             p \in Leaving(n)[a][b]
      PROVE  FALSE
  <2>1. b # n
    BY <1>1, <1>2, FewElements DEF Fly
  <2>2. a = n /\ p.type = "DEPART"
    BY <1>2, <2>1 DEF Leaving
  <2>3. b = dst[n][PARENT_ID]
    BY <1>2, <2>2 DEF LinkInv, Fit
  <2>. QED
    BY <1>1, <1>2, <2>2, <2>3, FewElements DEF Fly
<1>. QED
  BY <1>2, WithoutElements DEF NoToken, Fly

\* Departures that begin.
LEMMA LeaveTimer ==
    ASSUME Unrepeated, Prompt, LeaveInv, NEW n \in Nodes, TimeProcess(n) \/ Start(n),
           NEW m \in Nodes
    PROVE  LeaveNode(m)'
<1> DEFINE F == Leaving(m)
<1>1. TypeOK /\ LinkInv /\ OneToken(net, F) /\ (~NoToken(net, F) => Sure(m))
  BY DEF LeaveInv, LeaveNode, LinkInv, TypeInv
<1>2. Sure(m) => Sure(m)'
  BY <1>1, SureTimer
<1>3. ASSUME OneToken(net', F), NoToken(net, F) => NoToken(net', F)
      PROVE  LeaveNode(m)'
  BY <1>1, <1>2, <1>3 DEF LeaveNode
<1>4. CASE UNCHANGED net
  BY <1>1, <1>3, <1>4
<1>5. ASSUME NEW out \in Outs, Send(n, out), \A b \in Nodes : Without(out[b], F[n][b])
      PROVE  LeaveNode(m)'
  <2>1. net' = Sent(net, n, out) /\ net \in Nets
    BY <1>1, <1>5, AfterTimer
  <2>2. OneToken(net', F) /\ (NoToken(net, F) => NoToken(net', F))
    BY <1>1, <1>5, <2>1, TokenSentNone
  <2>. QED
    BY <1>3, <2>2
<1>6. ASSUME NEW out \in Outs, Send(n, out),
             \A b \in Nodes : \A p \in Elements(out[b]) : p.type \notin Leavings
      PROVE  LeaveNode(m)'
  <2>1. \A b \in Nodes : Without(out[b], F[n][b])
    BY <1>6, WithoutElements DEF Leaving, Leavings
  <2>. QED
    BY <1>5, <1>6, <2>1
<1>7. CASE DepartTimer(n)
  <2> DEFINE c == dst[n][PARENT_ID]
             q == Msg("DEPART", <<My(n)>>)
             out == To(c, <<q>>)
  <2>1. <<q>> \in Seq(Packet) /\ q.type = "DEPART"
    BY <1>1, NodeParts, OneRecord DEF Types, Msg
  <2>2. Send(n, out) /\ HasParent(n)
    BY <1>7 DEF DepartTimer, Departs
  <2>3. out[c] = <<q>> \/ c \notin Nodes \/ up[c] # "up"
    BY DEF To
  <2> HIDE DEF q
  <2>4. out \in Outs /\ \A b \in Nodes : \A p \in Elements(out[b]) : p = q /\ b = c /\ up[c] = "up"
    BY <2>1, ToOne
  <2> HIDE DEF out
  <2>5. CASE m # n \/ c \notin Nodes \/ up[c] # "up"
    <3>1. \A b \in Nodes : Without(out[b], F[n][b])
      BY <2>1, <2>4, <2>5, WithoutElements DEF Leaving
    <3>. QED
      BY <1>5, <2>2, <2>4, <3>1
  <2>6. CASE m = n /\ c \in Nodes /\ up[c] = "up"
    <3>1. NoToken(net, F)
      BY <1>1, <1>7, <2>6, DepartOnce
    <3>2. Once(out[c], F[n][c])
      BY <2>3, <2>6 DEF Once
    <3>3. \A b \in Nodes \ {c} : Without(out[b], F[n][b])
      BY <2>4, WithoutElements
    <3>4. net' = Sent(net, n, out) /\ net \in Nets
      BY <1>1, <2>2, <2>4, AfterTimer
    <3>5. OneToken(net', F)
      BY <2>4, <2>6, <3>1, <3>2, <3>3, <3>4, TokenSentOne
    <3>6. Sure(m)
      BY <2>2, <2>6 DEF Sure
    <3>. QED
      BY <1>2, <3>5, <3>6 DEF LeaveNode
  <2>. QED
    BY <2>5, <2>6
<1>8. CASE ~DepartTimer(n) /\ ~UNCHANGED net
  <2>1. PICK out \in Outs :
           /\ Send(n, out)
           /\ \/ \E a : out = To(a, <<SendSetup(n)>>)
              \/ \E a : out = To(a, <<SendConnect(n)>>)
              \/ \A y \in Nodes : \A p \in Elements(out[y]) : p.type = "REQ_LIST"
    BY <1>1, <1>8, TimerSends
  <2>2. ASSUME NEW q, <<q>> \in Seq(Packet), q.type \notin Leavings,
               NEW a, out = To(a, <<q>>)
        PROVE  \A y \in Nodes : \A p \in Elements(out[y]) : p.type \notin Leavings
    BY <2>2, ToOne
  <2>3. /\ <<SendSetup(n)>> \in Seq(Packet) /\ SendSetup(n).type \notin Leavings
        /\ <<SendConnect(n)>> \in Seq(Packet) /\ SendConnect(n).type \notin Leavings
    <3>1. SendSetup(n).type = "SETUP" /\ SendConnect(n).type = "CONNECT"
      BY DEF SendSetup, SendConnect, Msg
    <3>. QED
      BY <1>1, <3>1, SendSetupType, ConnectTypes DEF Leavings
  <2>4. \A y \in Nodes : \A p \in Elements(out[y]) : p.type \notin Leavings
    <3>1. CASE \A y \in Nodes : \A p \in Elements(out[y]) : p.type = "REQ_LIST"
      BY <3>1 DEF Leavings
    <3>. QED
      BY <2>1, <2>2, <2>3, <3>1
  <2>. QED
    BY <1>6, <2>1, <2>4
<1>. QED
  BY <1>4, <1>7, <1>8

LEMMA LeaveInit == Init => LeaveInv
<1> SUFFICES ASSUME Init
             PROVE  LeaveInv
  OBVIOUS
<1>1. \A x, y \in Nodes : net[x][y] = <<>>
  BY DEF Init
<1>2. \A F : NoToken(net, F) /\ OneToken(net, F)
  BY <1>1 DEF NoToken, OneToken, Without, Once
<1>. QED
  BY <1>2, LinkInit DEF LeaveInv, LeaveNode

LEMMA LeaveNext == ASSUME Unrepeated, Prompt PROVE LeaveInv /\ [Next]_vars => LeaveInv'
<1> SUFFICES ASSUME LeaveInv, [Next]_vars
             PROVE  LeaveInv'
  OBVIOUS
<1> DEFINE AllNodes == \A m \in Nodes : LeaveNode(m)
<1>1. LinkInv' /\ LinkInv /\ TypeOK /\ BudgetInv /\ AllNodes
  BY LinkNext DEF LeaveInv, LinkInv, TypeInv
<1> HIDE DEF AllNodes
<1>2. ASSUME NEW s \in Nodes, NEW n \in Nodes, Receive(s, n)
      PROVE  AllNodes'
  BY <1>1, <1>2, LeavingToken, SureHandler DEF LeaveNode, AllNodes
<1>3. ASSUME NEW n \in Nodes, TimeProcess(n) \/ Start(n)
      PROVE  AllNodes'
  BY <1>3, LeaveTimer DEF AllNodes
<1>4. ASSUME UNCHANGED linkVars,
             \A F : /\ NoToken(net, F) => NoToken(net', F)
                    /\ OneToken(net, F) => OneToken(net', F)
      PROVE  AllNodes'
  <2>1. \A m \in Nodes : Sure(m) => Sure(m)'
    BY <1>4 DEF Sure, HasParent, linkVars
  <2>. QED
    BY <1>1, <1>4, <2>1 DEF LeaveNode, AllNodes
<1>5. ASSUME \/ \E s, n \in Nodes : Network(s, n)
             \/ \E n \in Nodes : Crash(n)
      PROVE  AllNodes'
  <2>1. UNCHANGED linkVars /\ Budget["dup"] = 0 /\ Budget["race"] = 0
    BY <1>1, <1>5, FaultFrame DEF linkVars, Unrepeated
  <2>. QED
    BY <1>1, <1>4, <1>5, <2>1, FaultToken
<1>6. ASSUME NEW k \in Nodes, NEW m \in Nodes, NEW n \in Nodes, KeepAlive(k, m, n)
      PROVE  AllNodes'
  BY <1>4, <1>6, KeepAliveFrame DEF linkVars
<1>7. ASSUME UNCHANGED vars
      PROVE  AllNodes'
  <2>1. UNCHANGED linkVars /\ net' = net
    BY <1>7 DEF vars, linkVars
  <2>. QED
    BY <1>4, <2>1
<1>8. AllNodes'
  BY <1>2, <1>3, <1>5, <1>6, <1>7 DEF Next
<1>. QED
  BY <1>1, <1>8 DEF LeaveInv, AllNodes

\* DetachHasParent: when no packet outlives a timer and none is repeated, a
\* node whose count is exact gets DETACH only for a parent it has.
THEOREM DetachFindsParent == ASSUME Unrepeated, Prompt PROVE Spec => DetachHasParent
<1> DEFINE A == \A s, n \in Nodes : NodeDetach(s, n) /\ childNum[n] = Kids(connected[n])
                                      => HasParent(n)
<1>1. ASSUME LeaveInv
      PROVE  A
  <2> SUFFICES ASSUME NEW s \in Nodes, NEW n \in Nodes, NodeDetach(s, n),
                      childNum[n] = Kids(connected[n])
               PROVE  HasParent(n)
    OBVIOUS
  <2>1. net[s][n] \in Seq(Packet) /\ net[s][n] # <<>> /\ Head(net[s][n]).type = "DETACH"
    BY <1>1 DEF LeaveInv, LinkInv, TypeInv, TypeOK, NodeDetach, Arrived
  <2>2. Head(net[s][n]) \in Packet /\ Head(net[s][n]) \in Elements(net[s][n])
    BY <2>1, TailElements
  <2>3. ~NoToken(net, Leaving(n))
    BY <2>1, <2>2, WithoutElements DEF NoToken, Leaving
  <2>. QED
    BY <1>1, <2>3 DEF LeaveInv, LeaveNode, Sure
<1>2. LeaveInv /\ [Next]_vars => [A]_vars
  BY <1>1
<1>. QED
  BY <1>2, LeaveInit, LeaveNext, PTL DEF Spec, DetachHasParent

=============================================================================
