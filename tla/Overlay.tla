------------------------------ MODULE Overlay ------------------------------
(***************************************************************************)
(* The membership protocol of the streaming overlay: how a peer joins the  *)
(* tree rooted at the origin source, is redirected, departs, is detached,  *)
(* loses its parent and connects to another one, and how the candidate     *)
(* lists travel.  Translated from src/src/common/p2p.c and the Receive     *)
(* dispatch of src/src/peer/main.c and src/src/originsource/main.c.        *)
(*                                                                         *)
(* Every node runs the same handlers over the same globals; a global G is  *)
(* here a function of the node.  A handler of the READ thread is one       *)
(* action, and so is one pass of a branch of the TIME thread.  Addresses   *)
(* and ports are one value per node (no address translation).  What a      *)
(* status says about the stream (cluster_seq and the block fields) is left *)
(* to BlockStream.                                                         *)
(*                                                                         *)
(* An operator F_Fault is F with a plausible mistake in it; nothing uses   *)
(* it.  Putting it in the place of F shows which property notices.         *)
(***************************************************************************)
EXTENDS NodeList

CONSTANTS
    Origin,     \* the origin source
    Peers,      \* the other nodes
    NoAddr,     \* the address 0.0.0.0 of a status never filled in
    IdSpace,    \* number of node ids (u16 in the code)
    LayerSpace, \* number of layers (u8 in the code)
    Stale,      \* what bytes outside a packet or an array decode to
    Prompt,     \* TRUE: no packet takes longer than a timer
    OriginWarm, \* TRUE: the origin's TIME thread ran before the first packet
    Budget      \* how often each kind of fault and of timer step may happen

Nodes == {Origin} \cup Peers
Addrs == Nodes \cup {NoAddr}

ORIGIN_ID == 0
PARENT_ID == 2
MY_ID     == 3
MAX_CHILD_NUM == 2
ChildSlots == 0..1
Slots == 0..3

Ids == 0..(IdSpace - 1)
Status == [id : Ids, ip : Addrs, p : Addrs, layer : 0..(LayerSpace - 1)]
ZeroStatus == [id |-> 0, ip |-> NoAddr, p |-> NoAddr, layer |-> 0]

Kinds == {"loss", "dup", "reorder", "crash",           \* faults
          "race",                                      \* on DST[TMP_ID]
          "resend", "expire", "lists", "retry",        \* branches of the
          "depart", "drain",                           \* TIME thread
          "total"}                                     \* all together

ASSUME NodesAssumption == Origin \notin Peers /\ NoAddr \notin Nodes
ASSUME SpaceAssumption == IdSpace \in Nat \ {0} /\ LayerSpace \in Nat \ {0}
ASSUME StaleAssumption == Stale \subseteq Status /\ Stale # {}
ASSUME BudgetAssumption == Budget \in [Kinds -> Nat]

VARIABLES
    up,         \* "off" before main, "up", "dead" once the process is gone
    status,     \* NODES_STATUS, by slot
    dst,        \* DST_IP and DST_PORT of the slots 0..2
    connected,  \* CONNECTED_NODES, a u8
    childNum,   \* CURRENT_CHILD_NUM, an int
    stamped,    \* the slots whose timestamp is not zero
    isSetup,    \* IS_SETUP
    isRetry,    \* IS_RETRY
    streaming,  \* IS_BEGIN_STREAMING
    cached,     \* CURRENT_CACHE >= DEFAULT_CACHE
    nodesList,  \* NODES_LIST
    exceptList, \* EXCEPT_LIST
    nextId,     \* CURRENT_NODE_ID of the origin (0 for ever at a peer)
    net,        \* packets in flight from a node to a node, oldest first
    budget      \* what is left of Budget

nodeVars == <<up, nextId>>
slotVars == <<status, dst, stamped>>
linkVars == <<connected, childNum>>
flagVars == <<isSetup, isRetry, streaming>>
listVars == <<nodesList, exceptList>>
vars == <<up, nextId, status, dst, stamped, connected, childNum, isSetup,
          isRetry, streaming, cached, nodesList, exceptList, net, budget>>

-----------------------------------------------------------------------------
(* CONNECTED_NODES: one bit per slot of a u8, set with += and cleared with  *)
(* -= whatever the bit was.                                                 *)

Weight(i) == CASE i = 0 -> 1 [] i = 1 -> 2 [] i = 2 -> 4 [] i = 3 -> 8
Bit(c, i) == (c \div Weight(i)) % 2 = 1
SetBit(c, i) == (c + Weight(i)) % 256
ClearBit_Above(c, i) == c % Weight(i)
ClearBit_ChildOnly(c, i) == IF i = 2 THEN c ELSE (c - Weight(i)) % 256
ClearBit(c, i) == (c - Weight(i)) % 256

\* The number of child bits that are set.
Kids(c) == (c % 2) + ((c \div 2) % 2)

Connected(n) == {i \in Slots : Bit(connected[n], i)}

My(n) == status[n][MY_ID]

HasParent(n) == Bit(connected[n], PARENT_ID)

\* "Check Cache" of NodeSetup and NodeConnect.
Ready_Always(n) == TRUE
Ready(n) == cached[n]

\* UpdateTimestamp of a slot.
Stamp_Missing(n, i) == stamped
Stamp(n, i) == [stamped EXCEPT ![n] = @ \cup {i}]

\* GtoPIP: the private address of a node behind the same global address.
GtoPIP(n, s) == IF My(n).ip = s.ip THEN s.p ELSE s.ip

NextLayer_Same(n) == My(n).layer
NextLayer(n) == (My(n).layer + 1) % LayerSpace

-----------------------------------------------------------------------------
(* Packets: a type and the status records, or the parts of one, it carries. *)

Types == {"SETUP", "ID", "INITIAL_STATUS", "ADVERTISE", "CONNECT", "DEPART",
          "DETACH", "ACCEPT", "UNACCEPT", "REQ_LIST", "RES_LIST"}

\* The packets whose handlers read a first record that is always there.
Addressed == Types \ {"ADVERTISE", "INITIAL_STATUS", "RES_LIST", "DETACH"}
Packet == {p \in [type : Types, body : Seq(Status)] :
             p.type \in Addressed => p.body # <<>>}

Msg(type, body) == [type |-> type, body |-> body]
OnlyId(id) == [ZeroStatus EXCEPT !.id = id]

Silence == [m \in Nodes |-> <<>>]
To(a, msgs) == [m \in Nodes |-> IF m = a /\ up[m] = "up" THEN msgs ELSE <<>>]

Send(n, out) ==
    net' = [net EXCEPT ![n] = [m \in Nodes |-> net[n][m] \o out[m]]]

\* n takes the oldest packet from s and sends out.
Reply(s, n, out) ==
    net' = [a \in Nodes |-> [b \in Nodes |->
              (IF a = s /\ b = n THEN Tail(net[a][b]) ELSE net[a][b])
              \o (IF a = n THEN out[b] ELSE <<>>)]]

Arrived(s, n, type) ==
    /\ up[n] = "up"
    /\ net[s][n] # <<>>
    /\ Head(net[s][n]).type = type

Body(s, n) == Head(net[s][n]).body

\* The k-th record of a packet; past its end the receiver reads stale bytes.
RecordAt(body, k) == IF k <= Len(body) THEN {body[k]} ELSE Stale

\* The first num records of what a sender copied into its zeroed buffer.
Records(recs, num) ==
    [k \in 1..num |-> IF k <= Len(recs) THEN recs[k] ELSE ZeroStatus]

\* A negative number of records wraps to some 65000 bytes in the u16 length,
\* which PacketGenerate copies over the stack: the process ends.
Survives(n, num) == up' = [up EXCEPT ![n] = IF num < 0 THEN "dead" ELSE @]

Spend(kind) == /\ budget[kind] > 0 /\ budget["total"] > 0
               /\ budget' = [budget EXCEPT ![kind] = @ - 1, !["total"] = @ - 1]

\* Under Prompt a 5 second timer of n finds no packet of n in flight: an
\* assumption about the network, not a guard of the code.
Timely(n) ==
    Prompt => \A m \in Nodes : /\ net[m][n] = <<>>
                              /\ (net[n][m] = <<>> \/ up[m] # "up")

-----------------------------------------------------------------------------
(* What the senders put in a packet.                                        *)

Kept_All(n, i, skip) ==
    IF Bit(connected[n], i) THEN <<status[n][i]>> ELSE <<>>
Kept(n, i, skip) ==
    IF i # skip /\ Bit(connected[n], i) THEN <<status[n][i]>> ELSE <<>>

\* The connected slots below MY_ID, without one.
Neighbours(n, skip) == Kept(n, 0, skip) \o Kept(n, 1, skip) \o Kept(n, 2, skip)

\* Four bytes when the node has no id yet, ten otherwise.
SendSetup(n) ==
    Msg("SETUP", <<IF My(n).id = 0 THEN [ZeroStatus EXCEPT !.p = My(n).p]
                   ELSE [My(n) EXCEPT !.layer = 0]>>)

\* Called before the bit of the new child is set and the child counted.
InitialStatusNum(n) ==
    childNum[n] + 2 + IF HasParent(n) THEN 1 ELSE 0
SendInitialStatus(n, i, child) ==
    Msg("INITIAL_STATUS",
        Records(<<child, My(n)>> \o Neighbours(n, i), InitialStatusNum(n)))

AdvertiseNum(n) == childNum[n] + 1
SendAdvertise(n, i, ad) ==
    Msg("ADVERTISE",
        Records(<<ad>> \o (IF i = MY_ID THEN <<>> ELSE <<My(n)>>)
                  \o Neighbours(n, i), AdvertiseNum(n)))

\* The list without the entries of the node asked for; status_num counts
\* the requester as a child even when it is the parent.
ListedWithout(n, id) ==
    LET F == {k \in 1..Len(nodesList[n]) : nodesList[n][k].id # id}
    IN  [j \in 1..Cardinality(F) |-> nodesList[n][Nth(F, j)]]
ResListNum(n, i) ==
    childNum[n] - 1 + Len(ListedWithout(n, status[n][i].id))
SendResList(n, i) ==
    Msg("RES_LIST",
        Records(Kept(n, 0, i) \o Kept(n, 1, i)
                  \o ListedWithout(n, status[n][i].id), ResListNum(n, i)))

-----------------------------------------------------------------------------
(* SETUP: a node asks to become a child.                                    *)

\* GenerateRndID draws init_val + rand() % range; C takes the sign of rand().
Draws(init, range) ==
    IF range = 0 THEN {init}
    ELSE {init + v : v \in 0..((IF range < 0 THEN -range ELSE range) - 1)}

\* 0 stands for the node itself, v for its v-th connected child.
DrawnSlot(c, v) ==
    CASE v = 0 -> MY_ID
      [] v = 1 /\ Bit(c, 0) -> 0
      [] v = 1 /\ ~Bit(c, 0) /\ Bit(c, 1) -> 1
      [] v = 2 /\ Bit(c, 0) /\ Bit(c, 1) -> 1
      [] OTHER -> -1

GenerateRndID(n, init, range) ==
    {DrawnSlot(connected[n], v) : v \in Draws(init, range)}

\* The first free child slot, or -1.
CheckChildNum_First(n) == IF childNum[n] < MAX_CHILD_NUM THEN 0 ELSE -1
CheckChildNum(n) ==
    CASE childNum[n] >= MAX_CHILD_NUM -> -1
      [] childNum[n] < MAX_CHILD_NUM /\ ~Bit(connected[n], 0) -> 0
      [] childNum[n] < MAX_CHILD_NUM /\ Bit(connected[n], 0)
           /\ ~Bit(connected[n], 1) -> 1
      [] OTHER -> -1

SlotRecord(n, i) == IF i \in Slots THEN {status[n][i]} ELSE Stale

\* Only the origin answers a four byte SETUP with a new id, before NodeSetup.
Numbers(s, n) == n = Origin /\ Body(s, n)[1].id = 0
CurrentId_Same(s, n) == nextId
CurrentId(s, n) == IF Numbers(s, n) THEN (nextId + 1) % IdSpace ELSE nextId
SendID_Before(s, n) ==
    IF Numbers(s, n) THEN <<Msg("ID", <<[OnlyId(nextId) EXCEPT !.ip = s]>>)>>
    ELSE <<>>
SendID(s, n) ==
    IF Numbers(s, n)
    THEN <<Msg("ID", <<[OnlyId(CurrentId(s, n)) EXCEPT !.ip = s]>>)>>
    ELSE <<>>

\* NodeSetup, redirecting the sender to slot i, whose status is ad.
Redirect(s, n, i) ==
    \E ad \in SlotRecord(n, i) :
       /\ Survives(n, AdvertiseNum(n))
       /\ Reply(s, n, To(s, SendID(s, n) \o
            IF AdvertiseNum(n) < 0 THEN <<>> ELSE <<SendAdvertise(n, i, ad)>>))
       /\ nextId' = CurrentId(s, n)
       /\ UNCHANGED <<slotVars, linkVars, flagVars, listVars, cached, budget>>

\* The draw chose a child.
NodeSetupDrawn(s, n) ==
    /\ Arrived(s, n, "SETUP")
    /\ \E i \in GenerateRndID(n, 0, childNum[n] + 1) \ {MY_ID} :
          Redirect(s, n, i)

\* The draw chose this node, which has not cached enough: try me again.
NodeSetupUncached(s, n) ==
    /\ Arrived(s, n, "SETUP")
    /\ MY_ID \in GenerateRndID(n, 0, childNum[n] + 1)
    /\ ~Ready(n)
    /\ Redirect(s, n, MY_ID)

\* The draw chose this node, which has no slot free: draw among the children.
NodeSetupFull(s, n) ==
    /\ Arrived(s, n, "SETUP")
    /\ MY_ID \in GenerateRndID(n, 0, childNum[n] + 1)
    /\ Ready(n)
    /\ CheckChildNum(n) = -1
    /\ \E i \in GenerateRndID(n, 1, childNum[n]) : Redirect(s, n, i)

\* The status of the new child.  A node whose own id is 0 takes itself for
\* the origin; another one reads id and address from the packet, past its
\* end when the SETUP is a four byte one.
NewChild(s, n) ==
    LET m == Body(s, n)[1]
        read == IF My(n).id = ORIGIN_ID
                THEN {[id |-> IF n = Origin THEN CurrentId(s, n) ELSE 0,
                       ip |-> s]}
                ELSE IF m.id = 0 THEN {[id |-> t.id, ip |-> t.ip] : t \in Stale}
                ELSE {[id |-> m.id, ip |-> m.ip]}
    IN  {[id |-> r.id, ip |-> r.ip, p |-> m.p, layer |-> NextLayer(n)] :
            r \in read}

AddChild(n, i, child, addr) ==
    /\ status' = [status EXCEPT ![n][i] = child]
    /\ dst' = [dst EXCEPT ![n][i] = addr]
    /\ stamped' = Stamp(n, i)
    /\ connected' = [connected EXCEPT ![n] = SetBit(@, i)]
    /\ childNum' = [childNum EXCEPT ![n] = @ + 1]

NodeSetupJoin(s, n) ==
    /\ Arrived(s, n, "SETUP")
    /\ MY_ID \in GenerateRndID(n, 0, childNum[n] + 1)
    /\ Ready(n)
    /\ LET i == CheckChildNum(n) IN
       /\ i # -1
       /\ \E child \in NewChild(s, n) :
             /\ AddChild(n, i, child, s)
             /\ Survives(n, InitialStatusNum(n))
             /\ Reply(s, n, To(s, SendID(s, n) \o
                  IF InitialStatusNum(n) < 0 THEN <<>>
                  ELSE <<SendInitialStatus(n, i, child)>>))
    /\ nextId' = CurrentId(s, n)
    /\ UNCHANGED <<flagVars, listVars, cached, budget>>

-----------------------------------------------------------------------------
(* The answers to SETUP.                                                    *)

NodeID(s, n) ==
    /\ n # Origin
    /\ Arrived(s, n, "ID")
    /\ LET m == Body(s, n)[1] IN
       status' = [status EXCEPT
                    ![n][MY_ID] = [@ EXCEPT !.id = m.id, !.ip = m.ip]]
    /\ Reply(s, n, Silence)
    /\ UNCHANGED <<nodeVars, dst, stamped, linkVars, flagVars, listVars,
                   cached, budget>>

\* My own status is the first record, the parent's the second, the rest go
\* to the list.  DST of the parent slot stays where SETUP was sent last.
NodeInitialStatus(s, n) ==
    /\ Arrived(s, n, "INITIAL_STATUS")
    /\ LET body == Body(s, n) IN
       /\ \E me \in RecordAt(body, 1), parent \in RecordAt(body, 2) :
             status' = [status EXCEPT ![n] = [@ EXCEPT ![MY_ID] = me,
                                                       ![PARENT_ID] = parent]]
       /\ nodesList' = [nodesList EXCEPT
                          ![n] = StoreNew(@, SubSeq(body, 3, Len(body)))]
    /\ connected' = [connected EXCEPT ![n] = SetBit(@, PARENT_ID)]
    /\ stamped' = Stamp(n, PARENT_ID)
    /\ isSetup' = [isSetup EXCEPT ![n] = FALSE]
    /\ Reply(s, n, Silence)
    /\ UNCHANGED <<nodeVars, dst, childNum, isRetry, streaming, exceptList,
                   cached, budget>>

NodeAdvertise_SameParent(s, n) ==
    /\ Arrived(s, n, "ADVERTISE")
    /\ LET body == Body(s, n) IN
       nodesList' = [nodesList EXCEPT
                       ![n] = StoreNew(@, SubSeq(body, 2, Len(body)))]
    /\ Reply(s, n, To(dst[n][PARENT_ID], <<SendSetup(n)>>))
    /\ UNCHANGED <<nodeVars, slotVars, linkVars, flagVars, exceptList, cached,
                   budget>>

\* The advertised node becomes the one to send SETUP to, at once and by the
\* timer; the others go to the list.
NodeAdvertise(s, n) ==
    /\ Arrived(s, n, "ADVERTISE")
    /\ LET body == Body(s, n) IN
       /\ nodesList' = [nodesList EXCEPT
                          ![n] = StoreNew(@, SubSeq(body, 2, Len(body)))]
       /\ \E ad \in RecordAt(body, 1) :
             /\ dst' = [dst EXCEPT ![n][PARENT_ID] = GtoPIP(n, ad)]
             /\ Reply(s, n, To(GtoPIP(n, ad), <<SendSetup(n)>>))
    /\ UNCHANGED <<nodeVars, status, stamped, linkVars, flagVars, exceptList,
                   cached, budget>>

-----------------------------------------------------------------------------
(* CONNECT: a detached or orphaned node asks a candidate to be its parent.  *)

SendConnect(n) == Msg("CONNECT", <<My(n)>>)
SendUnaccept(n) == Msg("UNACCEPT", <<OnlyId(My(n).id)>>)

\* Looks the id up as an index of NODES_STATUS, not among the children; past
\* the end of the array the comparison may go either way.
IsDuplicatedChild(n, id) ==
    IF ~\E i \in ChildSlots : Bit(connected[n], i) THEN {FALSE}
    ELSE IF id \in Slots THEN {status[n][id].id = id}
    ELSE BOOLEAN

NodeConnectRefused(s, n) ==
    /\ Arrived(s, n, "CONNECT")
    /\ ~Ready(n) \/ CheckChildNum(n) = -1
    /\ Reply(s, n, To(Body(s, n)[1].ip, <<SendUnaccept(n)>>))
    /\ UNCHANGED <<nodeVars, slotVars, linkVars, flagVars, listVars, cached,
                   budget>>

\* No answer at all.
NodeConnectDuplicate(s, n) ==
    /\ Arrived(s, n, "CONNECT")
    /\ Ready(n) /\ CheckChildNum(n) # -1
    /\ TRUE \in IsDuplicatedChild(n, Body(s, n)[1].id)
    /\ Reply(s, n, Silence)
    /\ UNCHANGED <<nodeVars, slotVars, linkVars, flagVars, listVars, cached,
                   budget>>

NodeConnectAccepted(s, n) ==
    /\ Arrived(s, n, "CONNECT")
    /\ Ready(n) /\ CheckChildNum(n) # -1
    /\ LET m == Body(s, n)[1] IN
       /\ FALSE \in IsDuplicatedChild(n, m.id)
       /\ AddChild(n, CheckChildNum(n), [m EXCEPT !.layer = NextLayer(n)], m.ip)
       /\ Reply(s, n, To(m.ip, <<Msg("ACCEPT", <<My(n)>>)>>))
    /\ UNCHANGED <<nodeVars, flagVars, listVars, cached, budget>>

\* The status of the parent slot and the layer follow the new parent; DST of
\* the parent slot does not.
NodeAccept(s, n) ==
    /\ n # Origin
    /\ Arrived(s, n, "ACCEPT")
    /\ LET parent == Body(s, n)[1]
           me == [My(n) EXCEPT !.layer = (parent.layer + 1) % LayerSpace]
       IN  status' = [status EXCEPT ![n] = [@ EXCEPT ![MY_ID] = me,
                                                     ![PARENT_ID] = parent]]
    /\ stamped' = Stamp(n, PARENT_ID)
    /\ isRetry' = [isRetry EXCEPT ![n] = FALSE]
    /\ connected' = [connected EXCEPT
                       ![n] = IF HasParent(n) THEN @
                              ELSE SetBit(@, PARENT_ID)]
    /\ exceptList' = [exceptList EXCEPT ![n] = {}]
    /\ Reply(s, n, Silence)
    /\ UNCHANGED <<nodeVars, dst, childNum, isSetup, streaming, nodesList,
                   cached, budget>>

\* The except list after pushing id, and the candidate it leaves.
Excepted(n, id) == ExceptListPush(exceptList[n], My(n).id, id)
Exhausted(n, id) == PriorAt(nodesList[n], My(n).layer, Excepted(n, id)) = {}
NextCandidate(n, id) == Candidate(nodesList[n], My(n).layer, Excepted(n, id))

\* Pushes id, frees the list when no candidate is left.
Except(n, id) ==
    exceptList' = [exceptList EXCEPT
                     ![n] = IF Exhausted(n, id) THEN {} ELSE Excepted(n, id)]

NodeUnaccept(s, n) ==
    /\ n # Origin
    /\ Arrived(s, n, "UNACCEPT")
    /\ LET id == Body(s, n)[1].id IN
       /\ Except(n, id)
       /\ Reply(s, n, To(GtoPIP(n, NextCandidate(n, id)), <<SendConnect(n)>>))
    /\ UNCHANGED <<nodeVars, slotVars, linkVars, flagVars, nodesList, cached,
                   budget>>

-----------------------------------------------------------------------------
(* DEPART and DETACH: a node whose cache runs low leaves its parent.        *)

\* Every child slot that holds the id counts, connected or not: the statuses
\* of children that are gone stay (InitNodeStatus clears a copy).
Departing(n, id) == {i \in ChildSlots : status[n][i].id = id}

One(i, gone) == IF i \in gone THEN 1 ELSE 0

DepartNum_Kept(k, gone) == k
DepartNum(k, gone) == k - One(0, gone) - One(1, gone)

DepartBits_Int(c, gone) == c - One(0, gone) - 2 * One(1, gone)
DepartBits(c, gone) == (c - One(0, gone) - 2 * One(1, gone)) % 256

NodeDepart(s, n) ==
    /\ Arrived(s, n, "DEPART")
    /\ LET m == Body(s, n)[1]
           gone == Departing(n, m.id)
       IN  /\ childNum' = [childNum EXCEPT ![n] = DepartNum(@, gone)]
           /\ connected' = [connected EXCEPT ![n] = DepartBits(@, gone)]
           /\ Reply(s, n, To(GtoPIP(n, m), <<Msg("DETACH", <<>>)>>))
    /\ UNCHANGED <<nodeVars, slotVars, flagVars, listVars, cached, budget>>

\* The candidate becomes the parent by id before it has answered.
NodeDetach(s, n) ==
    /\ Arrived(s, n, "DETACH")
    /\ streaming' = [streaming EXCEPT ![n] = FALSE]
    /\ connected' = [connected EXCEPT ![n] = ClearBit(@, PARENT_ID)]
    /\ LET prior == Candidate(nodesList[n], My(n).layer, exceptList[n]) IN
       /\ status' = [status EXCEPT ![n][PARENT_ID].id = prior.id]
       /\ Reply(s, n, To(GtoPIP(n, prior), <<SendConnect(n)>>))
    /\ UNCHANGED <<nodeVars, dst, stamped, childNum, isSetup, isRetry,
                   listVars, cached, budget>>

-----------------------------------------------------------------------------
(* REQ_LIST and RES_LIST.                                                   *)

\* The last connected slot with the id, or -1.
SlotOf(n, id) ==
    LET at == {i \in Connected(n) : status[n][i].id = id}
    IN  IF at = {} THEN -1 ELSE CHOOSE i \in at : \A j \in at : j <= i

\* DST of slot 3 is TMP_ID's: whatever the last packet to a node without a
\* slot left there, so it may be any address.
Target(n, i) == IF i = MY_ID THEN Addrs ELSE {dst[n][i]}

NodeReqListUnknown(s, n) ==
    /\ Arrived(s, n, "REQ_LIST")
    /\ SlotOf(n, Body(s, n)[1].id) = -1
    /\ Reply(s, n, Silence)
    /\ UNCHANGED <<nodeVars, slotVars, linkVars, flagVars, listVars, cached,
                   budget>>

NodeReqList(s, n) ==
    /\ Arrived(s, n, "REQ_LIST")
    /\ LET i == SlotOf(n, Body(s, n)[1].id) IN
       /\ i # -1
       /\ Survives(n, ResListNum(n, i))
       /\ \E a \in Target(n, i) :
             Reply(s, n, IF ResListNum(n, i) < 0 THEN Silence
                         ELSE To(a, <<SendResList(n, i)>>))
    /\ UNCHANGED <<nextId, slotVars, linkVars, flagVars, listVars, cached,
                   budget>>

NodeResList(s, n) ==
    /\ n # Origin
    /\ Arrived(s, n, "RES_LIST")
    /\ nodesList' = [nodesList EXCEPT ![n] = StoreUpdate(@, Body(s, n))]
    /\ Reply(s, n, Silence)
    /\ UNCHANGED <<nodeVars, slotVars, linkVars, flagVars, exceptList, cached,
                   budget>>

-----------------------------------------------------------------------------
(* The TIME thread.                                                         *)

\* A SETUP to 0.0.0.0 reaches nobody and is not counted.
SetupTimer(n) ==
    /\ up[n] = "up" /\ isSetup[n]
    /\ Timely(n)
    /\ IF dst[n][PARENT_ID] = NoAddr THEN UNCHANGED budget ELSE Spend("resend")
    /\ Send(n, To(dst[n][PARENT_ID], <<SendSetup(n)>>))
    /\ UNCHANGED <<nodeVars, slotVars, linkVars, flagVars, listVars, cached>>

\* A KEEPALIVE of k reaches m through one of k's connected slots, and m's
\* answer goes to DST of the slot m finds k's id in: node n.
Answers(k, m, n) ==
    /\ up[k] = "up" /\ up[m] = "up" /\ up[n] = "up"
    /\ \E i \in Connected(k) : m \in Target(k, i)
    /\ LET j == SlotOf(m, My(k).id) IN j # -1 /\ n \in Target(m, j)

\* SendKeepAlive, NodeKeepAlive, SendKeepAliveRes and NodeKeepAliveRes as one
\* step: all they change is the timestamps of the slots with m's id.
KeepAlive(k, m, n) ==
    /\ Answers(k, m, n)
    /\ stamped' = [stamped EXCEPT
                     ![n] = @ \cup {i \in Connected(n) :
                                       status[n][i].id = My(m).id}]
    /\ UNCHANGED <<nodeVars, status, dst, linkVars, flagVars, listVars, cached,
                   net, budget>>

\* The timestamp of a connected slot is 5 seconds old: under Prompt only when
\* nobody answers for that slot.
Overdue(n, i) ==
    /\ up[n] = "up"
    /\ i \in Connected(n) \cap stamped[n]
    /\ Timely(n)
    /\ Prompt => ~\E k, m \in Nodes : /\ Answers(k, m, n)
                                      /\ My(m).id = status[n][i].id

ExpireSlot(n, i) ==
    /\ i # PARENT_ID
    /\ Overdue(n, i)
    /\ Spend("expire")
    /\ connected' = [connected EXCEPT ![n] = ClearBit(@, i)]
    /\ childNum' = [childNum EXCEPT ![n] = @ - 1]
    /\ UNCHANGED <<nodeVars, slotVars, flagVars, listVars, cached, net>>

NodeRetry(n) ==
    /\ isRetry' = [isRetry EXCEPT ![n] = TRUE]
    /\ LET id == status[n][PARENT_ID].id IN
       /\ Except(n, id)
       /\ Send(n, To(GtoPIP(n, NextCandidate(n, id)), <<SendConnect(n)>>))

\* The parent expires like a child, child count included.
ExpireParent(n) ==
    /\ Overdue(n, PARENT_ID)
    /\ Spend("expire")
    /\ connected' = [connected EXCEPT ![n] = ClearBit(@, PARENT_ID)]
    /\ childNum' = [childNum EXCEPT ![n] = @ - 1]
    /\ NodeRetry(n)
    /\ UNCHANGED <<nodeVars, slotVars, isSetup, streaming, nodesList, cached>>

RetryTimer(n) ==
    /\ up[n] = "up" /\ isRetry[n]
    /\ Timely(n)
    /\ Spend("retry")
    /\ NodeRetry(n)
    /\ UNCHANGED <<nodeVars, slotVars, linkVars, isSetup, streaming, nodesList,
                   cached>>

\* One REQ_LIST to the parent slot and one to every entry of the list.
ListTimer(n) ==
    /\ up[n] = "up" /\ HasParent(n)
    /\ Timely(n)
    /\ Spend("lists")
    /\ LET entries(m) == {k \in 1..Len(nodesList[n]) :
                             GtoPIP(n, nodesList[n][k]) = m}
           copies(m) == Cardinality(entries(m))
                          + IF dst[n][PARENT_ID] = m THEN 1 ELSE 0
           req == Msg("REQ_LIST", <<OnlyId(My(n).id)>>)
       IN  Send(n, [m \in Nodes |->
                      IF up[m] = "up" THEN [k \in 1..copies(m) |-> req]
                      ELSE <<>>])
    /\ UNCHANGED <<nodeVars, slotVars, linkVars, flagVars, listVars, cached>>

\* CURRENT_CACHE is below CACHE_TLV while streaming.
Departs_Orphan(n) == ~cached[n] /\ streaming[n]
Departs(n) == ~cached[n] /\ streaming[n] /\ HasParent(n)
DepartTimer(n) ==
    /\ up[n] = "up" /\ Departs(n)
    /\ Timely(n)
    /\ Spend("depart")
    /\ Send(n, To(dst[n][PARENT_ID], <<Msg("DEPART", <<My(n)>>)>>))
    /\ UNCHANGED <<nodeVars, slotVars, linkVars, flagVars, listVars, cached>>

\* The cache reaches DEFAULT_CACHE.  A pass that never finds the two equal
\* misses the flag; only DepartTimer reads it here, so that is the same as
\* DepartTimer not being taken.
CacheFull(n) ==
    /\ up[n] = "up" /\ ~isSetup[n] /\ ~cached[n]
    /\ cached' = [cached EXCEPT ![n] = TRUE]
    /\ streaming' = [streaming EXCEPT ![n] = TRUE]
    /\ UNCHANGED <<nodeVars, slotVars, linkVars, isSetup, isRetry, listVars,
                   net, budget>>

\* Playing outruns the blocks a peer receives.
CacheDrains(n) ==
    /\ n # Origin /\ up[n] = "up" /\ cached[n]
    /\ Spend("drain")
    /\ cached' = [cached EXCEPT ![n] = FALSE]
    /\ UNCHANGED <<nodeVars, slotVars, linkVars, flagVars, listVars, net>>

-----------------------------------------------------------------------------
(* Processes and the network.                                               *)

\* main of a peer: the origin is the parent to ask and the only candidate.
Start(n) ==
    /\ up[n] = "off"
    /\ up' = [up EXCEPT ![n] = "up"]
    /\ Send(n, To(Origin, <<SendSetup(n)>>))
    /\ UNCHANGED <<nextId, slotVars, linkVars, flagVars, listVars, cached,
                   budget>>

Crash(n) ==
    /\ up[n] = "up"
    /\ Spend("crash")
    /\ up' = [up EXCEPT ![n] = "dead"]
    /\ net' = [a \in Nodes |-> [net[a] EXCEPT ![n] = <<>>]]
    /\ UNCHANGED <<nextId, slotVars, linkVars, flagVars, listVars, cached>>

\* The Receive of the origin has no handler for these.
Unhandled(n, type) ==
    n = Origin /\ type \in {"ID", "ACCEPT", "UNACCEPT", "RES_LIST"}

\* A packet is lost, or read and ignored.
Lose(s, n) ==
    /\ net[s][n] # <<>>
    /\ IF Unhandled(n, Head(net[s][n]).type) THEN UNCHANGED budget
       ELSE Spend("loss")
    /\ net' = [net EXCEPT ![s][n] = Tail(@)]
    /\ UNCHANGED <<nodeVars, slotVars, linkVars, flagVars, listVars, cached>>

Duplicate(s, n) ==
    /\ net[s][n] # <<>>
    /\ Spend("dup")
    /\ net' = [net EXCEPT ![s][n] = Append(@, Head(@))]
    /\ UNCHANGED <<nodeVars, slotVars, linkVars, flagVars, listVars, cached>>

Reorder(s, n) ==
    /\ Len(net[s][n]) > 1
    /\ Spend("reorder")
    /\ net' = [net EXCEPT ![s][n] = Append(Tail(@), Head(@))]
    /\ UNCHANGED <<nodeVars, slotVars, linkVars, flagVars, listVars, cached>>

\* What is sent to a node without a slot goes through DST[TMP_ID], which READ
\* and TIME both write without a lock: what one of them puts there after the
\* other's RenewDstIPandMAC and before its PacketGenerate is where the packet
\* of the other goes.
ThroughTmp == {"ADVERTISE", "ID", "CONNECT", "DETACH", "UNACCEPT", "REQ_LIST"}
Misdirect(s, n, m) ==
    /\ net[s][n] # <<>>
    /\ Head(net[s][n]).type \in ThroughTmp
    /\ m # n /\ up[m] = "up"
    /\ Spend("race")
    /\ net' = [net EXCEPT ![s][n] = Tail(@),
                          ![s][m] = Append(@, Head(net[s][n]))]
    /\ UNCHANGED <<nodeVars, slotVars, linkVars, flagVars, listVars, cached>>

-----------------------------------------------------------------------------
OriginStatus == [id |-> ORIGIN_ID, ip |-> Origin, p |-> Origin, layer |-> 0]

\* What main of the origin, and main of a peer before its first SETUP, leave.
Init ==
    /\ up = [n \in Nodes |-> IF n = Origin THEN "up" ELSE "off"]
    /\ status = [n \in Nodes |-> [i \in Slots |->
                   CASE n = Origin /\ i = MY_ID -> OriginStatus
                     [] n # Origin /\ i = MY_ID -> [ZeroStatus EXCEPT !.p = n]
                     [] n # Origin /\ i = PARENT_ID ->
                          [OriginStatus EXCEPT !.p = NoAddr]
                     [] OTHER -> ZeroStatus]]
    /\ dst = [n \in Nodes |-> [i \in 0..PARENT_ID |->
                IF n # Origin /\ i = PARENT_ID THEN Origin ELSE NoAddr]]
    /\ connected = [n \in Nodes |-> 0]
    /\ childNum = [n \in Nodes |-> 0]
    /\ stamped = [n \in Nodes |-> {}]
    /\ isSetup = [n \in Nodes |-> n # Origin]
    /\ isRetry = [n \in Nodes |-> FALSE]
    /\ streaming = [n \in Nodes |-> n = Origin /\ OriginWarm]
    /\ cached = [n \in Nodes |-> n = Origin /\ OriginWarm]
    /\ nodesList = [n \in Nodes |->
                      <<IF n = Origin THEN OriginStatus
                        ELSE [OriginStatus EXCEPT !.p = NoAddr]>>]
    /\ exceptList = [n \in Nodes |-> {}]
    /\ nextId = 0
    /\ net = [a \in Nodes |-> [b \in Nodes |-> <<>>]]
    /\ budget = Budget

Receive(s, n) ==
    \/ NodeSetupDrawn(s, n) \/ NodeSetupUncached(s, n)
    \/ NodeSetupFull(s, n) \/ NodeSetupJoin(s, n)
    \/ NodeID(s, n) \/ NodeInitialStatus(s, n) \/ NodeAdvertise(s, n)
    \/ NodeConnectRefused(s, n) \/ NodeConnectDuplicate(s, n)
    \/ NodeConnectAccepted(s, n)
    \/ NodeAccept(s, n) \/ NodeUnaccept(s, n)
    \/ NodeDepart(s, n) \/ NodeDetach(s, n)
    \/ NodeReqListUnknown(s, n) \/ NodeReqList(s, n) \/ NodeResList(s, n)

TimeProcess(n) ==
    \/ SetupTimer(n)
    \/ \E i \in Slots : ExpireSlot(n, i)
    \/ ExpireParent(n) \/ RetryTimer(n) \/ ListTimer(n) \/ DepartTimer(n)
    \/ CacheFull(n) \/ CacheDrains(n)

Network(s, n) ==
    \/ Lose(s, n) \/ Duplicate(s, n) \/ Reorder(s, n)
    \/ \E m \in Nodes : Misdirect(s, n, m)

Next ==
    \/ \E s, n \in Nodes : Receive(s, n) \/ Network(s, n)
    \/ \E n \in Nodes : TimeProcess(n) \/ Start(n) \/ Crash(n)
    \/ \E k, m, n \in Nodes : KeepAlive(k, m, n)

Spec == Init /\ [][Next]_vars

-----------------------------------------------------------------------------
(* Properties.                                                              *)

\* Every global keeps its type: the slots hold statuses, CONNECTED_NODES is
\* a u8, NODES_LIST is never empty, and a packet whose handler reads a first
\* record carries one.
TypeOK ==
    /\ up \in [Nodes -> {"off", "up", "dead"}]
    /\ status \in [Nodes -> [Slots -> Status]]
    /\ dst \in [Nodes -> [0..PARENT_ID -> Addrs]]
    /\ connected \in [Nodes -> 0..255]
    /\ childNum \in [Nodes -> Int]
    /\ stamped \in [Nodes -> SUBSET Slots]
    /\ isSetup \in [Nodes -> BOOLEAN]
    /\ isRetry \in [Nodes -> BOOLEAN]
    /\ streaming \in [Nodes -> BOOLEAN]
    /\ cached \in [Nodes -> BOOLEAN]
    /\ nodesList \in [Nodes -> Seq(Status) \ {<<>>}]
    /\ exceptList \in [Nodes -> SUBSET Ids]
    /\ nextId \in Ids
    /\ net \in [Nodes -> [Nodes -> Seq(Packet)]]
    /\ budget \in [Kinds -> Nat]

\* CURRENT_CHILD_NUM never exceeds the number of child bits of
\* CONNECTED_NODES, whatever packets are lost, repeated, late or misdirected
\* and although the bits are set and cleared by += and -= that carry into
\* other slots.  The draws of GenerateRndID and the counts of SendAdvertise,
\* SendInitialStatus and SendResList rest on it: a larger count would name a
\* child that is not there and pad a packet with statuses of id 0, which
\* overwrite the receiver's entry of the origin.
ChildCountBounded == \A n \in Nodes : childNum[n] <= Kids(connected[n])

\* The first entry of NODES_LIST is the origin for ever, so the loop of
\* GetList( NODES_LIST , ORIGIN_ID ), which never advances, returns whenever
\* NodeDetach, NodeUnaccept and NodeRetry fall back on it.
FallbackReturns ==
    \A n \in Nodes : /\ nodesList[n] # <<>>
                     /\ GetListReturns(nodesList[n], ORIGIN_ID)

\* No sequence of ADVERTISE, INITIAL_STATUS and RES_LIST packets puts a node
\* id in the list twice.
ListIdsDistinct ==
    \A n \in Nodes : \A i, j \in DOMAIN nodesList[n] :
        nodesList[n][i].id = nodesList[n][j].id => i = j

-----------------------------------------------------------------------------
(* What joining establishes, as long as nothing fails and nobody leaves.    *)

Joined(n) == up[n] = "up" /\ ~isSetup[n]

\* The child slots, of any node, through which n is served.
ServedBy(n) == {c \in Nodes \X ChildSlots :
                  Bit(connected[c[1]], c[2]) /\ dst[c[1]][c[2]] = n}

\* The overlay is a tree: a peer that has joined is served through exactly
\* one slot, of the node it sends its own keepalives to; the two ends hold
\* each other's status, and the child is one layer below its parent, which
\* has joined itself.  Built by NodeSetup at the one end and NodeID and
\* NodeInitialStatus at the other, through any number of redirections.
JoinedIsTree ==
    \A n \in Peers : Joined(n) =>
        \E m \in Nodes : \E i \in ChildSlots :
            /\ ServedBy(n) = {<<m, i>>}
            /\ dst[n][PARENT_ID] = m /\ Joined(m)
            /\ status[m][i] = My(n) /\ status[n][PARENT_ID] = My(m)
            /\ My(n).layer = My(m).layer + 1

\* Joining implements Membership: a peer is taken by one node that has joined
\* and has a slot free, learns of it afterwards, and keeps that parent; every
\* other handler and every TIME thread branch leaves the tree alone.
Server(n) ==
    LET servers == {c[1] : c \in ServedBy(n)}
    IN  IF Cardinality(servers) = 1 THEN CHOOSE m \in servers : TRUE
        ELSE NoAddr
Tree == INSTANCE Membership WITH
    Root <- Origin, Joiners <- Peers, Nobody <- NoAddr, Room <- MAX_CHILD_NUM,
    parent <- [c \in Peers |-> Server(c)],
    members <- {c \in Peers : Joined(c)}
JoinsTree == Tree!Spec

\* The ids SendID gives out and NodeSetup records tell the nodes apart.
IdsDistinct ==
    \A m, n \in Nodes : Joined(m) /\ Joined(n) /\ My(m).id = My(n).id => m = n

\* What a list says of a node is true of it: every entry names a node, by the
\* id that node has when it has joined, and no peer lists itself.  An entry
\* may have gone through any number of SETUP answers and RES_LISTs, and may
\* have been written before the node it names knew its id.
ListsTruthful ==
    \A n \in Nodes : \A k \in DOMAIN nodesList[n] :
        LET e == nodesList[n][k] IN
        /\ e.ip \in Nodes
        /\ Joined(e.ip) => My(e.ip).id = e.id
        /\ n # Origin => e.ip # n

\* CURRENT_CHILD_NUM is the number of child bits ("child + my node",
\* p2p.c:1052): lost, repeated, reordered and misdirected packets, which do set and
\* clear the wrong bits, never part the two; NodeDepart and the expiry of the
\* parent do.
ChildCountExact == \A n \in Nodes : childNum[n] = Kids(connected[n])

\* The bits of CONNECTED_NODES stay below MY_ID and every one of them can
\* expire: TimeProcess skips a slot whose timestamp is zero, so a bit set by
\* a carry or a borrow would be a neighbour for ever.
SlotsExpire == \A n \in Nodes : /\ connected[n] < 8
                                /\ Connected(n) \subseteq stamped[n]

-----------------------------------------------------------------------------
(* What holds while peers leave, fail and come back.                        *)

\* A node that still sends SETUP serves nobody and has no parent, whatever
\* strays in from other nodes: NodeSetup and NodeConnect ask for the cache,
\* NodeAccept and NodeDetach answer what only a joined node sends.
UnjoinedIsIdle ==
    \A n \in Nodes : isSetup[n] => connected[n] = 0 /\ childNum[n] = 0

\* IS_RETRY is raised when the parent bit falls and lowered when it is set
\* again, so RetryTimer never takes a node away from a parent it has.
RetryIsOrphan == \A n \in Nodes : isRetry[n] => ~HasParent(n)

\* DETACH answers one DEPART: it never finds the parent bit already clear,
\* where the -= of NodeDetach would borrow from the other slots, unless such a
\* borrow came before: a node whose count has parted from its child bits may
\* have lost the parent bit to NodeDepart or to the expiry of the parent.
DetachHasParent ==
    [][\A s, n \in Nodes : NodeDetach(s, n) /\ childNum[n] = Kids(connected[n])
                              => HasParent(n)]_vars

\* A peer that has joined keeps its id ("Not overwrite NODES_STATUS[MY_ID].id",
\* p2p.c:1304), by which keepalives, DEPART and the lists know it.
IdKept ==
    [][\A n \in Peers : My(n).id # 0 => status'[n][MY_ID].id = My(n).id]_vars

-----------------------------------------------------------------------------
(* What comments of the source say and the code does not do.                *)

\* "Parent" (p2p.c:2636): REQ_LIST, and with it KEEPALIVE and DEPART, goes
\* to the node whose status the parent slot holds.
ParentAddressed ==
    \A n \in Peers : HasParent(n) =>
        dst[n][PARENT_ID] = GtoPIP(n, status[n][PARENT_ID])

\* "Check Duplicate" (p2p.c:1582): a node does not take the same child twice.
NoDuplicateChild ==
    \A n \in Nodes : Bit(connected[n], 0) /\ Bit(connected[n], 1)
                        => status[n][0].id # status[n][1].id

-----------------------------------------------------------------------------
(* Progress.                                                                *)

\* Packets are read, peers are started, caches fill, and the TIME thread
\* keeps running.
Fairness ==
    /\ \A s, n \in Nodes : WF_vars(Receive(s, n))
    /\ \A n \in Nodes : /\ WF_vars(CacheFull(n))
                        /\ WF_vars(SetupTimer(n))
                        /\ WF_vars(RetryTimer(n))
                        /\ WF_vars(ExpireParent(n))
                        /\ \A i \in Slots : WF_vars(ExpireSlot(n, i))

FairSpec == Spec /\ Fairness /\ \A n \in Nodes : WF_vars(Start(n))

\* Every peer ends up with a parent, however often it is sent on: SETUP is
\* sent again to the node the last ADVERTISE named ("Retry Setup",
\* p2p.c:1483).
AllJoin == <>[](\A n \in Peers : Joined(n) /\ HasParent(n))

\* Peers that arrive one after the other: each is started when those before
\* it have joined.
InTurn(n) == Start(n) /\ \A m \in Nodes : up[m] = "up" => Joined(m)

NextInTurn ==
    \/ \E s, n \in Nodes : Receive(s, n) \/ Network(s, n)
    \/ \E n \in Nodes : TimeProcess(n) \/ InTurn(n) \/ Crash(n)
    \/ \E k, m, n \in Nodes : KeepAlive(k, m, n)

InTurnSpec ==
    /\ Init /\ [][NextInTurn]_vars
    /\ Fairness /\ \A n \in Nodes : WF_vars(InTurn(n))

=============================================================================
