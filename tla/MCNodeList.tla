----------------------------- MODULE MCNodeList -----------------------------
(***************************************************************************)
(* The operators of NodeList checked against the loops of the source over  *)
(* every sequence of packets of bounded length: list and except are kept   *)
(* with the operators of NodeList, ref and pushed with the loops.          *)
(***************************************************************************)
EXTENDS NodeList, SequencesExt

CONSTANTS Ids,       \* node ids that occur in packets; 0 is ORIGIN_ID
          Layers,    \* layers that occur in packets
          MaxRecs,   \* bound on the records of one packet
          MaxPushed, \* bound on the length of EXCEPT_LIST
          MyId, MyLayer

ASSUME NodeListAssumption ==
    /\ 0 \in Ids
    /\ Layers \subseteq 0..255 /\ MyLayer \in 0..255
    /\ MaxRecs \in Nat /\ MaxPushed \in Nat

VARIABLES list, ref, except, pushed
vars == <<list, ref, except, pushed>>

Recs == SeqOf([id : Ids, layer : Layers], MaxRecs)

-----------------------------------------------------------------------------
(* The loops, one record or one entry after the other.                      *)

\* One pass: a record of the packet.
StorePass(l, r) == IF IsListContains(l, r.id) THEN l ELSE ListPush(l, r)
UpdatePass(l, r) ==
    IF IsListContains(l, r.id) THEN ListUpdate(l, r) ELSE ListPush(l, r)

\* The list after all of them.
StoreLoop(l, recs) ==
    LET after[i \in 0..Len(recs)] ==
            IF i = 0 THEN l ELSE StorePass(after[i - 1], recs[i])
    IN  after[Len(recs)]
UpdateLoop(l, recs) ==
    LET after[i \in 0..Len(recs)] ==
            IF i = 0 THEN l ELSE UpdatePass(after[i - 1], recs[i])
    IN  after[Len(recs)]

\* GetCloestLayer with its int difference, which every pass overwrites, and
\* its u8 result.
CloestLoop(l) ==
    LET diff[i \in 0..Len(l)] == IF i = 0 THEN 0 ELSE l[i].layer - MyLayer
    IN  (MyLayer + diff[Len(l)]) % 256

\* The position GetPriorList stops at, 0 for NULL: once at a position the
\* loop breaks off.
PriorPass(l, ids, at, i) ==
    IF at # 0 THEN at
    ELSE IF ~Contains(ids, l[i].id) /\ l[i].layer = CloestLoop(l) THEN i ELSE 0
PriorLoop(l, ids) ==
    LET at[i \in 0..Len(l)] == IF i = 0 THEN 0 ELSE PriorPass(l, ids, at[i - 1], i)
    IN  at[Len(l)]

PushLoop(ids, id) == (IF ids = <<>> THEN <<MyId>> ELSE ids) \o <<id>>

-----------------------------------------------------------------------------
Init == /\ list \in {<<[id |-> 0, layer |-> l]>> : l \in Layers}
        /\ ref = list
        /\ except = {} /\ pushed = <<>>

\* NodeInitialStatus and NodeAdvertise.
Store(recs) == /\ list' = StoreNew(list, recs)
               /\ ref' = StoreLoop(ref, recs)
               /\ UNCHANGED <<except, pushed>>

\* NodeResList.
Update(recs) == /\ list' = StoreUpdate(list, recs)
                /\ ref' = UpdateLoop(ref, recs)
                /\ UNCHANGED <<except, pushed>>

\* NodeUnaccept and NodeRetry, up to the choice of the next candidate.
Refused(id) ==
    /\ Len(pushed) < MaxPushed
    /\ LET e == ExceptListPush(except, MyId, id)
           p == PushLoop(pushed, id)
       IN  /\ except' = IF PriorAt(list, MyLayer, e) = {} THEN {} ELSE e
           /\ pushed' = IF PriorLoop(ref, p) = 0 THEN <<>> ELSE p
    /\ UNCHANGED <<list, ref>>

\* NodeAccept frees the list.
Accepted == except' = {} /\ pushed' = <<>> /\ UNCHANGED <<list, ref>>

Next == \/ \E recs \in Recs : Store(recs) \/ Update(recs)
        \/ \E id \in Ids : Refused(id)
        \/ Accepted

Spec == Init /\ [][Next]_vars

-----------------------------------------------------------------------------
\* What the store loops leave, whatever repeated, known and unknown ids a
\* packet lists and in whatever order, is what StoreNew and StoreUpdate say
\* (NodeInitialStatus, NodeAdvertise, NodeResList with IsListContains,
\* ListPush and ListUpdate).
StoresAgree == list = ref

\* The candidate GetPriorList stops at, with the layer GetCloestLayer
\* computes in int and truncates to u8, and the fallback to the first entry.
PriorAgrees ==
    LET at == PriorLoop(ref, pushed)
    IN  Candidate(list, MyLayer, except) =
            IF at = 0 THEN ref[1] ELSE ref[at]

\* The set of excepted ids is the content of the list the pushes build, and
\* is empty exactly when the list is NULL, which decides whether the next
\* push adds the node's own id first.
ExceptAgrees == except = ToSet(pushed)

\* No packet puts an id in the list twice or displaces the first entry, on
\* which the fallback GetList( NODES_LIST , ORIGIN_ID ) relies to return.
OriginFirstOnce ==
    /\ GetListReturns(list, 0)
    /\ \A i, j \in DOMAIN list : list[i].id = list[j].id => i = j

=============================================================================
