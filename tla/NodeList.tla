------------------------------ MODULE NodeList ------------------------------
(***************************************************************************)
(* The candidate list (NODES_LIST) a node keeps of the nodes it has heard  *)
(* of, and the list of candidates not to try again (EXCEPT_LIST), of       *)
(* src/src/common/p2p.c.                                                   *)
(*                                                                         *)
(* NODES_LIST is a linked list of NodeStatus; here it is a sequence of     *)
(* records with at least the fields id and layer.  EXCEPT_LIST is only     *)
(* ever asked for membership and compared with NULL, so it is the set of   *)
(* the ids pushed on it, empty when it is NULL.  The loops that store the  *)
(* records of a packet one by one are written by what they leave in the    *)
(* list; MCNodeList checks them against the loops.                         *)
(*                                                                         *)
(* An operator F_Fault is F with a plausible mistake in it; nothing uses   *)
(* it.  Putting it in the place of F shows which property notices.         *)
(***************************************************************************)
EXTENDS Integers, Sequences, FiniteSets, FiniteSetsExt

\* The ids that occur in a sequence of status records.
ListIds(list) == {list[k].id : k \in DOMAIN list}

IsListContains(list, id) == \E k \in DOMAIN list : list[k].id = id

ListPush(list, s) == Append(list, s)

ListUpdate(list, s) ==
    [k \in DOMAIN list |-> IF list[k].id = s.id THEN s ELSE list[k]]

-----------------------------------------------------------------------------
(* The store loops of NodeInitialStatus, NodeAdvertise and NodeResList.     *)

\* The positions of the records that a store loop pushes: the first record
\* of each id that the list does not hold when the loop starts.
FreshAt_Unchecked(list, recs) ==
    {k \in 1..Len(recs) :
        \A j \in 1..Len(recs) : j < k => recs[j].id # recs[k].id}
FreshAt(list, recs) ==
    {k \in 1..Len(recs) :
        /\ ~IsListContains(list, recs[k].id)
        /\ \A j \in 1..Len(recs) : j < k => recs[j].id # recs[k].id}

\* The j-th smallest element of a finite set of numbers.
Nth(F, j) == CHOOSE k \in F : Cardinality({i \in F : i <= k}) = j

\* "Storing List": records of ids already listed are skipped, the others
\* pushed in the order of the packet.
StoreNew_Front(list, recs) ==
    LET F == FreshAt(list, recs)
    IN  [j \in 1..Cardinality(F) |-> recs[Nth(F, j)]] \o list
StoreNew(list, recs) ==
    LET F == FreshAt(list, recs)
    IN  list \o [j \in 1..Cardinality(F) |-> recs[Nth(F, j)]]

\* The last record of recs with the id of s, or s itself when there is none.
Latest_First(recs, s) ==
    LET at == {k \in 1..Len(recs) : recs[k].id = s.id}
    IN  IF at = {} THEN s ELSE recs[Min(at)]
Latest(recs, s) ==
    LET at == {k \in 1..Len(recs) : recs[k].id = s.id}
    IN  IF at = {} THEN s ELSE recs[Max(at)]

\* NodeResList: a record of a listed id overwrites the entry, another one is
\* pushed; a later record of the packet overwrites what an earlier one left.
StoreUpdate(list, recs) ==
    LET grown == StoreNew(list, recs)
    IN  [k \in DOMAIN grown |-> Latest(recs, grown[k])]

-----------------------------------------------------------------------------
(* Choosing the node to reconnect to.                                       *)

\* Every pass of the loop overwrites diff_layers, so what is returned is the
\* layer of the last entry (the caller's own layer for an empty list).
GetCloestLayer_Own(list, layer) == layer
GetCloestLayer(list, layer) ==
    IF list = <<>> THEN layer ELSE list[Len(list)].layer

\* The positions GetPriorList may stop at.
PriorAt(list, layer, except) ==
    {k \in 1..Len(list) : /\ list[k].id \notin except
                          /\ list[k].layer = GetCloestLayer(list, layer)}

\* The loop of GetList does not advance: it returns only when the list is
\* empty (NULL) or its first entry is the one looked for.
GetListReturns(list, id) == list = <<>> \/ list[1].id = id

\* GetPriorList, and GetList( NODES_LIST , ORIGIN_ID ) when that finds
\* nothing.  The second case is the first entry wherever GetListReturns.
Candidate(list, layer, except) ==
    LET at == PriorAt(list, layer, except)
    IN  IF at = {} THEN list[1] ELSE list[Min(at)]

\* ExceptListPush: an empty list first gets the caller's own id.
ExceptListPush_Bare(except, myId, id) == except \cup {id}
ExceptListPush(except, myId, id) ==
    except \cup {id} \cup (IF except = {} THEN {myId} ELSE {})

=============================================================================
