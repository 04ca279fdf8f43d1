----------------------------- MODULE Membership -----------------------------
(***************************************************************************)
(* What joining promises, without its packets: a peer is admitted once, by *)
(* a member with room for it, and becomes a member itself when it has been *)
(* told so.  Overlay implements this as long as nothing fails and nobody   *)
(* leaves (Tree, in Overlay).                                              *)
(***************************************************************************)
EXTENDS FiniteSets, Integers

CONSTANTS
    Root,    \* the origin source
    Joiners, \* the peers
    Nobody,  \* the parent of a peer that has not been admitted
    Room     \* MAX_CHILD_NUM

VARIABLES
    parent,  \* the node that serves each peer
    members  \* the peers that know where they are

memberVars == <<parent, members>>

Children(p) == {c \in Joiners : parent[c] = p}

Init ==
    /\ parent = [c \in Joiners |-> Nobody]
    /\ members = {}

Admit(p, c) ==
    /\ parent[c] = Nobody
    /\ p \in members \cup {Root}
    /\ Cardinality(Children(p)) < Room
    /\ parent' = [parent EXCEPT ![c] = p]
    /\ UNCHANGED members

Confirm(c) ==
    /\ parent[c] # Nobody /\ c \notin members
    /\ members' = members \cup {c}
    /\ UNCHANGED parent

Next == \E c \in Joiners : Confirm(c) \/ \E p \in Joiners \cup {Root} : Admit(p, c)

Spec == Init /\ [][Next]_memberVars

-----------------------------------------------------------------------------
(* Properties.                                                              *)

\* Parents are nodes, members are peers.
MembersType ==
    /\ parent \in [Joiners -> Joiners \cup {Root, Nobody}]
    /\ members \subseteq Joiners

\* Only members serve, and only an admitted peer is a member.
MembersServe ==
    \A c \in Joiners :
        /\ parent[c] # Nobody => parent[c] \in members \cup {Root}
        /\ c \in members => parent[c] # Nobody

\* No ring of peers serves itself: in every set of admitted peers one has its
\* parent outside, so following the parents leads to the root.
Acyclic ==
    \A S \in SUBSET {c \in Joiners : parent[c] # Nobody} :
        S # {} => \E c \in S : parent[c] \notin S

=============================================================================
