----------------------------- MODULE MCOverlay -----------------------------
(***************************************************************************)
(* Instances of Overlay for TLC.                                           *)
(***************************************************************************)
EXTENDS Overlay, TLC

CONSTANTS p1, p2, p3

ZeroBytes == {ZeroStatus}

\* At most so many faults and timer steps of each kind, and in all.
Bounds(kinds, each, total) ==
    [k \in Kinds |-> CASE k = "total" -> total
                       [] k \in kinds -> each
                       [] OTHER -> 0]

JoinBudget  == Bounds({"lists", "resend", "expire", "drain"}, 1, 3)
FairBudget  == Bounds({"expire", "resend", "retry"}, 4, 20)
WireBudget  == Bounds({"loss", "dup", "reorder", "race", "resend"}, 1, 2)
ChurnBudget == Bounds({"crash", "expire", "retry"}, 2, 4)
LeaveBudget == Bounds({"drain", "depart", "lists"}, 3, 6)

PeerSymmetry == Permutations(Peers)
=============================================================================
