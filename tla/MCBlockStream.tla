--------------------------- MODULE MCBlockStream ---------------------------
(***************************************************************************)
(* Instances of BlockStream for TLC: a chain of two peers below the origin.*)
(***************************************************************************)
EXTENDS BlockStream

CONSTANTS p1, p2

Chain == [c \in Peers |-> IF c = p1 THEN Origin ELSE p1]

ThreeClusters == <<2, 3, 2>>
ZeroMemory == {0}

OneFault == [k \in {"loss", "dup", "reorder", "sigint"} |->
               IF k = "sigint" THEN 2 ELSE 1]

=============================================================================
