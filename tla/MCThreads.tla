----------------------------- MODULE MCThreads -----------------------------
(***************************************************************************)
(* The instance of Threads for TLC: the two child slots of the code.       *)
(***************************************************************************)
EXTENDS Threads

TwoSlots == {0, 1}

=============================================================================
