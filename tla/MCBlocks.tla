------------------------------ MODULE MCBlocks ------------------------------
(***************************************************************************)
(* Instances of Blocks for TLC: clusters of a timecode and three simple    *)
(* blocks, of every combination of some lengths around the limits.         *)
(***************************************************************************)
EXTENDS Blocks

\* Where the chanks start that have these lengths.
StartsOf(t, a, b, c) ==
    LET h == CLUSTER_HEADER_BYTES
    IN  <<h, h + t, h + t + a, h + t + a + b, h + t + a + b + c>>

\* Lengths that fit a block together, fill one to the byte or up to the id of
\* the next cluster, need one piece more, end with a block, or wrap 16 bits.
Timecodes == {3, 400}
Lengths == {5, 600, 995, 1000, 2003, 66000}

SomeLayouts ==
    {[n |-> 4, start |-> StartsOf(t, a, b, c)] :
        t \in Timecodes, a \in Lengths, b \in Lengths, c \in Lengths}

=============================================================================
