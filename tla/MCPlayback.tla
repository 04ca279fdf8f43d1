----------------------------- MODULE MCPlayback -----------------------------
(***************************************************************************)
(* Instances of Playback for TLC: a clock of a tenth of a second.          *)
(***************************************************************************)
EXTENDS Playback

Tenth == {100000}

\* START_TIMESTAMP on the second, halfway, and a tenth before the next one.
Phases == {[sec |-> 0, usec |-> u] : u \in {0, 500000, 900000}}

=============================================================================
