----------------------------- MODULE Timestamp -----------------------------
(***************************************************************************)
(* The clock of a process (wrapper.c): stamps are struct timeval relative  *)
(* to START_TIMESTAMP, and a timer has expired when the difference of two  *)
(* stamps exceeds its interval.                                            *)
(*                                                                         *)
(* UpdateTimestamp borrows a second when the microseconds are negative but *)
(* gives back only a tenth of it (100000), so a stamp whose microseconds   *)
(* wrapped is Lost too small and may be negative; DiffCurrentTime does not *)
(* borrow at all.                                                          *)
(***************************************************************************)
EXTENDS Integers

\* Microseconds in a second, what a borrow adds, and what it forgets.
Micro == 1000000
Carry == 100000
Lost == Micro - Carry

\* struct timeval as gettimeofday fills it.
Clock == {t \in [sec : Nat, usec : Nat] : t.usec < Micro}

\* The same instant in microseconds.
Micros(t) == t.sec * Micro + t.usec

\* d < Micro microseconds later.
Later(t, d) == IF t.usec + d < Micro
               THEN [sec |-> t.sec, usec |-> t.usec + d]
               ELSE [sec |-> t.sec + 1, usec |-> t.usec + d - Micro]

\* The stamp taken at instant t by a process that started at start.
UpdateTimestamp(start, t) ==
    LET sec == t.sec - start.sec
        usec == t.usec - start.usec
    IN  IF usec < 0 THEN [sec |-> sec - 1, usec |-> usec + Carry]
        ELSE [sec |-> sec, usec |-> usec]

\* How old a stamp is at instant t.
DiffCurrentTime(start, t, stamp) ==
    LET current == UpdateTimestamp(start, t)
    IN  [sec |-> current.sec - stamp.sec, usec |-> current.usec - stamp.usec]

\* Mutant: whole seconds that are equal count as exceeded.
IsExceedTime_Equal(exceed_time, tv) == exceed_time.sec >= tv.sec

IsExceedTime(exceed_time, tv) ==
    \/ exceed_time.sec > tv.sec
    \/ exceed_time.sec = tv.sec /\ exceed_time.usec > tv.usec

=============================================================================
