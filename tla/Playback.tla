------------------------------ MODULE Playback ------------------------------
(***************************************************************************)
(* The playing clock of a peer (p2p.c, TimeProcess and CalPlayedBuffer):   *)
(* blocks arrive on the READ thread, the TIME thread counts one block      *)
(* played per PLAYED_INTARVAL, and CURRENT_CACHE, their difference,        *)
(* decides when the peer starts playing (and, in its main loop, sending to *)
(* its children) and when it asks its parent to let it go.                 *)
(*                                                                         *)
(* TIME is a loop that sleeps only in SendPacket, half a millisecond for   *)
(* each packet it sends: PollGap bounds the microseconds between two       *)
(* passes, and Burst the blocks received in that time, which may be many.  *)
(***************************************************************************)
EXTENDS Timestamp

CONSTANTS
    DEFAULT_CACHE,      \* blocks in the cache when playing starts
    CACHE_TLV,          \* blocks below which the parent is left
    PollGap,            \* microseconds between two passes of TIME, at most
    Burst,              \* blocks received between two passes, at most
    Steps,              \* microseconds the clock moves at once
    Starts,             \* the instants TIME may start at
    MaxSec, MaxBlocks   \* bounds of the instance: length and blocks of a run

ASSUME CacheAssumption ==
    /\ DEFAULT_CACHE \in Nat \ {0}
    /\ CACHE_TLV \in 0..DEFAULT_CACHE
ASSUME PollAssumption ==
    /\ PollGap \in Nat \ {0} /\ PollGap <= Carry
    /\ Burst \in Nat \ {0}
    /\ Steps \subseteq 1..PollGap
    /\ Starts \subseteq Clock
    /\ MaxSec \in Nat /\ MaxBlocks \in Nat

VARIABLES
    now,                \* the wall clock
    START_TIMESTAMP,
    TOTAL_BLOCK_NUM,    \* blocks received
    PLAYED_BUFFER,      \* blocks played
    CURRENT_CACHE,      \* as of the last pass
    IS_BEGIN_STREAMING, IS_BEGIN_PLAYING,
    PLAYED_TIMESTAMP, DEPART_TIMESTAMP,
    hasParent,          \* (CONNECTED_NODES >> PARENT_ID) & 1
    departs,            \* DEPARTs sent
    gap, burst,         \* microseconds and blocks since the last pass
    waitsFrom           \* the last pass that counted a block, or had none to
                        \* count: the cache was DEFAULT_CACHE or less

clockVars == <<now, START_TIMESTAMP, gap>>
cacheVars == <<PLAYED_BUFFER, CURRENT_CACHE, PLAYED_TIMESTAMP, waitsFrom>>
flagVars == <<IS_BEGIN_STREAMING, IS_BEGIN_PLAYING>>
vars == <<clockVars, cacheVars, flagVars, TOTAL_BLOCK_NUM, DEPART_TIMESTAMP,
          hasParent, departs, burst>>

PLAYED_INTARVAL == [sec |-> 1, usec |-> 0]
DEPART_INTARVAL == [sec |-> 5, usec |-> 0]
Zero == [sec |-> 0, usec |-> 0]

Init ==
    /\ now \in Starts /\ START_TIMESTAMP = now
    /\ TOTAL_BLOCK_NUM = 0 /\ PLAYED_BUFFER = 0 /\ CURRENT_CACHE = 0
    /\ IS_BEGIN_STREAMING = FALSE /\ IS_BEGIN_PLAYING = FALSE
    /\ PLAYED_TIMESTAMP = Zero /\ DEPART_TIMESTAMP = Zero
    /\ hasParent = FALSE /\ departs = 0 /\ gap = 0 /\ burst = 0
    /\ waitsFrom = now

-----------------------------------------------------------------------------
(* The TIME thread.                                                         *)

\* Whether a stamp is older than an interval.
Expired(stamp, interval) ==
    IsExceedTime(DiffCurrentTime(START_TIMESTAMP, now, stamp), interval)

Stamp == UpdateTimestamp(START_TIMESTAMP, now)

\* Mutants: playing without having begun; playing only while streaming.
Plays_Always == Expired(PLAYED_TIMESTAMP, PLAYED_INTARVAL)
Plays_Streaming ==
    IS_BEGIN_STREAMING /\ Expired(PLAYED_TIMESTAMP, PLAYED_INTARVAL)

\* CalPlayedBuffer: is one more block played in this pass?
Plays == IS_BEGIN_PLAYING /\ Expired(PLAYED_TIMESTAMP, PLAYED_INTARVAL)

\* The cache is compared with DEFAULT_CACHE for equality.
Full(cache) == cache = DEFAULT_CACHE

\* Mutant: the stamp is taken only when a block is counted.
Restamps_Played(cache) == Plays

\* Whether the pass takes PLAYED_TIMESTAMP again: CalPlayedBuffer does when
\* it counts a block, and so does every pass that finds the cache full.
Restamps(cache) == Plays \/ Full(cache)

\* The depart check of the same pass.
Starved(cache) ==
    /\ cache < CACHE_TLV
    /\ IS_BEGIN_STREAMING
    /\ Expired(DEPART_TIMESTAMP, DEPART_INTARVAL)

\* One pass over the cache part of the loop.
Poll ==
    LET played == PLAYED_BUFFER + IF Plays THEN 1 ELSE 0
        cache == TOTAL_BLOCK_NUM - played
    IN  /\ PLAYED_BUFFER' = played
        /\ CURRENT_CACHE' = cache
        /\ PLAYED_TIMESTAMP' = IF Restamps(cache) THEN Stamp
                               ELSE PLAYED_TIMESTAMP
        /\ waitsFrom' = IF Plays \/ cache <= DEFAULT_CACHE THEN now
                        ELSE waitsFrom
        /\ IS_BEGIN_STREAMING' = (IS_BEGIN_STREAMING \/ Full(cache))
        /\ IS_BEGIN_PLAYING' = (IS_BEGIN_PLAYING \/ Full(cache))
        /\ DEPART_TIMESTAMP' = IF Starved(cache) THEN Stamp
                               ELSE DEPART_TIMESTAMP
        /\ departs' = departs + IF Starved(cache) /\ hasParent THEN 1 ELSE 0
        /\ gap' = 0 /\ burst' = 0
        /\ UNCHANGED <<now, START_TIMESTAMP, TOTAL_BLOCK_NUM, hasParent>>

-----------------------------------------------------------------------------
(* The READ thread and the clock.                                           *)

\* AssembleBlock takes a block, one still on its way after a DETACH included.
AssembleBlock ==
    /\ burst < Burst /\ TOTAL_BLOCK_NUM < MaxBlocks
    /\ TOTAL_BLOCK_NUM' = TOTAL_BLOCK_NUM + 1
    /\ burst' = burst + 1
    /\ UNCHANGED <<clockVars, cacheVars, flagVars, DEPART_TIMESTAMP,
                   hasParent, departs>>

\* INITIAL_STATUS of a parent.
NodeInitialStatus ==
    /\ ~hasParent
    /\ hasParent' = TRUE
    /\ DEPART_TIMESTAMP' = Stamp
    /\ UNCHANGED <<clockVars, cacheVars, flagVars, TOTAL_BLOCK_NUM, departs,
                   burst>>

\* DETACH of the parent: playing goes on, streaming starts anew.
NodeDetach ==
    /\ hasParent
    /\ hasParent' = FALSE
    /\ IS_BEGIN_STREAMING' = FALSE
    /\ DEPART_TIMESTAMP' = Stamp
    /\ UNCHANGED <<clockVars, cacheVars, IS_BEGIN_PLAYING, TOTAL_BLOCK_NUM,
                   departs, burst>>

\* The parent's keepalive is overdue: its slot is cleared, streaming is kept.
ParentExpires ==
    /\ hasParent
    /\ hasParent' = FALSE
    /\ UNCHANGED <<clockVars, cacheVars, flagVars, TOTAL_BLOCK_NUM,
                   DEPART_TIMESTAMP, departs, burst>>

\* ACCEPT of a new parent after a retry: no stamp is taken.
NodeAccept ==
    /\ ~hasParent /\ TOTAL_BLOCK_NUM > 0
    /\ hasParent' = TRUE
    /\ UNCHANGED <<clockVars, cacheVars, flagVars, TOTAL_BLOCK_NUM,
                   DEPART_TIMESTAMP, departs, burst>>

Elapse ==
    /\ \E d \in Steps :
         /\ gap + d <= PollGap
         /\ now' = Later(now, d)
         /\ gap' = gap + d
    /\ now'.sec <= MaxSec
    /\ UNCHANGED <<START_TIMESTAMP, cacheVars, flagVars, TOTAL_BLOCK_NUM,
                   DEPART_TIMESTAMP, hasParent, departs, burst>>

Next == Poll \/ AssembleBlock \/ NodeInitialStatus \/ NodeDetach
        \/ ParentExpires \/ NodeAccept \/ Elapse

Spec == Init /\ [][Next]_vars

-----------------------------------------------------------------------------
(* Properties.                                                              *)

\* Microseconds a block over DEFAULT_CACHE has waited to be counted.
Waited == Micros(now) - Micros(waitsFrom)

\* Stamps may be negative, counters may not, and what is received is what is
\* played, what the last pass found in the cache and what came since.
TypeOK ==
    /\ now \in Clock /\ START_TIMESTAMP \in Clock /\ waitsFrom \in Clock
    /\ PLAYED_TIMESTAMP \in [sec : Int, usec : Int]
    /\ DEPART_TIMESTAMP \in [sec : Int, usec : Int]
    /\ PLAYED_BUFFER \in Nat /\ CURRENT_CACHE \in Nat
    /\ IS_BEGIN_STREAMING \in BOOLEAN /\ IS_BEGIN_PLAYING \in BOOLEAN
    /\ hasParent \in BOOLEAN /\ departs \in Nat
    /\ gap \in 0..PollGap /\ burst \in 0..Burst
    /\ TOTAL_BLOCK_NUM = PLAYED_BUFFER + CURRENT_CACHE + burst

\* A peer that two blocks between two passes have taken past DEFAULT_CACHE
\* before it plays never plays: TimeProcess tests for equality, and a cache of
\* which nothing is played never comes down to it.  It accepts children all the
\* same, and sends them nothing.
JumpedOver == CURRENT_CACHE > DEFAULT_CACHE /\ ~IS_BEGIN_PLAYING
NeverPlays == [][JumpedOver => JumpedOver']_vars

\* Once playing, the cache never falls under DEFAULT_CACHE: every pass that
\* finds it full takes PLAYED_TIMESTAMP again, so the last blocks before a
\* shortage are never played, the depart check of TimeProcess is never true
\* and no DEPART is sent.
KeepsCache ==
    /\ IS_BEGIN_PLAYING => CURRENT_CACHE >= DEFAULT_CACHE
    /\ departs = 0

\* While a playing peer has blocks over DEFAULT_CACHE it counts one in less than
\* two seconds (and a pass), and the next in less than two more, whatever the
\* phase of START_TIMESTAMP: the borrow of UpdateTimestamp never makes
\* CalPlayedBuffer wait longer.  At DEFAULT_CACHE it counts none, and the two
\* seconds of the next block begin at the last pass that found it so.
PlaysOn == IS_BEGIN_PLAYING => Waited <= Micro + Lost + gap

\* Two blocks are played more than a tenth of a second apart: the timer of
\* CalPlayedBuffer is a second, of which the borrow may lose nine tenths.
PlaysApart == [][PLAYED_BUFFER' # PLAYED_BUFFER => Waited > Carry]_vars

=============================================================================
