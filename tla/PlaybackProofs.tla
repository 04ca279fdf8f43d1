--------------------------- MODULE PlaybackProofs ---------------------------
(***************************************************************************)
(* Proofs about the timers (Timestamp) and the playing clock (Playback).   *)
(***************************************************************************)
EXTENDS Playback, TLAPS

\* A timer of whole seconds never expires earlier than its interval less the
\* nine tenths of a second a borrow of UpdateTimestamp loses (IsExceedTime of
\* DiffCurrentTime, wherever TimeProcess compares a stamp).
THEOREM TimerNotEarly ==
    ASSUME NEW s \in Clock, NEW a \in Clock, NEW b \in Clock, NEW n \in Nat,
           Micros(s) <= Micros(a), Micros(a) <= Micros(b),
           IsExceedTime(DiffCurrentTime(s, b, UpdateTimestamp(s, a)),
                        [sec |-> n, usec |-> 0])
    PROVE  Micros(b) - Micros(a) > n * Micro - Lost
<1>1. /\ s.sec \in Nat /\ s.usec \in Nat /\ s.usec < Micro
      /\ a.sec \in Nat /\ a.usec \in Nat /\ a.usec < Micro
      /\ b.sec \in Nat /\ b.usec \in Nat /\ b.usec < Micro
  BY SMT DEF Clock
<1> QED
  BY <1>1, SMT DEF Micros, Micro, Lost, Carry, IsExceedTime, DiffCurrentTime,
              UpdateTimestamp

\* It is never later than its interval and the same nine tenths.
THEOREM TimerNotLate ==
    ASSUME NEW s \in Clock, NEW a \in Clock, NEW b \in Clock, NEW n \in Nat,
           Micros(s) <= Micros(a), Micros(a) <= Micros(b),
           Micros(b) - Micros(a) > n * Micro + Lost
    PROVE  IsExceedTime(DiffCurrentTime(s, b, UpdateTimestamp(s, a)),
                        [sec |-> n, usec |-> 0])
<1>1. /\ s.sec \in Nat /\ s.usec \in Nat /\ s.usec < Micro
      /\ a.sec \in Nat /\ a.usec \in Nat /\ a.usec < Micro
      /\ b.sec \in Nat /\ b.usec \in Nat /\ b.usec < Micro
  BY SMT DEF Clock
<1> QED
  BY <1>1, SMT DEF Micros, Micro, Lost, Carry, IsExceedTime, DiffCurrentTime,
              UpdateTimestamp

\* A stamp is a pair of integers.
LEMMA StampType ==
    ASSUME NEW s \in Clock, NEW a \in Clock
    PROVE  UpdateTimestamp(s, a) \in [sec : Int, usec : Int]
  BY SMT DEF Clock, Micro, Carry, UpdateTimestamp

\* The clock moves on by what Elapse adds.
LEMMA LaterAdds ==
    ASSUME NEW t \in Clock, NEW d \in Nat, 1 <= d, d <= Carry
    PROVE  Later(t, d) \in Clock /\ Micros(Later(t, d)) = Micros(t) + d
<1>1. t.sec \in Nat /\ t.usec \in Nat /\ t.usec < Micro
  BY SMT DEF Clock
<1> QED
  BY <1>1, SMT DEF Clock, Micro, Carry, Micros, Later

\* Once playing, PLAYED_TIMESTAMP is the stamp of waitsFrom, taken by the last
\* pass when the cache is exactly full.
StampsAgree ==
    /\ Micros(START_TIMESTAMP) <= Micros(waitsFrom)
    /\ Micros(waitsFrom) <= Micros(now)
    /\ IS_BEGIN_PLAYING =>
          PLAYED_TIMESTAMP = UpdateTimestamp(START_TIMESTAMP, waitsFrom)
    /\ IS_BEGIN_PLAYING /\ CURRENT_CACHE = DEFAULT_CACHE =>
          Waited <= gap
    /\ IS_BEGIN_STREAMING => IS_BEGIN_PLAYING

IInv == TypeOK /\ KeepsCache /\ PlaysOn /\ StampsAgree

LEMMA MicrosType == ASSUME NEW t \in Clock PROVE Micros(t) \in Nat
<1>1. t.sec \in Nat /\ t.usec \in Nat
  BY SMT DEF Clock
<1> QED
  BY <1>1, SMT DEF Micros, Micro

LEMMA InitHolds == Init => IInv
<1> SUFFICES ASSUME Init PROVE IInv
  OBVIOUS
<1>1. now \in Clock
  BY PollAssumption DEF Init
<1>2. Micros(now) \in Nat
  BY <1>1, MicrosType
<1>3. Zero \in [sec : Int, usec : Int]
  BY DEF Zero
<1>4. TypeOK
  <2>1. 0 \in 0..PollGap /\ 0 \in 0..Burst
    BY PollAssumption
  <2>2. TOTAL_BLOCK_NUM = PLAYED_BUFFER + CURRENT_CACHE + burst
    BY DEF Init
  <2> QED
    BY <1>1, <1>3, <2>1, <2>2 DEF Init, TypeOK
<1>5. KeepsCache /\ PlaysOn
  BY DEF Init, KeepsCache, PlaysOn
<1>6. StampsAgree
  BY <1>2 DEF Init, StampsAgree
<1> QED
  BY <1>4, <1>5, <1>6 DEF IInv

LEMMA PollKeeps == ASSUME IInv, Poll PROVE IInv'
<1> DEFINE played == PLAYED_BUFFER + IF Plays THEN 1 ELSE 0
           cache == TOTAL_BLOCK_NUM - played
<1> USE CacheAssumption, PollAssumption
<1>1. /\ Micros(now) \in Int /\ Micros(waitsFrom) \in Int
      /\ gap \in Int /\ 0 <= gap /\ gap <= Carry /\ burst \in Nat
  BY MicrosType, SMT DEF IInv, TypeOK, Carry
<1>2. IS_BEGIN_PLAYING /\ CURRENT_CACHE = DEFAULT_CACHE => ~Plays
  <2> SUFFICES ASSUME IS_BEGIN_PLAYING, CURRENT_CACHE = DEFAULT_CACHE, Plays
               PROVE  FALSE
    OBVIOUS
  <2>1. Waited > 1 * Micro - Lost
    BY TimerNotEarly
    DEF IInv, TypeOK, StampsAgree, Plays, Expired, PLAYED_INTARVAL, Waited
  <2>2. Waited <= gap
    BY DEF IInv, StampsAgree
  <2> QED
    BY <2>1, <2>2, <1>1, SMT DEF Waited, Micro, Lost, Carry
<1>3. ~IS_BEGIN_PLAYING => ~Plays
  BY DEF Plays
<1>4. /\ PLAYED_BUFFER' = played /\ CURRENT_CACHE' = cache
      /\ played \in Nat /\ cache \in Nat
      /\ IS_BEGIN_PLAYING => cache >= DEFAULT_CACHE
  BY <1>1, <1>2, <1>3 DEF IInv, TypeOK, KeepsCache, Poll
<1> HIDE DEF played, cache
<1>5. /\ IS_BEGIN_PLAYING' = (IS_BEGIN_PLAYING \/ cache = DEFAULT_CACHE)
      /\ IS_BEGIN_STREAMING' = (IS_BEGIN_STREAMING \/ cache = DEFAULT_CACHE)
  BY DEF Poll, Full, cache, played
<1>6. ~Starved(cache)
  BY <1>4 DEF Starved, IInv, StampsAgree
<1>7. departs' = 0 /\ DEPART_TIMESTAMP' = DEPART_TIMESTAMP
  BY <1>6 DEF Poll, IInv, KeepsCache, cache, played
<1>8. /\ gap' = 0 /\ burst' = 0
      /\ now' = now /\ START_TIMESTAMP' = START_TIMESTAMP
      /\ TOTAL_BLOCK_NUM' = TOTAL_BLOCK_NUM /\ hasParent' = hasParent
  BY DEF Poll
<1>9. \/ PLAYED_TIMESTAMP' = Stamp /\ waitsFrom' = now
      \/ /\ PLAYED_TIMESTAMP' = PLAYED_TIMESTAMP /\ waitsFrom' = waitsFrom
         /\ ~Plays /\ cache # DEFAULT_CACHE
      \/ /\ PLAYED_TIMESTAMP' = PLAYED_TIMESTAMP /\ waitsFrom' = now
         /\ ~IS_BEGIN_PLAYING /\ cache # DEFAULT_CACHE
  BY <1>4 DEF Poll, Restamps, Full, cache, played
<1>10. TypeOK'
  <2>1. Stamp \in [sec : Int, usec : Int]
    BY StampType DEF IInv, TypeOK, Stamp
  <2>2. TOTAL_BLOCK_NUM' = PLAYED_BUFFER' + CURRENT_CACHE' + burst'
    BY <1>4, <1>8 DEF cache, IInv, TypeOK
  <2> QED
    BY <2>1, <2>2, <1>1, <1>4, <1>5, <1>7, <1>8, <1>9 DEF IInv, TypeOK
<1>11. KeepsCache'
  <2>1. IS_BEGIN_PLAYING' => cache >= DEFAULT_CACHE
    <3>1. IS_BEGIN_PLAYING' => IS_BEGIN_PLAYING \/ cache = DEFAULT_CACHE
      BY <1>5
    <3> QED
      BY <1>4, <3>1
  <2> QED
    BY <2>1, <1>4, <1>7 DEF KeepsCache
<1>12. StampsAgree'
  <2>1. IS_BEGIN_STREAMING' => IS_BEGIN_PLAYING'
    BY <1>5 DEF IInv, StampsAgree
  <2>2. CASE waitsFrom' = now /\ PLAYED_TIMESTAMP' = Stamp
    <3>1. Waited' = 0 /\ Micros(START_TIMESTAMP) <= Micros(now)
      BY <2>2, <1>1, <1>8, MicrosType DEF IInv, TypeOK, StampsAgree, Waited
    <3> QED
      <4>1. Waited' <= gap'
        BY <3>1, <1>8
      <4>2. /\ Micros(START_TIMESTAMP)' <= Micros(waitsFrom)'
            /\ Micros(waitsFrom)' <= Micros(now)'
        BY <2>2, <3>1, <1>1, <1>8
      <4>3. PLAYED_TIMESTAMP' = UpdateTimestamp(START_TIMESTAMP, waitsFrom)'
        BY <2>2, <1>8 DEF Stamp
      <4> QED
        BY <2>1, <4>1, <4>2, <4>3 DEF StampsAgree
  <2>3. CASE /\ PLAYED_TIMESTAMP' = PLAYED_TIMESTAMP /\ waitsFrom' = waitsFrom
             /\ cache # DEFAULT_CACHE
    <3>1. IS_BEGIN_PLAYING' = IS_BEGIN_PLAYING /\ CURRENT_CACHE' # DEFAULT_CACHE
      BY <2>3, <1>4, <1>5 DEF IInv, TypeOK
    <3> QED
      BY <2>1, <2>3, <3>1, <1>8 DEF IInv, StampsAgree
  <2>4. CASE waitsFrom' = now /\ ~IS_BEGIN_PLAYING /\ cache # DEFAULT_CACHE
    <3>1. ~IS_BEGIN_PLAYING'
      BY <2>4, <1>5
    <3>2. Micros(START_TIMESTAMP) <= Micros(now)
      BY <1>1, MicrosType DEF IInv, TypeOK, StampsAgree
    <3> QED
      BY <2>1, <2>4, <3>1, <3>2, <1>1, <1>8 DEF StampsAgree
  <2> QED
    BY <1>9, <2>2, <2>3, <2>4
<1>13. PlaysOn'
  <2>1. CASE waitsFrom' = now
    BY <2>1, <1>1, <1>8, SMT DEF PlaysOn, Waited, Micro, Lost, Carry
  <2>2. CASE ~Plays /\ cache # DEFAULT_CACHE /\ waitsFrom' = waitsFrom
    <3> SUFFICES ASSUME IS_BEGIN_PLAYING PROVE Waited <= Micro + Lost
      <4>1. IS_BEGIN_PLAYING' = IS_BEGIN_PLAYING /\ Waited' = Waited
        BY <2>2, <1>5, <1>8 DEF Waited, IInv, TypeOK
      <4> QED
        BY <4>1, <1>8, SMT DEF PlaysOn, Micro, Lost, Carry
    <3>1. ~IsExceedTime(DiffCurrentTime(START_TIMESTAMP, now,
                            UpdateTimestamp(START_TIMESTAMP, waitsFrom)),
                        [sec |-> 1, usec |-> 0])
      BY <2>2 DEF Plays, Expired, PLAYED_INTARVAL, IInv, StampsAgree
    <3>2. ~(Micros(now) - Micros(waitsFrom) > 1 * Micro + Lost)
      BY <3>1, TimerNotLate DEF IInv, TypeOK, StampsAgree
    <3> QED
      BY <3>2, <1>1, SMT DEF Waited, Micro, Lost, Carry
  <2> QED
    BY <1>9, <2>1, <2>2
<1> QED
  BY <1>10, <1>11, <1>12, <1>13 DEF IInv

LEMMA ElapseKeeps == ASSUME IInv, Elapse PROVE IInv'
<1> USE PollAssumption
<1>1. PICK d \in Steps : /\ gap + d <= PollGap
                         /\ now' = Later(now, d)
                         /\ gap' = gap + d
  BY DEF Elapse
<1>2. d \in Nat /\ 1 <= d /\ d <= Carry /\ gap \in Nat
  BY <1>1, SMT DEF Carry, IInv, TypeOK
<1>3. now' \in Clock /\ Micros(now') = Micros(now) + d
  BY <1>1, <1>2, LaterAdds DEF IInv, TypeOK
<1>4. gap' \in 0..PollGap
  BY <1>1, <1>2, SMT DEF Carry
<1>5. /\ Micros(now) \in Int /\ Micros(waitsFrom) \in Int /\ d \in Nat
      /\ Micros(START_TIMESTAMP) \in Int
  BY <1>2, MicrosType, SMT DEF IInv, TypeOK, Carry
<1>6. UNCHANGED <<START_TIMESTAMP, cacheVars, flagVars, TOTAL_BLOCK_NUM,
                  DEPART_TIMESTAMP, hasParent, departs, burst>>
  BY DEF Elapse
<1>7. TypeOK'
  BY <1>3, <1>4, <1>6 DEF IInv, TypeOK, cacheVars, flagVars
<1>8. KeepsCache'
  BY <1>6 DEF IInv, KeepsCache, cacheVars, flagVars
<1>9. Waited' = Waited + d /\ gap' = gap + d
  BY <1>1, <1>3, <1>5, <1>6 DEF Waited, cacheVars
<1>10. PlaysOn'
  BY <1>2, <1>5, <1>6, <1>9, SMT
  DEF IInv, PlaysOn, flagVars, Waited, Micro, Lost, Carry
<1>11. StampsAgree'
  BY <1>2, <1>3, <1>5, <1>6, <1>9
  DEF IInv, StampsAgree, cacheVars, flagVars, Waited
<1> QED
  BY <1>7, <1>8, <1>10, <1>11 DEF IInv

\* The other steps leave the playing clock alone.
LEMMA OthersKeep ==
    ASSUME IInv, \/ AssembleBlock \/ NodeInitialStatus \/ NodeDetach
                 \/ ParentExpires \/ NodeAccept \/ UNCHANGED vars
    PROVE  IInv'
<1> USE PollAssumption
<1>1. /\ UNCHANGED <<clockVars, cacheVars, IS_BEGIN_PLAYING, departs>>
      /\ IS_BEGIN_STREAMING' \in {IS_BEGIN_STREAMING, FALSE}
      /\ hasParent' \in BOOLEAN
  BY DEF AssembleBlock, NodeInitialStatus, NodeDetach, ParentExpires,
         NodeAccept, vars, flagVars, IInv, TypeOK
<1>2. DEPART_TIMESTAMP' \in {DEPART_TIMESTAMP, Stamp}
  BY DEF AssembleBlock, NodeInitialStatus, NodeDetach, ParentExpires,
         NodeAccept, vars
<1>3. Stamp \in [sec : Int, usec : Int]
  BY StampType DEF IInv, TypeOK, Stamp
<1>4. TOTAL_BLOCK_NUM' - burst' = TOTAL_BLOCK_NUM - burst /\ burst' \in 0..Burst
  BY DEF AssembleBlock, NodeInitialStatus, NodeDetach, ParentExpires,
         NodeAccept, vars, IInv, TypeOK
<1>5. TOTAL_BLOCK_NUM' = PLAYED_BUFFER + CURRENT_CACHE + burst'
  BY <1>4 DEF AssembleBlock, NodeInitialStatus, NodeDetach, ParentExpires,
         NodeAccept, vars, IInv, TypeOK
<1>6. TypeOK'
  BY <1>1, <1>2, <1>3, <1>4, <1>5 DEF IInv, TypeOK, clockVars, cacheVars
<1>7. KeepsCache' /\ PlaysOn'
  BY <1>1 DEF IInv, KeepsCache, PlaysOn, Waited,
              clockVars, cacheVars
<1>8. StampsAgree'
  <2>1. IS_BEGIN_STREAMING' => IS_BEGIN_PLAYING'
    BY <1>1 DEF IInv, StampsAgree
  <2>2. /\ Micros(START_TIMESTAMP)' <= Micros(waitsFrom)'
        /\ Micros(waitsFrom)' <= Micros(now)'
    BY <1>1 DEF IInv, StampsAgree, clockVars, cacheVars
  <2>3. IS_BEGIN_PLAYING' =>
           PLAYED_TIMESTAMP' = UpdateTimestamp(START_TIMESTAMP', waitsFrom')
    BY <1>1 DEF IInv, StampsAgree, clockVars, cacheVars
  <2>4. IS_BEGIN_PLAYING' /\ CURRENT_CACHE' = DEFAULT_CACHE
           => Waited' <= gap'
    BY <1>1 DEF IInv, StampsAgree, Waited, clockVars, cacheVars
  <2> QED
    BY <2>1, <2>2, <2>3, <2>4 DEF StampsAgree
<1> QED
  BY <1>6, <1>7, <1>8 DEF IInv

LEMMA IInvHolds == Spec => []IInv
<1>1. IInv /\ [Next]_vars => IInv'
  BY PollKeeps, ElapseKeeps, OthersKeep DEF Next
<1> QED
  BY InitHolds, <1>1, PTL DEF Spec

\* The counters of the playing clock stay natural numbers and account for
\* every block received (CalPlayedBuffer, TimeProcess).
THEOREM TypeOKHolds == Spec => []TypeOK
<1>1. IInv => TypeOK
  BY DEF IInv
<1> QED
  BY <1>1, IInvHolds, PTL

\* A peer that has jumped over DEFAULT_CACHE before it plays never plays,
\* however many blocks come between two passes of TimeProcess.
THEOREM NeverPlaysHolds == Spec => NeverPlays
<1>1. IInv /\ [Next]_vars => [JumpedOver => JumpedOver']_vars
  <2> SUFFICES ASSUME IInv, Next, JumpedOver PROVE JumpedOver'
    BY DEF vars
  <2>1. CASE Poll
    <3>1. ~Plays
      BY DEF Plays, JumpedOver
    <3>2. CURRENT_CACHE' >= CURRENT_CACHE
      BY <2>1, <3>1, PollAssumption DEF Poll, IInv, TypeOK
    <3>3. CURRENT_CACHE' \in Int /\ CURRENT_CACHE' > DEFAULT_CACHE
      BY <2>1, <3>1, <3>2, CacheAssumption DEF Poll, IInv, TypeOK, JumpedOver
    <3>4. IS_BEGIN_PLAYING' = (IS_BEGIN_PLAYING \/ CURRENT_CACHE' = DEFAULT_CACHE)
      BY <2>1 DEF Poll, Full
    <3>5. CURRENT_CACHE' # DEFAULT_CACHE
      BY <3>3, CacheAssumption
    <3>6. ~IS_BEGIN_PLAYING'
      BY <3>4, <3>5 DEF JumpedOver
    <3> QED
      BY <3>3, <3>6 DEF JumpedOver
  <2>2. CASE ~Poll
    BY <2>2 DEF JumpedOver, Next, AssembleBlock, NodeInitialStatus, NodeDetach,
               ParentExpires, NodeAccept, Elapse, cacheVars, flagVars
  <2> QED
    BY <2>1, <2>2
<1> QED
  BY <1>1, IInvHolds, PTL DEF Spec, NeverPlays

\* A playing peer keeps DEFAULT_CACHE blocks for good and sends no DEPART.
THEOREM KeepsCacheHolds == Spec => []KeepsCache
<1>1. IInv => KeepsCache
  BY DEF IInv
<1> QED
  BY <1>1, IInvHolds, PTL

\* While a playing peer has blocks over DEFAULT_CACHE it counts one in less than
\* two seconds and a pass.
THEOREM PlaysOnHolds == Spec => []PlaysOn
<1>1. IInv => PlaysOn
  BY DEF IInv
<1> QED
  BY <1>1, IInvHolds, PTL

\* Two blocks are counted more than a tenth of a second apart.
THEOREM PlaysApartHolds == Spec => PlaysApart
<1>1. IInv /\ [Next]_vars
        => [PLAYED_BUFFER' # PLAYED_BUFFER => Waited > Carry]_vars
  <2> SUFFICES ASSUME IInv, Next, PLAYED_BUFFER' # PLAYED_BUFFER
               PROVE  Waited > Carry
    BY DEF vars, cacheVars
  <2>1. Poll
    BY DEF Next, AssembleBlock, NodeInitialStatus, NodeDetach, ParentExpires,
           NodeAccept, Elapse, cacheVars
  <2>2. Plays
    BY <2>1 DEF Poll, IInv, TypeOK
  <2>3. Waited > 1 * Micro - Lost
    BY <2>2, TimerNotEarly
    DEF IInv, TypeOK, StampsAgree, Plays, Expired, PLAYED_INTARVAL, Waited
  <2> QED
    BY <2>3, MicrosType, SMT DEF Waited, Micro, Lost, Carry, IInv, TypeOK
<1> QED
  BY <1>1, IInvHolds, PTL DEF Spec, PlaysApart

=============================================================================
