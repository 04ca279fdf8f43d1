---------------------------- MODULE BlocksProofs ----------------------------
(***************************************************************************)
(* Proofs about Blocks: for every cluster of every length, the sender only *)
(* parses headers where there are headers, no block is longer than a       *)
(* packet, and the blocks of a cluster end where it ends.                  *)
(***************************************************************************)
EXTENDS Blocks, TLAPS

\* What is left of a simple block in pieces, e the place where it ends: the
\* pieces still to come are as many as the bytes need, and total_piece_bytes
\* still tells how long the last one is, although it may have wrapped.
Chain(i, e) ==
    LET rest == e - (i.pos + i.bytes)
    IN  /\ 1 <= i.piece_seq /\ i.piece_seq <= i.total_pieces
        /\ 0 <= rest
        /\ rest <= MAX_BLOCK_BYTES * (i.total_pieces - i.piece_seq)
        /\ i.piece_seq < i.total_pieces =>
             /\ rest > MAX_BLOCK_BYTES * (i.total_pieces - i.piece_seq - 1)
             /\ i.total_piece_bytes
                  = U16(rest + MAX_BLOCK_BYTES * i.piece_seq)

\* The block sent last.
PrevOK ==
    /\ prev.status # "NONE"
    /\ prev.bytes <= MAX_BLOCK_BYTES
    /\ prev.pos >= CLUSTER_HEADER_BYTES
    /\ prev.status = "INIT" => prev = FirstOfCluster
    /\ prev.status # "INIT" => prev.bytes > 0
    /\ prev.status \in {"SIMPLEBLOCK", "BLOCK"} =>
          Boundary(prev.pos + prev.bytes)
    /\ prev.status = "PIECE" =>
          \E k \in 1..(layout.n + 1) : Chain(prev, layout.start[k])

\* The call of GetChankByBytes.
ScanOK ==
    /\ scan.branch \in {"init", "fresh", "last"}
    /\ scan.buf = info.pos + info.bytes
    /\ scan.req = MAX_BLOCK_BYTES - info.bytes
    /\ info.bytes <= MAX_BLOCK_BYTES
    /\ scan.total <= scan.req
    /\ Boundary(scan.buf + scan.total)
    /\ scan.status \in {0, 1, ONLY_TIMECODE}
    /\ scan.status = 0 <=> scan.total = 0
    /\ scan.branch = "init" => info.pos = CLUSTER_HEADER_BYTES
    /\ scan.branch # "init" =>
          info.pos > CLUSTER_HEADER_BYTES /\ scan.status # ONLY_TIMECODE
    /\ scan.branch # "last" => info.bytes = 0 /\ info.total_piece_bytes = 0
    /\ scan.branch = "last" =>
          /\ info.status = "PIECE" /\ info.bytes > 0
          /\ 1 <= info.piece_seq /\ info.piece_seq = info.total_pieces
    /\ scan.status = ONLY_TIMECODE =>
          scan.total = layout.start[2] - CLUSTER_HEADER_BYTES

IInv ==
    /\ TypeOK
    /\ pc = "next" => PrevOK /\ info = Blank
    /\ pc = "scan" => ScanOK
    /\ pc = "end" => EndsExact /\ prev.bytes <= MAX_BLOCK_BYTES /\ info = Blank

-----------------------------------------------------------------------------
(* Arithmetic.                                                              *)

LEMMA PiecesEnough ==
    ASSUME NEW t \in Nat, t <= 255 * MAX_BLOCK_BYTES
    PROVE  /\ Pieces(t) \in UInt8
           /\ t <= MAX_BLOCK_BYTES * Pieces(t)
           /\ t > MAX_BLOCK_BYTES * (Pieces(t) - 1)
  BY SMT DEF Pieces, U8, UInt8, MAX_BLOCK_BYTES

LEMMA LastFits ==
    ASSUME NEW rest \in Nat, rest <= MAX_BLOCK_BYTES, NEW seq \in UInt8
    PROVE  U16(U16(rest + MAX_BLOCK_BYTES * seq) - MAX_BLOCK_BYTES * seq) = rest
  BY SMT DEF U16, UInt8, MAX_BLOCK_BYTES

LEMMA U16Type == ASSUME NEW x \in Int PROVE U16(x) \in UInt16
  BY SMT DEF U16, UInt16

LEMMA U16Same == ASSUME NEW x \in Nat, x <= 65535 PROVE U16(x) = x
  BY SMT DEF U16

LEMMA U8Same == ASSUME NEW x \in Nat, x <= 255 PROVE U8(x) = x
  BY SMT DEF U8

LEMMA Widths ==
    /\ \A x \in UInt8 : x \in Nat /\ x <= 255
    /\ \A x \in UInt16 : x \in Nat /\ x <= 65535
  BY SMT DEF UInt8, UInt16

\* The fields of block->info are numbers.
LEMMA InfoFields ==
    ASSUME NEW i \in InfoType
    PROVE  /\ i.pos \in Nat /\ i.bytes \in Nat
           /\ i.total_pieces \in Nat /\ i.total_pieces <= 255
           /\ i.piece_seq \in Nat /\ i.piece_seq <= 255
           /\ i.total_piece_bytes \in Nat
<1>1. /\ i.pos \in Nat /\ i.bytes \in UInt16
      /\ i.total_pieces \in UInt8 /\ i.piece_seq \in UInt8
      /\ i.total_piece_bytes \in UInt16
  BY SMT DEF InfoType
<1> QED
  BY <1>1, Widths

\* Info makes a struct BlockInfo.
LEMMA InfoIs ==
    ASSUME NEW pos \in Nat, NEW bytes \in UInt16, NEW tp \in UInt8,
           NEW ps \in UInt8, NEW tb \in UInt16,
           NEW st \in {"NONE", "INIT", "PIECE", "SIMPLEBLOCK", "BLOCK"}
    PROVE  LET i == Info(pos, bytes, tp, ps, tb, st)
           IN  /\ i \in InfoType
               /\ i.pos = pos /\ i.bytes = bytes /\ i.total_pieces = tp
               /\ i.piece_seq = ps /\ i.total_piece_bytes = tb
               /\ i.status = st
  BY SMT DEF Info, InfoType

LEMMA ZeroType ==
    0 \in UInt8 /\ 0 \in UInt16 /\ 0 \in Nat /\ CLUSTER_HEADER_BYTES \in Nat
  BY SMT DEF UInt8, UInt16, CLUSTER_HEADER_BYTES

-----------------------------------------------------------------------------
(* The cluster.                                                             *)

\* Chanks start in order, at natural numbers.
LEMMA StartsInOrder ==
    ASSUME IsLayout(layout)
    PROVE  /\ layout.n \in Nat \ {0}
           /\ \A k \in 1..(layout.n + 1) : layout.start[k] \in Nat
           /\ \A j, k \in 1..(layout.n + 1) :
                 j < k => layout.start[j] < layout.start[k]
           /\ layout.start[1] = CLUSTER_HEADER_BYTES
  BY DEF IsLayout

\* GetChank finds the chank that starts at p.
LEMMA ChankHere ==
    ASSUME IsLayout(layout), NEW k \in Chanks
    PROVE  LET c == GetChank(layout.start[k])
           IN  /\ c.chank_bytes = layout.start[k + 1] - layout.start[k]
               /\ c.id = IF k = 1 THEN "TIMECODE" ELSE "SIMPLEBLOCK"
<1>1. \A j \in Chanks : layout.start[j] = layout.start[k] => j = k
  <2> SUFFICES ASSUME NEW j \in Chanks, layout.start[j] = layout.start[k]
               PROVE  j = k
    OBVIOUS
  <2>1. /\ j \in Int /\ k \in Int
        /\ j \in 1..(layout.n + 1) /\ k \in 1..(layout.n + 1)
    BY StartsInOrder, SMT DEF Chanks
  <2>2. ~(j < k) /\ ~(k < j)
    BY <2>1, StartsInOrder, SMT
  <2> QED
    BY <2>1, <2>2, SMT
<1>2. (CHOOSE j \in Chanks : layout.start[j] = layout.start[k]) = k
  BY <1>1
<1> QED
  BY <1>2 DEF GetChank

\* Behind the last chank it finds the header of the next cluster.
LEMMA ChankEnd ==
    ASSUME IsLayout(layout)
    PROVE  GetChank(End).id = "CLUSTER"
<1>1. \A k \in Chanks : layout.start[k] \in Nat /\ layout.start[k] < End
  <2> SUFFICES ASSUME NEW k \in Chanks
               PROVE  layout.start[k] \in Nat /\ layout.start[k] < End
    OBVIOUS
  <2>1. /\ k \in 1..(layout.n + 1) /\ layout.n + 1 \in 1..(layout.n + 1)
        /\ k < layout.n + 1
    BY StartsInOrder, SMT DEF Chanks
  <2> QED
    BY <2>1, StartsInOrder DEF End
<1>2. ~ \E k \in Chanks : layout.start[k] = End
  BY <1>1, SMT
<1> QED
  BY <1>2 DEF GetChank

\* At a boundary there is a chank or the end of the cluster, and only the
\* first chank is the timecode.
LEMMA AtBoundary ==
    ASSUME IsLayout(layout), NEW p, Boundary(p)
    PROVE  \/ p = End /\ GetChank(p).id = "CLUSTER"
           \/ \E k \in Chanks :
                /\ p = layout.start[k]
                /\ p >= CLUSTER_HEADER_BYTES
                /\ GetChank(p).chank_bytes = layout.start[k + 1] - p
                /\ GetChank(p).id = IF k = 1 THEN "TIMECODE"
                                    ELSE "SIMPLEBLOCK"
                /\ k > 1 => p > CLUSTER_HEADER_BYTES
                /\ k = 1 => p = CLUSTER_HEADER_BYTES
<1>1. PICK k \in 1..(layout.n + 1) : layout.start[k] = p
  BY DEF Boundary
<1>2. CASE k = layout.n + 1
  BY <1>1, <1>2, ChankEnd DEF End
<1>3. CASE k # layout.n + 1
  <2>1. k \in Chanks
    BY <1>3, StartsInOrder, SMT DEF Chanks
  <2>2. /\ p >= CLUSTER_HEADER_BYTES
        /\ k > 1 => p > CLUSTER_HEADER_BYTES
        /\ k = 1 => p = CLUSTER_HEADER_BYTES
    <3>1. 1 \in 1..(layout.n + 1) /\ k \in Int
      BY StartsInOrder, SMT
    <3>2. k > 1 => layout.start[1] < layout.start[k]
      BY <3>1, StartsInOrder
    <3>3. k >= 1 /\ layout.start[k] \in Nat
      BY StartsInOrder, SMT
    <3> QED
      BY <1>1, <3>1, <3>2, <3>3, StartsInOrder, SMT DEF CLUSTER_HEADER_BYTES
  <2> QED
    BY <1>1, <2>1, <2>2, ChankHere
<1> QED
  BY <1>2, <1>3

\* The lengths of the chanks.
LEMMA Lengths ==
    ASSUME IsLayout(layout), FitsPieces(layout), NEW k \in Chanks
    PROVE  /\ layout.start[k + 1] \in Nat /\ layout.start[k] \in Nat
           /\ layout.start[k] < layout.start[k + 1]
           /\ layout.start[k + 1] - layout.start[k] <= 254 * MAX_BLOCK_BYTES
           /\ k + 1 \in 1..(layout.n + 1)
           /\ Boundary(layout.start[k + 1])
<1>1. k \in 1..layout.n /\ k + 1 \in 1..(layout.n + 1) /\ k < k + 1
      /\ k \in 1..(layout.n + 1)
  BY StartsInOrder, SMT DEF Chanks
<1>2. layout.start[k + 1] - layout.start[k] <= 254 * MAX_BLOCK_BYTES
  BY <1>1 DEF FitsPieces
<1> QED
  BY <1>1, <1>2, StartsInOrder DEF Boundary

-----------------------------------------------------------------------------
(* The steps.                                                               *)

LEMMA InitHolds == Init => IInv
<1> SUFFICES ASSUME Init PROVE IInv
  OBVIOUS
<1>1. IsLayout(layout) /\ FitsPieces(layout)
  BY LayoutsAssumption DEF Init
<1>2. TypeOK
  <2>1. Blank \in InfoType /\ FirstOfCluster \in InfoType
    BY ZeroType, InfoIs DEF Blank, FirstOfCluster
  <2>3. NoScan \in [buf : Nat, req : Nat, total : Nat, status : 0..3,
                    branch : {"none", "init", "fresh", "last"}]
    BY SMT DEF NoScan
  <2> QED
    BY <1>1, <2>1, <2>3 DEF Init, TypeOK
<1>3. PrevOK /\ info = Blank
  BY SMT DEF Init, PrevOK, FirstOfCluster, Info, CLUSTER_HEADER_BYTES,
             MAX_BLOCK_BYTES
<1> QED
  BY <1>2, <1>3 DEF IInv, Init

ScanType ==
    [buf : Nat, req : Nat, total : Nat, status : 0..3,
     branch : {"none", "init", "fresh", "last"}]

\* Placed is block->info at the end of the block before.
LEMMA PlacedType ==
    ASSUME IInv, pc = "next"
    PROVE  /\ Placed \in InfoType
           /\ Placed.pos = IF prev.status = "INIT" THEN CLUSTER_HEADER_BYTES
                           ELSE prev.pos + prev.bytes
           /\ Placed.bytes = 0 /\ Placed.total_piece_bytes = 0
<1>1. /\ info = Blank
      /\ prev.pos + prev.bytes \in Nat
  BY InfoFields, SMT DEF IInv, TypeOK
<1> QED
  BY <1>1, ZeroType, SMT DEF Placed, Blank, Info, InfoType

\* A step into GetChankByBytes.
LEMMA CallKeeps ==
    ASSUME IInv, pc = "next",
           NEW i \in InfoType, NEW buf \in Nat, NEW req \in Nat,
           NEW branch \in {"init", "fresh", "last"},
           Call(i, buf, req, branch),
           buf = i.pos + i.bytes, Boundary(buf),
           i.bytes <= MAX_BLOCK_BYTES, req = MAX_BLOCK_BYTES - i.bytes,
           branch = "init" => i.pos = CLUSTER_HEADER_BYTES,
           branch # "init" => i.pos > CLUSTER_HEADER_BYTES,
           branch # "last" => i.bytes = 0 /\ i.total_piece_bytes = 0,
           branch = "last" =>
             /\ i.status = "PIECE" /\ i.bytes > 0
             /\ 1 <= i.piece_seq /\ i.piece_seq = i.total_pieces
    PROVE  IInv'
<1> DEFINE s == [buf |-> buf, req |-> req, total |-> 0, status |-> 0,
                 branch |-> branch]
<1>1. /\ info' = i /\ scan' = s /\ pc' = "scan"
      /\ layout' = layout /\ prev' = prev
  BY DEF Call
<1>2. s \in ScanType
  BY SMT DEF ScanType
<1>3. TypeOK'
  BY <1>1, <1>2 DEF IInv, TypeOK, ScanType
<1>4. Boundary(buf)' /\ buf + 0 = buf
  BY <1>1, SMT DEF Boundary
<1>5. ScanOK'
  BY <1>1, <1>4, SMT DEF ScanOK, ONLY_TIMECODE, Boundary
<1> QED
  BY <1>1, <1>3, <1>5 DEF IInv

LEMMA InitBlockKeeps == ASSUME IInv, InitBlock PROVE IInv'
<1>1. pc = "next" /\ prev.status = "INIT"
  BY DEF InitBlock
<1>2. /\ Placed \in InfoType /\ Placed.pos = CLUSTER_HEADER_BYTES
      /\ Placed.bytes = 0 /\ Placed.total_piece_bytes = 0
  BY <1>1, PlacedType
<1>3. /\ CLUSTER_HEADER_BYTES \in Nat
      /\ MAX_BLOCK_BYTES \in Nat
      /\ CLUSTER_HEADER_BYTES = CLUSTER_HEADER_BYTES + 0
      /\ MAX_BLOCK_BYTES = MAX_BLOCK_BYTES - 0
      /\ 0 <= MAX_BLOCK_BYTES
  BY SMT DEF CLUSTER_HEADER_BYTES, MAX_BLOCK_BYTES
<1>4. Boundary(CLUSTER_HEADER_BYTES)
  <2>1. 1 \in 1..(layout.n + 1)
    BY StartsInOrder, SMT DEF IInv, TypeOK
  <2> QED
    BY <2>1, StartsInOrder DEF IInv, TypeOK, Boundary
<1>5. Call(Placed, Placed.pos, MAX_BLOCK_BYTES, "init")
  BY DEF InitBlock
<1> QED
  BY <1>1, <1>2, <1>3, <1>4, <1>5, CallKeeps

\* Where a piece ends its simple block, a chank starts.
LEMMA FreshBoundary ==
    ASSUME IInv, pc = "next",
           \/ prev.status \in {"SIMPLEBLOCK", "BLOCK"}
           \/ IsPrevPieceLast
    PROVE  Boundary(prev.pos + prev.bytes)
<1>1. CASE prev.status \in {"SIMPLEBLOCK", "BLOCK"}
  BY <1>1 DEF IInv, PrevOK
<1>2. CASE IsPrevPieceLast
  <2>1. PICK k \in 1..(layout.n + 1) : Chain(prev, layout.start[k])
    BY <1>2 DEF IsPrevPieceLast, IInv, PrevOK
  <2>2. /\ prev.pos \in Nat /\ prev.bytes \in Nat
        /\ prev.total_pieces \in Nat /\ prev.piece_seq \in Nat
        /\ layout.start[k] \in Nat
    BY StartsInOrder, InfoFields, SMT DEF IInv, TypeOK
  <2>3. layout.start[k] = prev.pos + prev.bytes
    BY <1>2, <2>1, <2>2, SMT DEF Chain, IsPrevPieceLast, MAX_BLOCK_BYTES
  <2> QED
    BY <2>3 DEF Boundary
<1> QED
  BY <1>1, <1>2

LEMMA FreshBlockKeeps == ASSUME IInv, FreshBlock PROVE IInv'
<1>1. /\ pc = "next"
      /\ \/ prev.status \in {"SIMPLEBLOCK", "BLOCK"}
         \/ IsPrevPieceLast
      /\ Call(Placed, Placed.pos, MAX_BLOCK_BYTES, "fresh")
  BY DEF FreshBlock
<1>2. prev.status # "INIT" /\ prev.pos >= CLUSTER_HEADER_BYTES /\ prev.bytes > 0
  BY <1>1 DEF IsPrevPieceLast, IInv, PrevOK
<1>3. /\ Placed \in InfoType /\ Placed.pos = prev.pos + prev.bytes
      /\ Placed.bytes = 0 /\ Placed.total_piece_bytes = 0
  BY <1>1, <1>2, PlacedType
<1>4. /\ Placed.pos \in Nat /\ prev.pos \in Nat /\ prev.bytes \in Nat
      /\ Placed.pos > CLUSTER_HEADER_BYTES
      /\ MAX_BLOCK_BYTES \in Nat
      /\ Placed.pos = Placed.pos + 0
      /\ MAX_BLOCK_BYTES = MAX_BLOCK_BYTES - 0 /\ 0 <= MAX_BLOCK_BYTES
  BY <1>2, <1>3, InfoFields, SMT
  DEF IInv, TypeOK, CLUSTER_HEADER_BYTES, MAX_BLOCK_BYTES
<1>5. Boundary(Placed.pos)
  BY <1>1, <1>3, FreshBoundary
<1> QED
  BY <1>1, <1>3, <1>4, <1>5, CallKeeps

\* The piece after prev.
LEMMA NextPieceType ==
    ASSUME IInv, pc = "next", prev.status = "PIECE",
           prev.piece_seq < prev.total_pieces, NEW b \in 0..MAX_BLOCK_BYTES
    PROVE  LET i == NextPiece(Placed, b)
           IN  /\ i \in InfoType
               /\ i.status = "PIECE" /\ i.bytes = b
               /\ i.pos = prev.pos + prev.bytes
               /\ i.total_pieces = prev.total_pieces
               /\ i.piece_seq = prev.piece_seq + 1
               /\ i.total_piece_bytes = prev.total_piece_bytes
<1>1. Placed \in InfoType /\ Placed.pos = prev.pos + prev.bytes
  BY PlacedType
<1>2. /\ prev.piece_seq \in Nat /\ prev.total_pieces \in UInt8
      /\ prev.total_pieces \in Nat /\ prev.total_pieces <= 255
      /\ prev.total_piece_bytes \in UInt16
  BY InfoFields, SMT DEF IInv, TypeOK, InfoType
<1>3. U8(prev.piece_seq + 1) = prev.piece_seq + 1
      /\ prev.piece_seq + 1 \in UInt8
  BY <1>2, SMT DEF U8, UInt8
<1>4. b \in UInt16
  BY SMT DEF MAX_BLOCK_BYTES, UInt16
<1>5. Placed.pos \in Nat
  BY <1>1, InfoFields
<1> DEFINE pos == Placed.pos
           tp == prev.total_pieces
           ps == prev.piece_seq + 1
           tb == prev.total_piece_bytes
           i == Info(pos, b, tp, ps, tb, "PIECE")
<1>6. /\ i \in InfoType
      /\ i.pos = pos /\ i.bytes = b
      /\ i.total_pieces = tp
      /\ i.piece_seq = ps
      /\ i.total_piece_bytes = tb
      /\ i.status = "PIECE"
  <2>1. pos \in Nat /\ tp \in UInt8 /\ ps \in UInt8 /\ tb \in UInt16
    BY <1>2, <1>3, <1>5
  <2> HIDE DEF pos, tp, ps, tb
  <2> QED
    BY <1>4, <2>1, InfoIs
<1>7. NextPiece(Placed, b) = i
  BY <1>3 DEF NextPiece
<1> HIDE DEF i
<1> QED
  BY <1>1, <1>6, <1>7

LEMMA LastPieceKeeps == ASSUME IInv, LastPiece PROVE IInv'
<1> DEFINE i == NextPiece(Placed, LastBytes)
<1>1. /\ pc = "next" /\ prev.status = "PIECE"
      /\ prev.total_pieces = prev.piece_seq + 1
      /\ Call(i, i.pos + i.bytes, Room(i.bytes), "last")
  BY DEF LastPiece, IsCurrentPieceLast
<1>2. PICK k \in 1..(layout.n + 1) : Chain(prev, layout.start[k])
  BY <1>1 DEF IInv, PrevOK
<1> DEFINE rest == layout.start[k] - (prev.pos + prev.bytes)
<1>3. /\ prev.pos \in Nat /\ prev.bytes \in Nat
      /\ prev.piece_seq \in Nat /\ prev.piece_seq \in UInt8
      /\ layout.start[k] \in Nat
      /\ prev.pos >= CLUSTER_HEADER_BYTES /\ prev.bytes > 0
  BY <1>1, StartsInOrder, InfoFields, SMT DEF IInv, TypeOK, PrevOK, InfoType
<1>4. /\ 1 <= prev.piece_seq
      /\ rest \in Nat /\ 0 < rest /\ rest <= MAX_BLOCK_BYTES
      /\ prev.total_piece_bytes = U16(rest + MAX_BLOCK_BYTES * prev.piece_seq)
  BY <1>1, <1>2, <1>3, SMT DEF Chain, MAX_BLOCK_BYTES
<1>5. LastBytes = rest
  BY <1>3, <1>4, LastFits DEF LastBytes
<1>6. rest \in 0..MAX_BLOCK_BYTES /\ MAX_BLOCK_BYTES \in Nat
  BY <1>4, SMT DEF MAX_BLOCK_BYTES
<1>7. /\ i \in InfoType
      /\ i.status = "PIECE" /\ i.bytes = rest
      /\ i.pos = prev.pos + prev.bytes
      /\ i.total_pieces = prev.total_pieces
      /\ i.piece_seq = prev.piece_seq + 1
  <2>1. prev.piece_seq < prev.total_pieces
    BY <1>1, <1>3, SMT
  <2> QED
    BY <1>1, <1>5, <1>6, <2>1, NextPieceType
<1>8. i.pos + i.bytes = layout.start[k]
  BY <1>3, <1>7, SMT
<1> HIDE DEF i
<1>9. /\ i.pos + i.bytes \in Nat
      /\ Boundary(i.pos + i.bytes)
      /\ Room(i.bytes) \in Nat
      /\ Room(i.bytes) = MAX_BLOCK_BYTES - i.bytes
      /\ i.pos > CLUSTER_HEADER_BYTES
      /\ i.bytes > 0 /\ i.bytes <= MAX_BLOCK_BYTES
      /\ 1 <= i.piece_seq /\ i.piece_seq = i.total_pieces
  <2>1. Boundary(i.pos + i.bytes)
    BY <1>8 DEF Boundary
  <2> QED
    BY <1>1, <1>3, <1>4, <1>6, <1>7, <1>8, <2>1, SMT
    DEF Room, CLUSTER_HEADER_BYTES
<1> QED
  BY <1>1, <1>7, <1>9, CallKeeps

\* What a block has to be when the sender goes on.
LEMMA ShiftKeeps ==
    ASSUME IInv, NEW i \in InfoType, Shift(i), layout' = layout,
           pc' = "next",
           i.status \in {"PIECE", "SIMPLEBLOCK", "BLOCK"},
           0 < i.bytes, i.bytes <= MAX_BLOCK_BYTES,
           i.pos >= CLUSTER_HEADER_BYTES,
           i.status # "PIECE" => Boundary(i.pos + i.bytes),
           i.status = "PIECE" =>
             \E k \in 1..(layout.n + 1) : Chain(i, layout.start[k])
    PROVE  IInv'
<1>1. prev' = i /\ info' = Blank /\ scan' = NoScan
  BY DEF Shift
<1>2. NoScan \in ScanType
  BY SMT DEF NoScan, ScanType
<1>3. Blank \in InfoType
  BY ZeroType, InfoIs DEF Blank
<1>4. TypeOK'
  BY <1>1, <1>2, <1>3 DEF IInv, TypeOK, ScanType
<1>5. i.status = "PIECE" =>
        \E k \in 1..(layout'.n + 1) : Chain(i, layout'.start[k])
  OBVIOUS
<1>6. i.status # "PIECE" => Boundary(i.pos + i.bytes)'
  BY <1>1 DEF Boundary
<1>7. PrevOK'
  BY <1>1, <1>5, <1>6 DEF PrevOK, Boundary
<1> QED
  BY <1>1, <1>4, <1>7 DEF IInv

LEMMA OtherPieceKeeps == ASSUME IInv, OtherPiece PROVE IInv'
<1> DEFINE i == NextPiece(Placed, MAX_BLOCK_BYTES)
<1>1. /\ pc = "next" /\ prev.status = "PIECE"
      /\ prev.total_pieces # prev.piece_seq + 1
      /\ prev.total_pieces # prev.piece_seq
      /\ Shift(i) /\ layout' = layout /\ pc' = "next"
  BY DEF OtherPiece, IsCurrentPieceLast, IsPrevPieceLast
<1>2. PICK k \in 1..(layout.n + 1) : Chain(prev, layout.start[k])
  BY <1>1 DEF IInv, PrevOK
<1>3. /\ prev.pos \in Nat /\ prev.bytes \in Nat
      /\ prev.piece_seq \in Nat /\ prev.total_pieces \in Nat
      /\ layout.start[k] \in Nat
      /\ prev.pos >= CLUSTER_HEADER_BYTES
  BY <1>1, StartsInOrder, InfoFields, SMT DEF IInv, TypeOK, PrevOK
<1>4. prev.piece_seq + 1 < prev.total_pieces
  <2>1. prev.piece_seq <= prev.total_pieces
    BY <1>2 DEF Chain
  <2> QED
    BY <1>1, <1>3, <2>1, SMT
<1>5. MAX_BLOCK_BYTES \in 0..MAX_BLOCK_BYTES
  BY SMT DEF MAX_BLOCK_BYTES
<1>6. /\ i \in InfoType
      /\ i.status = "PIECE" /\ i.bytes = MAX_BLOCK_BYTES
      /\ i.pos = prev.pos + prev.bytes
      /\ i.total_pieces = prev.total_pieces
      /\ i.piece_seq = prev.piece_seq + 1
      /\ i.total_piece_bytes = prev.total_piece_bytes
  <2>1. prev.piece_seq < prev.total_pieces
    BY <1>3, <1>4, SMT
  <2> QED
    BY <1>1, <1>5, <2>1, NextPieceType
<1> HIDE DEF i
<1>7. Chain(i, layout.start[k])
  BY <1>2, <1>3, <1>4, <1>6, SMT DEF Chain, MAX_BLOCK_BYTES
<1>8. /\ i.pos >= CLUSTER_HEADER_BYTES
      /\ 0 < i.bytes /\ i.bytes <= MAX_BLOCK_BYTES
  BY <1>3, <1>6, SMT DEF MAX_BLOCK_BYTES, CLUSTER_HEADER_BYTES
<1> QED
  BY <1>1, <1>6, <1>7, <1>8, ShiftKeeps

\* One more chank that fits.
LEMMA ScanChankKeeps == ASSUME IInv, ScanChank PROVE IInv'
<1> DEFINE p == scan.buf + scan.total
           chank == GetChank(p)
           total == scan.total + chank.chank_bytes
           status == IF chank.id = "TIMECODE" THEN ONLY_TIMECODE ELSE 1
<1>1. /\ pc = "scan" /\ chank.id \in {"TIMECODE", "SIMPLEBLOCK"}
      /\ total <= scan.req
      /\ scan' = [scan EXCEPT !.total = total, !.status = status]
      /\ UNCHANGED <<layout, prev, info, pc>>
  BY DEF ScanChank, Takes
<1>2. ScanOK /\ IsLayout(layout) /\ FitsPieces(layout) /\ scan \in ScanType
      /\ info \in InfoType
  BY <1>1 DEF IInv, TypeOK, ScanType
<1>3. PICK k \in Chanks :
         /\ p = layout.start[k]
         /\ p >= CLUSTER_HEADER_BYTES
         /\ chank.chank_bytes = layout.start[k + 1] - p
         /\ chank.id = IF k = 1 THEN "TIMECODE" ELSE "SIMPLEBLOCK"
         /\ k > 1 => p > CLUSTER_HEADER_BYTES
         /\ k = 1 => p = CLUSTER_HEADER_BYTES
  BY <1>1, <1>2, AtBoundary DEF ScanOK
<1>4. /\ layout.start[k + 1] \in Nat /\ p < layout.start[k + 1]
      /\ Boundary(layout.start[k + 1])
  BY <1>2, <1>3, Lengths
<1>5. /\ scan.buf \in Nat /\ scan.total \in Nat /\ scan.req \in Nat
      /\ info.pos \in Nat /\ info.bytes \in Nat
  BY <1>2, InfoFields, SMT DEF ScanType
<1>6. /\ chank.chank_bytes \in Nat /\ chank.chank_bytes > 0
      /\ total \in Nat /\ total > 0
      /\ scan.buf + total = layout.start[k + 1]
  <2> HIDE DEF chank
  <2> QED
    BY <1>3, <1>4, <1>5, SMT
<1>7. /\ status \in {1, ONLY_TIMECODE} /\ status \in 0..3 /\ status # 0
      /\ status = ONLY_TIMECODE <=> k = 1
  <2>1. ONLY_TIMECODE \in 0..3 /\ 1 \in 0..3 /\ 0 # 1 /\ ONLY_TIMECODE # 0
        /\ ONLY_TIMECODE # 1
    BY SMT DEF ONLY_TIMECODE
  <2> HIDE DEF chank
  <2> QED
    BY <1>3, <2>1
<1>8. k = 1 => /\ scan.branch = "init" 
               /\ total = layout.start[2] - CLUSTER_HEADER_BYTES
  <2> HAVE k = 1
  <2>1. p = CLUSTER_HEADER_BYTES /\ CLUSTER_HEADER_BYTES \in Nat
    BY <1>3, ZeroType
  <2>2. scan.buf >= info.pos /\ p >= info.pos
    BY <1>2, <1>5, SMT DEF ScanOK
  <2>3. scan.branch = "init"
    BY <1>2, <1>5, <2>1, <2>2, SMT DEF ScanOK
  <2>4. scan.buf = CLUSTER_HEADER_BYTES /\ scan.total = 0
    BY <1>2, <1>5, <2>1, <2>3, SMT DEF ScanOK
  <2>5. k + 1 = 2
    BY SMT
  <2>6. chank.chank_bytes = layout.start[2] - p
    BY <1>3, <2>5
  <2>7. layout.start[2] \in Nat
    BY <1>4, <2>5
  <2> HIDE DEF chank
  <2>8. total = layout.start[2] - CLUSTER_HEADER_BYTES
    BY <2>1, <2>4, <2>6, <2>7, SMT
  <2> QED
    BY <2>3, <2>8
<1> HIDE DEF p, chank, total, status
<1>9. /\ scan'.buf = scan.buf /\ scan'.req = scan.req
      /\ scan'.branch = scan.branch
      /\ scan'.total = total /\ scan'.status = status
      /\ scan' \in ScanType
  <2>1. scan' = [scan EXCEPT !.total = total, !.status = status]
    BY <1>1
  <2>2. total \in Nat /\ status \in 0..3
    BY <1>6, <1>7
  <2> QED
    BY <1>2, <2>1, <2>2 DEF ScanType
<1>10. Boundary(scan.buf + scan.total)'
  <2>1. scan'.buf + scan'.total = layout.start[k + 1]
    BY <1>6, <1>9
  <2> QED
    BY <1>1, <1>4, <2>1 DEF Boundary
<1>11. ScanOK'
  <2>1. 0 # total /\ k \in Chanks
    BY <1>6, SMT
  <2>2. scan'.status = 0 <=> scan'.total = 0
    BY <1>7, <1>9, <2>1
  <2>3. /\ scan'.branch # "init" => /\ info.pos > CLUSTER_HEADER_BYTES
                                    /\ scan'.status # ONLY_TIMECODE
        /\ scan'.status = ONLY_TIMECODE =>
              scan'.total = layout.start[2] - CLUSTER_HEADER_BYTES
    BY <1>2, <1>7, <1>8, <1>9 DEF ScanOK
  <2>4. scan'.status \in {0, 1, ONLY_TIMECODE}
    BY <1>7, <1>9
  <2>5. scan'.total <= scan'.req
    BY <1>1, <1>9 DEF total
  <2> QED
    BY <1>1, <1>2, <1>9, <1>10, <2>2, <2>3, <2>4, <2>5 DEF ScanOK
<1>12. TypeOK'
  BY <1>1, <1>9 DEF IInv, TypeOK, ScanType
<1> QED
  BY <1>1, <1>11, <1>12 DEF IInv

\* The first piece of a simple block that does not fit fills the block, and
\* the pieces it counts are those the simple block needs.
LEMMA FirstPieceOK ==
    ASSUME IsLayout(layout), FitsPieces(layout),
           NEW i \in InfoType, NEW k \in Chanks,
           i.pos + i.bytes = layout.start[k],
           i.total_piece_bytes = i.bytes, i.bytes <= MAX_BLOCK_BYTES,
           NEW req, req = MAX_BLOCK_BYTES - i.bytes,
           layout.start[k + 1] - layout.start[k] > req
    PROVE  LET f == FirstPiece(i, layout.start[k], req)
           IN  /\ f \in InfoType /\ f.pos = i.pos
               /\ f.bytes = MAX_BLOCK_BYTES /\ f.status = "PIECE"
               /\ Chain(f, layout.start[k + 1])
<1> DEFINE next == layout.start[k + 1] - layout.start[k]
           t == next + i.bytes
           tb == U16(i.total_piece_bytes + next)
           tp == Pieces(t)
           pos == i.pos
           f == Info(pos, MAX_BLOCK_BYTES, tp, 1, tb, "PIECE")
<1>1. /\ i.pos \in Nat /\ i.bytes \in Nat
      /\ layout.start[k + 1] \in Nat /\ layout.start[k] \in Nat
      /\ layout.start[k] < layout.start[k + 1]
      /\ next <= 254 * MAX_BLOCK_BYTES
  BY InfoFields, Lengths
<1>2. GetChank(layout.start[k]).chank_bytes = next
  BY ChankHere
<1>3. /\ next \in Nat /\ t \in Nat /\ t <= 255 * MAX_BLOCK_BYTES
      /\ t > MAX_BLOCK_BYTES
  BY <1>1, SMT DEF MAX_BLOCK_BYTES
<1>4. /\ tp \in UInt8
      /\ t <= MAX_BLOCK_BYTES * tp /\ t > MAX_BLOCK_BYTES * (tp - 1)
  <2> HIDE DEF t
  <2> QED
    BY <1>3, PiecesEnough
<1>5. tp \in Nat /\ 1 < tp
  <2>1. tp \in Nat
    BY <1>4, Widths
  <2> HIDE DEF tp, t
  <2> QED
    BY <1>3, <1>4, <2>1, SMT DEF MAX_BLOCK_BYTES
<1>6. U16(i.bytes + req) = MAX_BLOCK_BYTES /\ MAX_BLOCK_BYTES \in UInt16
  BY <1>1, SMT DEF U16, UInt16, MAX_BLOCK_BYTES
<1>7. tb \in UInt16 /\ 1 \in UInt8
  <2>1. i.total_piece_bytes + next \in Int
    BY <1>1, <1>3, SMT
  <2> QED
    BY <2>1, U16Type, SMT DEF UInt8
<1>8. FirstPiece(i, layout.start[k], req) = f
  BY <1>2, <1>6 DEF FirstPiece
<1>9. tb = U16(t)
  BY <1>1, <1>3, SMT
<1>10. /\ f \in InfoType /\ f.pos = pos /\ f.bytes = MAX_BLOCK_BYTES
       /\ f.total_pieces = tp /\ f.piece_seq = 1
       /\ f.total_piece_bytes = tb /\ f.status = "PIECE"
  <2>1. pos \in Nat
    BY <1>1
  <2> HIDE DEF pos, tp, tb
  <2> QED
    BY <1>4, <1>6, <1>7, <2>1, InfoIs
<1>11. layout.start[k + 1] - (f.pos + f.bytes) = t - MAX_BLOCK_BYTES
  <2> HIDE DEF f
  <2> QED
    BY <1>1, <1>10, SMT DEF MAX_BLOCK_BYTES
<1>12. t - MAX_BLOCK_BYTES + MAX_BLOCK_BYTES * 1 = t
  BY <1>3, SMT DEF MAX_BLOCK_BYTES
<1> HIDE DEF f, t, tp, tb
<1>13. Chain(f, layout.start[k + 1])
  <2> DEFINE rest == t - MAX_BLOCK_BYTES
  <2>1. /\ 0 <= rest
        /\ rest <= MAX_BLOCK_BYTES * (tp - 1)
        /\ rest > MAX_BLOCK_BYTES * (tp - 1 - 1)
        /\ 1 <= 1 /\ 1 <= tp
    BY <1>3, <1>4, <1>5, SMT DEF MAX_BLOCK_BYTES
  <2>2. tb = U16(rest + MAX_BLOCK_BYTES * 1)
    BY <1>9, <1>12
  <2> HIDE DEF rest
  <2>3. layout.start[k + 1] - (f.pos + f.bytes) = rest
    BY <1>11 DEF rest
  <2> QED
    BY <1>10, <2>1, <2>2, <2>3 DEF Chain
<1> QED
  BY <1>8, <1>10, <1>13

\* The block SendBlock makes, when GetChankByBytes returns.
LEMMA AddBytesIs ==
    ASSUME IInv, pc = "scan"
    PROVE  LET i == AddBytes(info, scan)
           IN  /\ i \in InfoType
               /\ i.pos = info.pos /\ i.bytes = info.bytes + scan.total
               /\ i.bytes <= MAX_BLOCK_BYTES
               /\ i.total_pieces = info.total_pieces
               /\ i.piece_seq = info.piece_seq
               /\ i.total_piece_bytes = info.total_piece_bytes
               /\ i.status = info.status
               /\ i.pos + i.bytes = scan.buf + scan.total
<1>1. ScanOK /\ scan \in ScanType /\ info \in InfoType
  BY DEF IInv, TypeOK, ScanType
<1>2. /\ info.pos \in Nat /\ info.bytes \in Nat
      /\ scan.total \in Nat /\ scan.buf \in Nat /\ scan.req \in Nat
  BY <1>1, InfoFields, SMT DEF ScanType
<1> DEFINE b == info.bytes + scan.total
<1>3. b \in Nat /\ b <= MAX_BLOCK_BYTES /\ info.pos + b = scan.buf + scan.total
  BY <1>1, <1>2, SMT DEF ScanOK, MAX_BLOCK_BYTES
<1>4. U16(b) = b /\ b \in UInt16
  <2> HIDE DEF b
  <2> QED
    BY <1>3, SMT DEF U16, UInt16, MAX_BLOCK_BYTES
<1>5. AddBytes(info, scan) = [info EXCEPT !.bytes = b]
  BY <1>4 DEF AddBytes
<1> HIDE DEF b
<1> DEFINE i == [info EXCEPT !.bytes = b]
<1>6. /\ i \in InfoType /\ i.pos = info.pos /\ i.bytes = b
      /\ i.total_pieces = info.total_pieces
      /\ i.piece_seq = info.piece_seq
      /\ i.total_piece_bytes = info.total_piece_bytes
      /\ i.status = info.status
  BY <1>1, <1>4 DEF InfoType
<1> HIDE DEF i
<1> QED
  BY <1>3, <1>5, <1>6 DEF b, i

\* A block of whole simple blocks.
LEMMA SimpleBlocksIs ==
    ASSUME NEW i \in InfoType
    PROVE  LET b == SimpleBlocks(i)
           IN  /\ b \in InfoType /\ b.pos = i.pos /\ b.bytes = i.bytes
               /\ b.status = "SIMPLEBLOCK"
<1> DEFINE pos == i.pos
           bytes == i.bytes
<1>1. pos \in Nat /\ bytes \in UInt16
  BY SMT DEF InfoType
<1>2. SimpleBlocks(i) = Info(pos, bytes, 0, 0, 0, "SIMPLEBLOCK")
  BY DEF SimpleBlocks
<1> HIDE DEF pos, bytes
<1>3. LET b == Info(pos, bytes, 0, 0, 0, "SIMPLEBLOCK")
      IN  /\ b \in InfoType /\ b.pos = pos /\ b.bytes = bytes
          /\ b.status = "SIMPLEBLOCK"
  BY <1>1, ZeroType, InfoIs
<1> QED
  BY <1>2, <1>3 DEF pos, bytes

\* When chanks were found, the block is made of them.
LEMMA WholeChanks ==
    ASSUME NEW i \in InfoType, NEW ret \in {1, CLUSTER_END},
           scan.branch \in {"init", "fresh", "last"}
    PROVE  LET b == Assigned(i, ret)
           IN  /\ b \in InfoType /\ b.pos = i.pos /\ b.bytes = i.bytes
               /\ b.status \in {"SIMPLEBLOCK", "BLOCK"}
<1>1. ret > 0 /\ ret # 0 /\ ret # ONLY_TIMECODE
  BY SMT DEF CLUSTER_END, ONLY_TIMECODE
<1>2. CASE scan.branch \in {"init", "fresh"}
  <2>1. Assigned(i, ret) = SimpleBlocks(i)
    BY <1>1, <1>2 DEF Assigned, OfInit, OfFresh
  <2> QED
    BY <2>1, SimpleBlocksIs
<1>3. CASE scan.branch = "last"
  <2> DEFINE b == [i EXCEPT !.status = "BLOCK"]
  <2>1. Assigned(i, ret) = b
    BY <1>1, <1>3 DEF Assigned, OfLast
  <2>2. /\ b \in InfoType /\ b.pos = i.pos /\ b.bytes = i.bytes
        /\ b.status = "BLOCK"
    BY DEF InfoType
  <2> HIDE DEF b
  <2> QED
    BY <2>1, <2>2
<1> QED
  BY <1>2, <1>3

\* The id of the next cluster ends the cluster.
LEMMA EndBlockKeeps ==
    ASSUME IInv, SendBlock, Visible(scan)
    PROVE  IInv'
<1> DEFINE i == AddBytes(info, scan)
           b == Assigned(i, CLUSTER_END)
<1>1. /\ pc = "scan" /\ Returned(scan) = CLUSTER_END
      /\ Shift(b) /\ pc' = "end" /\ layout' = layout
  BY DEF SendBlock, Returned
<1>2. ScanOK /\ IsLayout(layout)
  BY <1>1 DEF IInv, TypeOK
<1>3. scan.buf + scan.total = End
  <2>1. GetChank(scan.buf + scan.total).id = "CLUSTER"
    BY DEF Visible
  <2> QED
    BY <1>2, <2>1, AtBoundary DEF ScanOK
<1>4. /\ i \in InfoType /\ i.bytes <= MAX_BLOCK_BYTES
      /\ i.pos + i.bytes = End
  BY <1>1, <1>3, AddBytesIs
<1> HIDE DEF i
<1>5. b \in InfoType /\ b.pos = i.pos /\ b.bytes = i.bytes
  BY <1>2, <1>4, WholeChanks DEF ScanOK
<1> HIDE DEF b
<1>6. prev' = b /\ info' = Blank /\ scan' = NoScan
  BY <1>1 DEF Shift
<1>7. TypeOK'
  <2>1. NoScan \in ScanType
    BY SMT DEF NoScan, ScanType
  <2>2. Blank \in InfoType
    BY ZeroType, InfoIs DEF Blank
  <2> QED
    BY <1>1, <1>5, <1>6, <2>1, <2>2 DEF IInv, TypeOK, ScanType
<1>8. EndsExact'
  BY <1>1, <1>4, <1>5, <1>6 DEF EndsExact, End
<1> QED
  BY <1>1, <1>4, <1>5, <1>6, <1>7, <1>8 DEF IInv

\* Whole chanks go out as one block.
LEMMA ChanksBlockKeeps ==
    ASSUME IInv, SendBlock, ~Visible(scan), scan.status = 1
    PROVE  IInv'
<1> DEFINE i == AddBytes(info, scan)
           b == Assigned(i, 1)
<1>1. /\ pc = "scan" /\ Returned(scan) = 1
      /\ Shift(b) /\ pc' = "next" /\ layout' = layout
  <2>1. 1 # CLUSTER_END
    BY SMT DEF CLUSTER_END
  <2> QED
    BY <2>1 DEF SendBlock, Returned
<1>2. ScanOK /\ scan \in ScanType /\ info \in InfoType
  BY <1>1 DEF IInv, TypeOK, ScanType
<1>3. /\ i \in InfoType /\ i.bytes <= MAX_BLOCK_BYTES /\ i.pos = info.pos
      /\ i.bytes = info.bytes + scan.total
      /\ i.pos + i.bytes = scan.buf + scan.total
  BY <1>1, AddBytesIs
<1> HIDE DEF i
<1>4. b \in InfoType /\ b.pos = i.pos /\ b.bytes = i.bytes
      /\ b.status \in {"SIMPLEBLOCK", "BLOCK"}
  BY <1>2, <1>3, WholeChanks DEF ScanOK
<1> HIDE DEF b
<1>5. 0 < b.bytes
  <2>1. scan.total # 0
    BY <1>2, SMT DEF ScanOK
  <2>2. scan.total \in Nat /\ info.bytes \in Nat
    BY <1>2, InfoFields, SMT DEF ScanType
  <2> QED
    BY <1>3, <1>4, <2>1, <2>2, SMT
<1>6. b.pos >= CLUSTER_HEADER_BYTES
  <2>1. info.pos \in Nat
    BY <1>2, InfoFields
  <2> QED
    BY <1>2, <1>3, <1>4, <2>1, SMT DEF ScanOK, CLUSTER_HEADER_BYTES
<1>7. Boundary(b.pos + b.bytes)
  BY <1>2, <1>3, <1>4 DEF ScanOK
<1> QED
  BY <1>1, <1>3, <1>4, <1>5, <1>6, <1>7, ShiftKeeps

\* What stops a scan that is not at the end: a chank that does not fit.
LEMMA Stopped ==
    ASSUME IInv, SendBlock, ~Visible(scan),
           scan.total + CLUSTER_ID_BYTES <= scan.req
    PROVE  LET p == scan.buf + scan.total
           IN  \E k \in Chanks :
                 /\ p = layout.start[k]
                 /\ GetChank(p).chank_bytes = layout.start[k + 1] - p
                 /\ scan.total + GetChank(p).chank_bytes > scan.req
                 /\ k > 1 => p > CLUSTER_HEADER_BYTES
                 /\ k = 1 => p = CLUSTER_HEADER_BYTES
<1> DEFINE p == scan.buf + scan.total
<1>1. pc = "scan" /\ ~Takes(scan) /\ ScanOK /\ IsLayout(layout)
      /\ FitsPieces(layout) /\ scan \in ScanType
  BY DEF SendBlock, IInv, TypeOK, ScanType
<1>2. GetChank(p).id # "CLUSTER"
  BY DEF Visible
<1>3. PICK k \in Chanks :
         /\ p = layout.start[k]
         /\ GetChank(p).chank_bytes = layout.start[k + 1] - p
         /\ GetChank(p).id = IF k = 1 THEN "TIMECODE" ELSE "SIMPLEBLOCK"
         /\ k > 1 => p > CLUSTER_HEADER_BYTES
         /\ k = 1 => p = CLUSTER_HEADER_BYTES
  BY <1>1, <1>2, AtBoundary DEF ScanOK
<1>4. ~(scan.total + GetChank(p).chank_bytes <= scan.req)
  BY <1>1, <1>3 DEF Takes
<1>5. /\ layout.start[k + 1] \in Nat /\ layout.start[k] \in Nat
      /\ scan.total \in Nat /\ scan.req \in Nat
  BY <1>1, Lengths, SMT DEF ScanType
<1>6. GetChank(p).chank_bytes \in Int
  <2> DEFINE c == GetChank(p).chank_bytes
  <2>1. c = layout.start[k + 1] - layout.start[k]
    BY <1>3
  <2> HIDE DEF c
  <2>2. c \in Int
    BY <1>5, <2>1, SMT
  <2> QED
    BY <2>2 DEF c
<1>7. scan.total + GetChank(p).chank_bytes > scan.req
  <2> DEFINE c == GetChank(p).chank_bytes
  <2>1. c \in Int /\ ~(scan.total + c <= scan.req)
    BY <1>4, <1>6
  <2> HIDE DEF c
  <2>2. scan.total + c > scan.req
    BY <1>5, <2>1, SMT
  <2> QED
    BY <2>2 DEF c
<1> QED
  BY <1>3, <1>7

\* No simple block fits, and none is begun: the first piece of the next one,
\* or the last piece of the one before on its own.
LEMMA NothingFoundKeeps ==
    ASSUME IInv, SendBlock, ~Visible(scan), scan.status = 0
    PROVE  IInv'
<1> DEFINE i == AddBytes(info, scan)
           b == Assigned(i, 0)
<1>1. /\ pc = "scan" /\ Returned(scan) = 0
      /\ Shift(b) /\ pc' = "next" /\ layout' = layout
  <2>1. 0 # CLUSTER_END
    BY SMT DEF CLUSTER_END
  <2> QED
    BY <2>1 DEF SendBlock, Returned
<1>2. /\ ScanOK /\ scan \in ScanType /\ info \in InfoType
      /\ IsLayout(layout) /\ FitsPieces(layout)
  BY <1>1 DEF IInv, TypeOK, ScanType
<1>3. /\ i \in InfoType /\ i.bytes <= MAX_BLOCK_BYTES /\ i.pos = info.pos
      /\ i.bytes = info.bytes + scan.total
      /\ i.total_piece_bytes = info.total_piece_bytes
      /\ i.piece_seq = info.piece_seq /\ i.total_pieces = info.total_pieces
      /\ i.status = info.status
      /\ i.pos + i.bytes = scan.buf + scan.total
  BY <1>1, AddBytesIs
<1>4. scan.total = 0 /\ info.bytes \in Nat /\ info.pos \in Nat
      /\ scan.buf \in Nat /\ scan.buf + scan.total = scan.buf
      /\ info.bytes + scan.total = info.bytes
  BY <1>2, InfoFields, SMT DEF ScanOK, ScanType
<1> HIDE DEF i
<1>5. CASE scan.branch \in {"init", "fresh"}
  <2>1. /\ info.bytes = 0 /\ info.total_piece_bytes = 0
        /\ i.bytes = 0 /\ i.total_piece_bytes = 0
        /\ i.pos = scan.buf /\ scan.req = MAX_BLOCK_BYTES
        /\ MAX_BLOCK_BYTES = MAX_BLOCK_BYTES - i.bytes
        /\ i.pos >= CLUSTER_HEADER_BYTES
    <3>1. info.bytes = 0 /\ info.total_piece_bytes = 0
      BY <1>2, <1>5 DEF ScanOK
    <3> QED
      BY <1>2, <1>3, <1>4, <3>1, SMT
      DEF ScanOK, MAX_BLOCK_BYTES, CLUSTER_HEADER_BYTES
  <2>2. scan.total + CLUSTER_ID_BYTES <= scan.req
    BY <1>4, <2>1, SMT DEF CLUSTER_ID_BYTES, MAX_BLOCK_BYTES
  <2>3. PICK k \in Chanks :
           /\ i.pos = layout.start[k]
           /\ GetChank(i.pos).chank_bytes = layout.start[k + 1] - i.pos
           /\ scan.total + GetChank(i.pos).chank_bytes > scan.req
    BY <1>4, <2>1, <2>2, Stopped
  <2>4. /\ layout.start[k + 1] - layout.start[k] > MAX_BLOCK_BYTES
        /\ i.pos + i.bytes = layout.start[k]
    <3> DEFINE c == GetChank(i.pos).chank_bytes
    <3>1. /\ c = layout.start[k + 1] - layout.start[k]
          /\ scan.total + c > scan.req
          /\ layout.start[k + 1] \in Nat /\ layout.start[k] \in Nat
      BY <1>2, <2>3, Lengths
    <3> HIDE DEF c
    <3> QED
      BY <1>4, <2>1, <2>3, <3>1, SMT
  <2>5. b = FirstPiece(i, i.pos, MAX_BLOCK_BYTES)
    <3>1. ~(0 > 0) /\ 0 # ONLY_TIMECODE /\ "init" # "fresh"
      BY SMT DEF ONLY_TIMECODE
    <3> QED
      BY <1>5, <3>1 DEF Assigned, OfInit, OfFresh
  <2> HIDE DEF b
  <2>6. /\ b \in InfoType /\ b.pos = i.pos
        /\ b.bytes = MAX_BLOCK_BYTES /\ b.status = "PIECE"
        /\ Chain(b, layout.start[k + 1])
    BY <1>2, <1>3, <2>1, <2>3, <2>4, <2>5, FirstPieceOK
  <2>7. 0 < MAX_BLOCK_BYTES /\ MAX_BLOCK_BYTES <= MAX_BLOCK_BYTES
    BY SMT DEF MAX_BLOCK_BYTES
  <2>8. k + 1 \in 1..(layout.n + 1)
    BY <1>2, Lengths
  <2> QED
    BY <1>1, <2>1, <2>6, <2>7, <2>8, ShiftKeeps
<1>6. CASE scan.branch = "last"
  <2>1. b = i
    <3>1. ~(0 > 0)
      BY SMT
    <3> QED
      BY <1>6, <3>1 DEF Assigned, OfLast
  <2>2. /\ i.status = "PIECE" /\ i.bytes > 0
        /\ 1 <= i.piece_seq /\ i.piece_seq = i.total_pieces
        /\ i.pos > CLUSTER_HEADER_BYTES
    BY <1>2, <1>3, <1>4, <1>6 DEF ScanOK
  <2>3. PICK k \in 1..(layout.n + 1) : layout.start[k] = i.pos + i.bytes
    BY <1>2, <1>3 DEF ScanOK, Boundary
  <2>4. Chain(i, layout.start[k])
    <3>1. /\ i.pos \in Nat /\ i.bytes \in Nat
          /\ i.total_pieces \in Nat /\ i.piece_seq \in Nat
      BY <1>3, InfoFields
    <3> QED
      BY <2>2, <2>3, <3>1, SMT DEF Chain, MAX_BLOCK_BYTES
  <2>5. i.pos >= CLUSTER_HEADER_BYTES /\ 0 < i.bytes
    <3>1. i.pos \in Nat /\ i.bytes \in Nat
      BY <1>3, InfoFields
    <3> QED
      BY <2>2, <3>1, SMT DEF CLUSTER_HEADER_BYTES
  <2> HIDE DEF b
  <2> QED
    BY <1>1, <1>3, <2>1, <2>2, <2>4, <2>5, ShiftKeeps
<1> QED
  BY <1>2, <1>5, <1>6 DEF ScanOK

\* The timecode, and behind it the first piece of the first simple block.
LEMMA TimecodeBlockKeeps ==
    ASSUME IInv, SendBlock, ~Visible(scan), scan.status = ONLY_TIMECODE
    PROVE  IInv'
<1> DEFINE i == AddBytes(info, scan)
           b == Assigned(i, ONLY_TIMECODE)
           timecode == GetChank(i.pos).chank_bytes
           only == Info(i.pos, U16(timecode), i.total_pieces, i.piece_seq,
                        U16(timecode), i.status)
<1>1. /\ pc = "scan" /\ Returned(scan) = ONLY_TIMECODE
      /\ Shift(b) /\ pc' = "next" /\ layout' = layout
  <2>1. ONLY_TIMECODE # CLUSTER_END
    BY SMT DEF ONLY_TIMECODE, CLUSTER_END
  <2> QED
    BY <2>1 DEF SendBlock, Returned
<1>2. /\ ScanOK /\ scan \in ScanType /\ info \in InfoType
      /\ IsLayout(layout) /\ FitsPieces(layout)
  BY <1>1 DEF IInv, TypeOK, ScanType
<1>3. /\ scan.branch = "init" /\ info.pos = CLUSTER_HEADER_BYTES
      /\ info.bytes = 0
      /\ scan.total = layout.start[2] - CLUSTER_HEADER_BYTES
  <2>1. "init" # "last"
    OBVIOUS
  <2> QED
    BY <1>2, <2>1 DEF ScanOK
<1>4. /\ i \in InfoType /\ i.pos = CLUSTER_HEADER_BYTES
  BY <1>1, <1>3, AddBytesIs
<1>5. /\ layout.start[1] = CLUSTER_HEADER_BYTES /\ 1 \in Chanks /\ 1 + 1 = 2
      /\ layout.start[2] \in Nat /\ layout.start[1] \in Nat
      /\ layout.start[1] < layout.start[2]
      /\ layout.start[2] - layout.start[1] + CLUSTER_ID_BYTES
            < MAX_BLOCK_BYTES
  <2>1. 1 \in Chanks /\ 1 + 1 = 2
    BY <1>2, StartsInOrder, SMT DEF Chanks
  <2>2. layout.start[1 + 1] \in Nat /\ layout.start[1] \in Nat
        /\ layout.start[1] < layout.start[1 + 1]
    BY <1>2, <2>1, Lengths
  <2> QED
    BY <1>2, <2>1, <2>2, StartsInOrder DEF FitsPieces
<1> DEFINE tc == layout.start[2] - CLUSTER_HEADER_BYTES
<1>6. timecode = tc
  <2>1. GetChank(layout.start[1]).chank_bytes
          = layout.start[1 + 1] - layout.start[1]
    BY <1>2, <1>5, ChankHere
  <2> QED
    BY <1>4, <1>5, <2>1
<1>7. /\ tc \in Nat /\ 0 < tc /\ tc + CLUSTER_ID_BYTES < MAX_BLOCK_BYTES
      /\ tc <= 65535 /\ tc <= MAX_BLOCK_BYTES
      /\ CLUSTER_HEADER_BYTES + tc = layout.start[2]
  BY <1>5, SMT DEF MAX_BLOCK_BYTES, CLUSTER_HEADER_BYTES, CLUSTER_ID_BYTES
<1> HIDE DEF i, tc
<1>8. U16(tc) = tc /\ tc \in UInt16
  <2>1. U16(tc) = tc
    BY <1>7, U16Same
  <2>2. tc \in Int
    BY <1>7, SMT
  <2>3. U16(tc) \in UInt16
    BY <2>2, U16Type
  <2> QED
    BY <2>1, <2>3
<1> DEFINE pos == i.pos
           tp == i.total_pieces
           ps == i.piece_seq
           st == i.status
<1>9. /\ pos \in Nat /\ tp \in UInt8 /\ ps \in UInt8
      /\ st \in {"NONE", "INIT", "PIECE", "SIMPLEBLOCK", "BLOCK"}
  BY <1>4, SMT DEF InfoType
<1> DEFINE o == Info(pos, tc, tp, ps, tc, st)
<1>10. only = o
  BY <1>6, <1>8
<1>11. o \in InfoType /\ o.pos = pos /\ o.bytes = tc
       /\ o.total_piece_bytes = tc
  <2> HIDE DEF pos, tp, ps, st
  <2> QED
    BY <1>8, <1>9, InfoIs
<1>12. b = FirstPiece(only, i.pos + only.bytes, MAX_BLOCK_BYTES - only.bytes)
  <2>1. ONLY_TIMECODE # 0
    BY SMT DEF ONLY_TIMECODE
  <2> QED
    BY <1>3, <2>1 DEF Assigned, OfInit
<1>13. b = FirstPiece(o, CLUSTER_HEADER_BYTES + tc, MAX_BLOCK_BYTES - tc)
  BY <1>4, <1>10, <1>11, <1>12
<1> HIDE DEF b, o
<1>14. /\ scan.buf + scan.total = layout.start[2]
       /\ scan.total = tc /\ scan.req = MAX_BLOCK_BYTES
  BY <1>2, <1>3, <1>7, SMT
  DEF ScanOK, tc, CLUSTER_HEADER_BYTES, MAX_BLOCK_BYTES
<1>15. scan.total + CLUSTER_ID_BYTES <= scan.req
  BY <1>7, <1>14, SMT DEF CLUSTER_ID_BYTES, MAX_BLOCK_BYTES
<1>16. PICK k \in Chanks :
          /\ layout.start[2] = layout.start[k]
          /\ GetChank(layout.start[2]).chank_bytes
                = layout.start[k + 1] - layout.start[2]
          /\ scan.total + GetChank(layout.start[2]).chank_bytes > scan.req
  BY <1>14, <1>15, Stopped
<1>17. layout.start[k + 1] - layout.start[k] > MAX_BLOCK_BYTES - tc
  <2> DEFINE c == GetChank(layout.start[2]).chank_bytes
  <2>1. /\ c = layout.start[k + 1] - layout.start[k]
        /\ scan.total + c > scan.req
        /\ layout.start[k + 1] \in Nat /\ layout.start[k] \in Nat
    BY <1>2, <1>16, Lengths
  <2> HIDE DEF c
  <2> QED
    BY <1>7, <1>14, <2>1, SMT DEF MAX_BLOCK_BYTES
<1>18. /\ b \in InfoType /\ b.pos = o.pos
       /\ b.bytes = MAX_BLOCK_BYTES /\ b.status = "PIECE"
       /\ Chain(b, layout.start[k + 1])
  <2>1. /\ o.pos + o.bytes = layout.start[k]
        /\ CLUSTER_HEADER_BYTES + tc = layout.start[k]
        /\ MAX_BLOCK_BYTES - tc = MAX_BLOCK_BYTES - o.bytes
    BY <1>4, <1>7, <1>11, <1>16
  <2> QED
    BY <1>2, <1>7, <1>11, <1>13, <1>17, <2>1, FirstPieceOK
<1>19. /\ 0 < MAX_BLOCK_BYTES /\ MAX_BLOCK_BYTES <= MAX_BLOCK_BYTES
       /\ b.pos >= CLUSTER_HEADER_BYTES
  BY <1>4, <1>11, <1>18, SMT DEF MAX_BLOCK_BYTES, CLUSTER_HEADER_BYTES
<1>20. k + 1 \in 1..(layout.n + 1)
  BY <1>2, Lengths
<1> QED
  BY <1>1, <1>18, <1>19, <1>20, ShiftKeeps

LEMMA SendBlockKeeps == ASSUME IInv, SendBlock PROVE IInv'
<1>1. scan.status \in {0, 1, ONLY_TIMECODE}
  BY DEF SendBlock, IInv, ScanOK
<1> QED
  BY <1>1, EndBlockKeeps, NothingFoundKeeps, ChanksBlockKeeps,
     TimecodeBlockKeeps

LEMMA RenewBlockKeeps == ASSUME IInv, RenewBlock PROVE IInv'
<1>1. /\ pc = "end" /\ layout' \in Layouts /\ prev' = FirstOfCluster
      /\ pc' = "next" /\ info' = info /\ scan' = scan
  BY DEF RenewBlock
<1>2. IsLayout(layout') /\ FitsPieces(layout')
  BY <1>1, LayoutsAssumption
<1>3. FirstOfCluster \in InfoType
  BY ZeroType, InfoIs DEF FirstOfCluster
<1>4. TypeOK'
  BY <1>1, <1>2, <1>3 DEF IInv, TypeOK
<1>5. PrevOK'
  BY <1>1, SMT DEF PrevOK, FirstOfCluster, Info, CLUSTER_HEADER_BYTES,
                   MAX_BLOCK_BYTES
<1> QED
  BY <1>1, <1>4, <1>5 DEF IInv

LEMMA StutterKeeps == ASSUME IInv, UNCHANGED vars PROVE IInv'
<1>1. layout' = layout /\ prev' = prev /\ info' = info /\ scan' = scan
      /\ pc' = pc
  BY DEF vars
<1> QED
  BY <1>1 DEF IInv, TypeOK, PrevOK, ScanOK, EndsExact, Boundary, End

-----------------------------------------------------------------------------
(* The theorems.                                                            *)

LEMMA StepKeeps == IInv /\ [Next]_vars => IInv'
  BY InitBlockKeeps, FreshBlockKeeps, LastPieceKeeps, OtherPieceKeeps,
     ScanChankKeeps, SendBlockKeeps, RenewBlockKeeps, StutterKeeps
  DEF Next, Send

LEMMA AlwaysIInv == Spec => []IInv
  BY InitHolds, StepKeeps, PTL DEF Spec

\* No field of struct BlockInfo leaves its width, and the bytes of a last
\* piece never are negative: GetNextBlockByBytes.
THEOREM TypeOKHolds == Spec => []TypeOK
<1>1. IInv => TypeOK
  BY DEF IInv
<1> QED
  BY <1>1, AlwaysIInv, PTL

\* GetChankByBytes only parses where a chank starts or the cluster ends,
\* whatever the lengths of its simple blocks.
THEOREM AlignedHolds == Spec => []Aligned
<1>1. IInv => Aligned
  BY DEF IInv, ScanOK, Aligned
<1> QED
  BY <1>1, AlwaysIInv, PTL

\* No block of SendCacheBlock is longer than MAX_BLOCK_BYTES.
THEOREM FitsPacketHolds == Spec => []FitsPacket
<1>1. IInv => FitsPacket
  BY DEF IInv, PrevOK, FitsPacket, TypeOK
<1> QED
  BY <1>1, AlwaysIInv, PTL

\* The sender goes on to the next cluster at the last byte of this one, not
\* before and not behind it.
THEOREM EndsExactHolds == Spec => []EndsExact
<1>1. IInv => EndsExact
  BY DEF IInv, EndsExact
<1> QED
  BY <1>1, AlwaysIInv, PTL

\* No block is empty but the one that ends a cluster.
THEOREM AdvancesHolds == Spec => []Advances
<1>1. IInv => Advances
  BY DEF IInv, PrevOK, Advances
<1> QED
  BY <1>1, AlwaysIInv, PTL

=============================================================================
