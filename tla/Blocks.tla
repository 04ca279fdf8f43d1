------------------------------- MODULE Blocks -------------------------------
(***************************************************************************)
(* How a sender cuts the clusters of its file into blocks that fit a       *)
(* packet: GetNextBlockByBytes and what it calls (webm_parser.c), as       *)
(* SendCacheBlock and SendMulStream (p2p.c) use it for one child.          *)
(*                                                                         *)
(* A cluster is a header, a timecode and simple blocks, given by where     *)
(* each of them starts; the next cluster (or the cues) follows it.  A      *)
(* block is as many of them as fit MAX_BLOCK_BYTES, or one piece of a      *)
(* simple block that does not fit.  One action is one pass of the loop of  *)
(* GetChankByBytes, or the code before or after that loop.  The buffer     *)
(* behind the MAX_BLOCK_BYTES read from the file holds zeros, as in        *)
(* SendCacheBlock.                                                         *)
(***************************************************************************)
EXTENDS Integers

CONSTANT Layouts   \* the clusters of the file

MAX_BLOCK_BYTES == 1000
CLUSTER_HEADER_BYTES == 12
CLUSTER_ID_BYTES == 4

\* Fields of struct BlockInfo: total_pieces and piece_seq are u8, the bytes
\* are u16.
UInt8 == 0..255
UInt16 == 0..65535
U8(x) == x % 256
U16(x) == x % 65536

\* start[k] is where the k-th chank of the cluster starts, start[n + 1] where
\* the cluster ends.
IsLayout(c) ==
    /\ c.n \in Nat \ {0}
    /\ c.start \in [1..(c.n + 1) -> Nat]
    /\ c.start[1] = CLUSTER_HEADER_BYTES
    /\ \A j, k \in 1..(c.n + 1) : j < k => c.start[j] < c.start[k]

\* A simple block has no more pieces than a u8 counts, the timecode that may
\* go out with it included, and the timecode leaves room for the next id.
FitsPieces(c) ==
    /\ \A k \in 1..c.n : c.start[k + 1] - c.start[k] <= 254 * MAX_BLOCK_BYTES
    /\ c.start[2] - c.start[1] + CLUSTER_ID_BYTES < MAX_BLOCK_BYTES

ASSUME LayoutsAssumption == \A c \in Layouts : IsLayout(c) /\ FitsPieces(c)

VARIABLES
    layout,  \* the cluster being sent
    prev,    \* block->prev->info
    info,    \* block->info
    scan,    \* the call of GetChankByBytes: buf, req and its locals
    pc       \* where the sender is: "next", "scan" for the branches of
             \* GetNextBlockByBytes, "end" after CLUSTER_END

vars == <<layout, prev, info, scan, pc>>

\* struct BlockInfo, without the sequence numbers.
Info(pos, bytes, total_pieces, piece_seq, total_piece_bytes, status) ==
    [pos |-> pos, bytes |-> bytes, total_pieces |-> total_pieces,
     piece_seq |-> piece_seq, total_piece_bytes |-> total_piece_bytes,
     status |-> status]

Blank == Info(0, 0, 0, 0, 0, "NONE")

\* What RenewBlock leaves in block->prev->info.
FirstOfCluster == Info(CLUSTER_HEADER_BYTES, 0, 0, 0, 0, "INIT")

NoScan == [buf |-> 0, req |-> 0, total |-> 0, status |-> 0, branch |-> "none"]

CLUSTER_END == 2
ONLY_TIMECODE == 3

Init ==
    /\ layout \in Layouts
    /\ prev = FirstOfCluster /\ info = Blank /\ scan = NoScan
    /\ pc = "next"

-----------------------------------------------------------------------------
(* What is in the file.                                                     *)

Chanks == 1..layout.n
End == layout.start[layout.n + 1]

Boundary(p) == \E k \in 1..(layout.n + 1) : layout.start[k] = p

\* GetChank at byte p of the cluster: the id and chank_bytes.  In the middle
\* of a chank it reads payload.
GetChank(p) ==
    IF \E k \in Chanks : layout.start[k] = p
    THEN LET k == CHOOSE j \in Chanks : layout.start[j] = p
         IN  [id |-> IF k = 1 THEN "TIMECODE" ELSE "SIMPLEBLOCK",
              chank_bytes |-> layout.start[k + 1] - layout.start[k]]
    ELSE [id |-> IF p = End THEN "CLUSTER" ELSE "UNKNOWN",
          chank_bytes |-> CLUSTER_HEADER_BYTES]

-----------------------------------------------------------------------------
(* GetChankByBytes.                                                         *)

\* The id of the next cluster is recognised when the buffer holds all of it.
Visible(s) == /\ GetChank(s.buf + s.total).id = "CLUSTER"
              /\ s.total + CLUSTER_ID_BYTES <= s.req

\* One more chank is taken when it is known and fits.
Takes(s) ==
    LET chank == GetChank(s.buf + s.total)
    IN  /\ chank.id \in {"TIMECODE", "SIMPLEBLOCK"}
        /\ s.total + chank.chank_bytes <= s.req

ScanChank ==
    /\ pc = "scan" /\ Takes(scan)
    /\ LET chank == GetChank(scan.buf + scan.total)
       IN  scan' = [scan EXCEPT
                      !.total = @ + chank.chank_bytes,
                      !.status = IF chank.id = "TIMECODE" THEN ONLY_TIMECODE
                                 ELSE 1]
    /\ UNCHANGED <<layout, prev, info, pc>>

\* What the call returns, and block->info after it.
Returned(s) == IF Visible(s) THEN CLUSTER_END ELSE s.status
AddBytes_Set(i, s) == [i EXCEPT !.bytes = U16(s.total)]
AddBytes(i, s) == [i EXCEPT !.bytes = U16(@ + s.total)]

-----------------------------------------------------------------------------
(* AssignBlockInfoByPiece and AssignBlockInfoBySB.                          *)

\* ceil( t / MAX_BLOCK_BYTES ) as a u8.
Pieces_Floor(t) == U8(t \div MAX_BLOCK_BYTES)
Pieces(t) == U8((t + MAX_BLOCK_BYTES - 1) \div MAX_BLOCK_BYTES)

\* The first piece of the chank at p (first_flag).
FirstPiece(i, p, req) ==
    LET next == GetChank(p).chank_bytes
    IN  Info(i.pos, U16(i.bytes + req), Pieces(next + i.bytes), 1,
             U16(i.total_piece_bytes + next), "PIECE")

\* A piece after the first (other_flag, last_flag).
NextPiece(i, bytes) ==
    Info(i.pos, bytes, prev.total_pieces, U8(prev.piece_seq + 1),
         prev.total_piece_bytes, "PIECE")

LastBytes_Int ==
    prev.total_piece_bytes - MAX_BLOCK_BYTES * prev.piece_seq
LastBytes ==
    U16(prev.total_piece_bytes - MAX_BLOCK_BYTES * prev.piece_seq)

SimpleBlocks(i) == Info(i.pos, i.bytes, 0, 0, 0, "SIMPLEBLOCK")

-----------------------------------------------------------------------------
(* GetNextBlockByBytes.                                                     *)

IsCurrentPieceLast ==
    prev.status = "PIECE" /\ prev.total_pieces = prev.piece_seq + 1
IsPrevPieceLast ==
    prev.status = "PIECE" /\ prev.total_pieces = prev.piece_seq

\* The block starts where the one before it ended.
Placed == [info EXCEPT !.pos = IF prev.status = "INIT"
                               THEN CLUSTER_HEADER_BYTES
                               ELSE prev.pos + prev.bytes]

\* GetChankByBytes is called for block i.
Call(i, buf, req, branch) ==
    /\ info' = i
    /\ scan' = [buf |-> buf, req |-> req, total |-> 0, status |-> 0,
                branch |-> branch]
    /\ pc' = "scan"
    /\ UNCHANGED <<layout, prev>>

\* The first block of a cluster.
InitBlock ==
    /\ pc = "next" /\ prev.status = "INIT"
    /\ Call(Placed, Placed.pos, MAX_BLOCK_BYTES, "init")

\* The block before was not a piece, or the last one of its simple block.
FreshBlock ==
    /\ pc = "next"
    /\ \/ prev.status \in {"SIMPLEBLOCK", "BLOCK"}
       \/ IsPrevPieceLast /\ ~IsCurrentPieceLast
    /\ Call(Placed, Placed.pos, MAX_BLOCK_BYTES, "fresh")

\* The last piece, and behind it what still fits the block.
Room_Whole(bytes) == MAX_BLOCK_BYTES
Room(bytes) == MAX_BLOCK_BYTES - bytes

LastPiece ==
    /\ pc = "next" /\ IsCurrentPieceLast
    /\ LET i == NextPiece(Placed, LastBytes)
       IN  Call(i, i.pos + i.bytes, Room(i.bytes), "last")

\* ShiftToPreBlock: the block is sent and the next one comes.
Shift(i) ==
    /\ prev' = i /\ info' = Blank
    /\ scan' = NoScan

OtherPiece ==
    /\ pc = "next" /\ prev.status = "PIECE"
    /\ ~IsCurrentPieceLast /\ ~IsPrevPieceLast
    /\ Shift(NextPiece(Placed, MAX_BLOCK_BYTES))
    /\ UNCHANGED <<layout, pc>>

\* What the branches make of the block when GetChankByBytes returns ret.
OfInit(i, ret) ==
    LET timecode == GetChank(i.pos).chank_bytes
        only == Info(i.pos, U16(timecode), i.total_pieces, i.piece_seq,
                     U16(timecode), i.status)
    IN  CASE ret = 0 -> FirstPiece(i, i.pos, MAX_BLOCK_BYTES)
          [] ret = ONLY_TIMECODE ->
               FirstPiece(only, i.pos + only.bytes,
                          MAX_BLOCK_BYTES - only.bytes)
          [] OTHER -> SimpleBlocks(i)
OfFresh_Block(i, ret) == SimpleBlocks(i)
OfFresh(i, ret) == IF ret > 0 THEN SimpleBlocks(i)
                   ELSE FirstPiece(i, i.pos, MAX_BLOCK_BYTES)
OfLast(i, ret) == IF ret > 0 THEN [i EXCEPT !.status = "BLOCK"] ELSE i

Assigned(i, ret) ==
    CASE scan.branch = "init" -> OfInit(i, ret)
      [] scan.branch = "fresh" -> OfFresh(i, ret)
      [] OTHER -> OfLast(i, ret)

\* GetChankByBytes returns, the block is sent, and SendMulStream shifts it or
\* goes on to the next cluster.
SendBlock ==
    /\ pc = "scan" /\ (Visible(scan) \/ ~Takes(scan))
    /\ Shift(Assigned(AddBytes(info, scan), Returned(scan)))
    /\ pc' = IF Returned(scan) = CLUSTER_END THEN "end" ELSE "next"
    /\ UNCHANGED layout

RenewBlock ==
    /\ pc = "end"
    /\ layout' \in Layouts
    /\ prev' = FirstOfCluster
    /\ pc' = "next"
    /\ UNCHANGED <<info, scan>>

Send == InitBlock \/ FreshBlock \/ LastPiece \/ OtherPiece
        \/ ScanChank \/ SendBlock

Next == Send \/ RenewBlock

\* The main loop calls SendMulStream as long as the child is behind; the next
\* cluster may never be recorded.
Spec == Init /\ [][Next]_vars /\ WF_vars(Send)

-----------------------------------------------------------------------------
(* Properties.                                                              *)

\* The fields of struct BlockInfo stay in their widths.
InfoType ==
    [pos : Nat, bytes : UInt16, total_pieces : UInt8, piece_seq : UInt8,
     total_piece_bytes : UInt16,
     status : {"NONE", "INIT", "PIECE", "SIMPLEBLOCK", "BLOCK"}]
TypeOK ==
    /\ IsLayout(layout) /\ FitsPieces(layout)
    /\ prev \in InfoType /\ info \in InfoType
    /\ scan \in [buf : Nat, req : Nat, total : Nat, status : 0..3,
                 branch : {"none", "init", "fresh", "last"}]
    /\ pc \in {"next", "scan", "end"}

\* GetChank only ever reads an id and a size where there are an id and a
\* size: after any number of blocks and pieces, a chank that is parsed starts
\* where a chank starts, so no payload is taken for a header.
Aligned == pc = "scan" => Boundary(scan.buf + scan.total)

\* No block is longer than the buffers and the packets it is copied into.
FitsPacket == pc # "scan" => prev.bytes <= MAX_BLOCK_BYTES

\* When the sender goes on to the next cluster, the blocks it sent, each from
\* the end of the one before, end with the last byte of the cluster.
EndsExact == pc = "end" => prev.pos + prev.bytes = End

\* Every block but one that ends a cluster has bytes in it.
Advances == pc = "next" /\ prev.status # "INIT" => prev.bytes > 0

\* Every cluster is sent to its end: the sender never turns on one place.
ClusterSent == pc = "next" ~> pc = "end"

=============================================================================
