---------------------------- MODULE BlockStream ----------------------------
(***************************************************************************)
(* How the stream travels down the overlay: the origin reads the clusters  *)
(* of a growing WebM file block by block, every node sends each of its     *)
(* children the next block that is old enough, and a peer assembles what   *)
(* it receives into a file of its own, from which it serves its children.  *)
(* Translated from src/src/common/webm_parser.c, SendMulStream and         *)
(* SendCacheBlock of src/src/common/p2p.c, and the main loops of the       *)
(* origin and the peer.                                                    *)
(*                                                                         *)
(* Who joins where is given, and a peer whose parent is gone finds another *)
(* one (Overlay models how).  A block is one unit: its pieces, bytes and   *)
(* byte positions are in Blocks, and the size in a cluster header counts   *)
(* blocks.  What a block carries is <<c, s>>, the s-th block of cluster c  *)
(* as the origin first read it; only the first of a cluster begins with    *)
(* the Timecode, whose arithmetic is left out.  A block is longer than the *)
(* headers of all the clusters in a file (12 bytes each).                  *)
(* Sequence numbers do not wrap.                                           *)
(*                                                                         *)
(* An operator F_Fault is F with a plausible mistake in it; nothing uses   *)
(* it.  Putting it in the place of F shows which property notices.         *)
(***************************************************************************)
EXTENDS Integers, Sequences, SequencesExt, FiniteSets

CONSTANTS
    Origin, Peers,
    Parent,       \* the node each peer joins
    Nobody,       \* the server of a peer that has not joined
    Sizes,        \* how many blocks each cluster the recorder writes has
    Lead,         \* how many of them it has written when the origin starts
    DefaultCache, \* DEFAULT_CACHE, in blocks
    Fresh,        \* what malloc may leave in the seq of a new cluster
    Budget,       \* how many blocks may be lost, repeated and overtaken,
                  \* and how many SIGINTs there are
    Faults        \* how many of these there may be in all

Nodes == {Origin} \cup Peers

ASSUME TreeAssumption ==
    Origin \notin Peers /\ Nobody \notin Nodes /\ Parent \in [Peers -> Nodes]
ASSUME SizesAssumption == Sizes \in Seq(Nat \ {0}) /\ Lead \in 0..Len(Sizes)
ASSUME CacheAssumption == DefaultCache \in Nat \ {0}
ASSUME FreshAssumption == Fresh \subseteq Nat /\ Fresh # {}
ASSUME BudgetAssumption ==
    Budget \in [{"loss", "dup", "reorder", "sigint"} -> Nat] /\ Faults \in Nat

Empty == <<"no bytes">>  \* a block of length 0
Junk  == <<"no block">>  \* 1000 bytes that are not a block

VARIABLES
    node,    \* the stream state of each node, as a record
    server,  \* the node that has each peer in a child slot
    sent,    \* CURRENT_CHILD_BLOCK[..]->prev->info of each peer, at its server
    net,     \* packets in flight to each peer from its server, oldest first
    budget

vars == <<node, server, sent, net, budget>>

Spent(kinds) == \E k \in kinds : budget[k] < Budget[k]
Spend(kind) ==
    /\ budget[kind] > 0
    /\ LET Left(b) == b["loss"] + b["dup"] + b["reorder"] + b["sigint"]
       IN  Left(Budget) - Left(budget) < Faults
    /\ budget' = [budget EXCEPT ![kind] = @ - 1]

\* What a node keeps: the file as a sequence of clusters, FIRST_CLUSTER_SEQ,
\* whether no cluster has been begun (IS_FIRST_CLUSTER of a peer, the option
\* of CURRENT_CLUSTER->prev at the origin), CURRENT_CLUSTER->prev->seq and
\* CURRENT_CLUSTER->seq, LATEST_BLOCK_SEQ, the cluster and seq of
\* CURRENT_BLOCK->prev->info, TOTAL_BLOCK_NUM (of a peer), IS_BEGIN_PLAYING,
\* the blocks CURRENT_BLOCKINFO holds for the next update of the header,
\* whether the origin is inside a cluster, whether the thread that streams is
\* stuck in CalOffset, the SIGINTs so far (SIG_INT_COUNT at the origin), and
\* whether the process is there.
Blank == [file |-> <<>>, first |-> 0, isFirst |-> TRUE,
          prevSeq |-> 0, curSeq |-> 0, latest |-> 0,
          block |-> [cluster |-> 0, seq |-> 0],
          total |-> 0, playing |-> FALSE, pending |-> 0,
          reading |-> FALSE, stuck |-> FALSE, sigints |-> 0, up |-> TRUE]

\* A cluster in a file: its blocks, and how many of them its header counts.
Cluster(seq, data, size) == [seq |-> seq, data |-> data, size |-> size]

\* The clusters the recorder writes for the origin.
Recorded ==
    [c \in 1..Len(Sizes) |->
       Cluster(c - 1, [s \in 1..Sizes[c] |-> <<c - 1, s>>], Sizes[c])]

-----------------------------------------------------------------------------
(* Which blocks are old: a sender asks this of the last block it sent to a  *)
(* child, a receiver of the block that has arrived.                         *)

\* The seq is compared within the last complete cluster, although
\* LATEST_BLOCK_SEQ counts in the current one.
IsOldBlockSeq_Current(st, info) ==
    \/ info.cluster < st.curSeq
    \/ info.cluster = st.curSeq /\ info.seq <= st.latest
IsOldBlockSeq_Equal(st, info) ==
    info.cluster = st.prevSeq /\ info.seq <= st.latest
IsOldBlockSeq(st, info) ==
    \/ info.cluster < st.prevSeq
    \/ info.cluster = st.prevSeq /\ info.seq <= st.latest

ShiftToPreCluster(st) == [st EXCEPT !.prevSeq = st.curSeq, !.curSeq = 0]

-----------------------------------------------------------------------------
(* Sending.                                                                 *)

\* The thread that streams: the one that reads the packets of a peer, and
\* main at the origin, which the second SIGINT leaves in pthread_join for a
\* thread that never ends.
Runs(n) == /\ node[n].up /\ ~node[n].stuck
           /\ n = Origin => node[n].sigints < 2

\* CalOffset counts cluster headers from FIRST_CLUSTER_SEQ; the difference
\* is unsigned, so from an earlier cluster it counts some four billion.
Reachable(st, cluster) == cluster >= st.first

\* A block is the last of its cluster when a cluster header follows.  The
\* recorder leaves one behind the last cluster of the origin's file, a peer
\* only when the next cluster has begun, and there SearchWebM stops at
\* TOTAL_FILE_BYTES, which leaves out the cluster headers: of a peer's file it
\* cuts the last block.
Followed(n, st, j) ==
    n = Origin \/ \E k \in (j + 1)..Len(st.file) : st.file[k].data # <<>>

\* What GetNextBlockByBytes finds behind the block `info` in the file, and
\* whether it returns CLUSTER_END.
NextInFile(n, st, info) ==
    LET j == info.cluster - st.first + 1
        s == info.seq + 1
        last == Len(st.file[j].data)
    IN  CASE j <= Len(st.file) /\ s < last ->
               [data |-> st.file[j].data[s], end |-> FALSE]
          [] j <= Len(st.file) /\ s >= last /\ Followed(n, st, j) ->
               [data |-> IF s = last THEN st.file[j].data[s] ELSE Empty,
                end |-> TRUE]
          [] OTHER -> [data |-> Junk, end |-> FALSE]

RenewBlock_Same(info) == [cluster |-> info.cluster, seq |-> 0]
RenewBlock_Second(info) == [cluster |-> info.cluster + 1, seq |-> 1]
RenewBlock(info) == [cluster |-> info.cluster + 1, seq |-> 0]

ShiftToPreBlock(info) == [info EXCEPT !.seq = @ + 1]

\* SendCacheBlock: the packet, and CURRENT_CHILD_BLOCK after it.
CacheBlock(n, st, info) ==
    [type |-> "BLOCK", cluster |-> info.cluster, seq |-> info.seq + 1,
     data |-> NextInFile(n, st, info).data]
After(n, st, info) ==
    IF NextInFile(n, st, info).end THEN RenewBlock(info)
    ELSE ShiftToPreBlock(info)

\* n's state becomes st, then it sends a block to every child that is due
\* one; queues are the packets in flight before.  The children whose slots
\* come before that of one it cannot reach in the file get theirs.
SendMulStream(n, st, queues) ==
    LET due == {c \in Peers : server[c] = n /\ IsOldBlockSeq(st, sent[c])}
        far == {c \in due : ~Reachable(st, sent[c].cluster)}
    IN  \E C \in IF far = {} THEN {due} ELSE SUBSET (due \ far) :
          /\ node' = [node EXCEPT ![n] = [st EXCEPT !.stuck = far # {}]]
          /\ sent' = [c \in Peers |-> IF c \in C THEN After(n, st, sent[c])
                                      ELSE sent[c]]
          /\ net' = [c \in Peers |->
                       IF c \in C /\ node[c].up
                       THEN Append(queues[c], CacheBlock(n, st, sent[c]))
                       ELSE queues[c]]

\* The loops in which UpdateClusterFromWebM waits for the recorder, and the
\* frames a peer reads that are not for it.
Stream(n) ==
    /\ Runs(n)
    /\ IF n = Origin THEN ~node[n].reading ELSE node[n].playing
    /\ SendMulStream(n, node[n], net)
    /\ UNCHANGED <<server, budget>>

-----------------------------------------------------------------------------
(* The main loop of the origin.                                             *)

\* Another program writes the file.
Record ==
    LET file == node[Origin].file IN
    /\ Len(file) < Len(Recorded)
    /\ node' = [node EXCEPT
                  ![Origin].file = Append(file, Recorded[Len(file) + 1])]
    /\ UNCHANGED <<server, sent, net, budget>>

\* UpdateClusterFromWebM, which waits for the whole of the cluster, and
\* RenewClusterForRead.
ReadCluster ==
    LET st == node[Origin]
        seq == IF st.isFirst THEN 0 ELSE st.prevSeq + 1
    IN  /\ Runs(Origin) /\ ~st.reading /\ seq < Len(st.file)
        /\ node' = [node EXCEPT ![Origin] =
                      [st EXCEPT !.curSeq = seq, !.isFirst = FALSE,
                                 !.reading = TRUE]]
        /\ UNCHANGED <<server, sent, net, budget>>

\* The seq and the position of the next block to read.
NextSeq == node[Origin].block.seq + 1
LastOfCluster == NextSeq = Sizes[node[Origin].curSeq + 1]

ReadBlock ==
    LET st == node[Origin] IN
    /\ Runs(Origin) /\ st.reading /\ ~LastOfCluster
    /\ SendMulStream(Origin,
         [st EXCEPT !.latest = NextSeq, !.block = ShiftToPreBlock(@)], net)
    /\ UNCHANGED <<server, budget>>

ReadClusterEnd ==
    LET st == node[Origin] IN
    /\ Runs(Origin) /\ st.reading /\ LastOfCluster
    /\ node' = [node EXCEPT ![Origin] = ShiftToPreCluster(
                  [st EXCEPT !.latest = NextSeq, !.block = RenewBlock(@),
                             !.reading = FALSE])]
    /\ UNCHANGED <<server, sent, net, budget>>

-----------------------------------------------------------------------------
(* Joining.                                                                 *)

\* "Check Cache" of NodeSetup and NodeConnect.
Ready(p) ==
    /\ node[p].up /\ ~node[p].stuck
    /\ p = Origin \/ node[p].total >= DefaultCache

\* NodeSetup up to the header: the child starts with the last complete cluster.
JoinAt(st) == [cluster |-> st.prevSeq, seq |-> 0]

Join(c) ==
    LET p == Parent[c] IN
    /\ server[c] = Nobody /\ node[c].up /\ Ready(p)
    /\ sent' = [sent EXCEPT ![c] = JoinAt(node[p])]
    /\ server' = [server EXCEPT ![c] = p]
    /\ net' = [net EXCEPT ![c] =
                 @ \o <<[type |-> "INITIAL_STATUS",
                         cluster |-> JoinAt(node[p]).cluster],
                        [type |-> "HEADER"]>>]
    /\ UNCHANGED <<node, budget>>

\* NodeRetry once the slot of the parent has expired, by when all it has sent
\* has arrived, with the NodeConnect and NodeAccept that follow: the new one
\* goes on with the cluster after the one c is writing.  A child of c is no
\* candidate.
RetryAt_Again(st) == [cluster |-> st.curSeq, seq |-> 0]
RetryAt(st) == RenewBlock([cluster |-> st.curSeq, seq |-> 0])

Reconnect(c) ==
    /\ server[c] # Nobody /\ node[c].up /\ net[c] = <<>>
    /\ ~node[server[c]].up
    /\ \E p \in {Origin} \cup {q \in Peers \ {c} : server[q] # c} :
          Ready(p) /\ server' = [server EXCEPT ![c] = p]
    /\ sent' = [sent EXCEPT ![c] = RetryAt(node[c])]
    /\ UNCHANGED <<node, net, budget>>

Arrived(n, type) ==
    /\ Runs(n)
    /\ net[n] # <<>>
    /\ Head(net[n]).type = type

Taken(n) == [net EXCEPT ![n] = Tail(@)]

\* InitCluster and InitBlock of NodeInitialStatus.
NodeInitialStatus(n) ==
    /\ Arrived(n, "INITIAL_STATUS")
    /\ \E seq \in Fresh :
          node' = [node EXCEPT ![n] =
                     [@ EXCEPT !.prevSeq = seq,
                        !.block = [cluster |-> Head(net[n]).cluster, seq |-> 0]]]
    /\ net' = Taken(n)
    /\ UNCHANGED <<server, sent, budget>>

-----------------------------------------------------------------------------
(* Assembling.                                                              *)

RenewClusterForWrite(st, seq) ==
    [st EXCEPT !.curSeq = seq, !.file = Append(@, Cluster(seq, <<>>, 0))]

\* The WebM header opens the file and the first cluster.
AssembleHeader(n) ==
    /\ Arrived(n, "HEADER")
    /\ node' = [node EXCEPT ![n] = RenewClusterForWrite(@, @.block.cluster)]
    /\ net' = Taken(n)
    /\ UNCHANGED <<server, sent, budget>>

\* The header of the cluster being written counts the pending block, and the
\* number of those pending starts again at 0.
UpdateClusterToWebM_Again(st) ==
    [st EXCEPT !.file[Len(st.file)].size = @ + st.pending]
UpdateClusterToWebM(st) ==
    [st EXCEPT !.file[Len(st.file)].size = @ + st.pending, !.pending = 0]

CheckClusterSeq(st, m) == st.block.cluster # m.cluster

InsertBlockToCluster(st, m) ==
    LET open == IF CheckClusterSeq(st, m)
                THEN RenewClusterForWrite(
                       ShiftToPreCluster(UpdateClusterToWebM(st)), m.cluster)
                ELSE st
        data == IF m.data = Empty THEN <<>> ELSE <<m.data>>
    IN  [open EXCEPT !.file[Len(open.file)].data = @ \o data,
                     !.pending = Len(data)]

\* A block that is not old: the one before it is counted (MAX_BLOCKS_NUM is
\* 1), and it becomes the latest one.
Assembled(st, m) ==
    [InsertBlockToCluster(UpdateClusterToWebM(st), m) EXCEPT
       !.first = IF st.isFirst THEN m.cluster ELSE @,
       !.isFirst = FALSE,
       !.latest = m.seq,
       !.block = [cluster |-> m.cluster, seq |-> m.seq],
       !.total = @ + 1]

\* Whether the bytes of a block begin with a Timecode.  Of an empty one the
\* receive buffer holds an earlier packet, and 1000 bytes that are not a block
\* may begin with anything.
HasTimecode(data) ==
    IF data \in {Empty, Junk} THEN BOOLEAN ELSE {data[2] = 1}

\* ChangeTimecode looks at the first block of a cluster alone.
TimecodeOutcomes(st, m) ==
    IF IsOldBlockSeq(st, m) \/ m.seq # 1 THEN {TRUE} ELSE HasTimecode(m.data)

\* AssembleBlock and the SendMulStream that follows every packet read.
AssembleBlock(n) ==
    /\ Arrived(n, "BLOCK")
    /\ TRUE \in TimecodeOutcomes(node[n], Head(net[n]))
    /\ LET m == Head(net[n])
           st == IF IsOldBlockSeq(node[n], m) THEN node[n]
                 ELSE Assembled(node[n], m)
       IN  IF st.playing THEN SendMulStream(n, st, Taken(n))
           ELSE /\ node' = [node EXCEPT ![n] = st]
                /\ net' = Taken(n)
                /\ UNCHANGED sent
    /\ UNCHANGED <<server, budget>>

-----------------------------------------------------------------------------
(* The end.                                                                 *)

\* SignalHandler, which only the origin sets, on its main thread.  The first
\* SIGINT sends END to the child slots below CURRENT_CHILD_NUM, which are those
\* of the children while none has left; the second waits for the other two
\* threads, which never end.
SignalHandler ==
    /\ node[Origin].sigints < 2
    /\ Spend("sigint")
    /\ node' = [node EXCEPT ![Origin].sigints = @ + 1]
    /\ net' = [c \in Peers |->
                 IF /\ node[Origin].sigints = 0 /\ node[c].up
                    /\ server[c] = Origin
                 THEN Append(net[c], [type |-> "END"]) ELSE net[c]]
    /\ UNCHANGED <<server, sent>>

\* A process that is gone reads nothing and tells nobody.
Exits(n, st) ==
    /\ node' = [node EXCEPT ![n] = [st EXCEPT !.up = FALSE]]
    /\ net' = [net EXCEPT ![n] = <<>>]
    /\ UNCHANGED <<server, sent>>

\* A peer leaves SIGINT at its default, which ends it where it is, with the
\* pending block in no header.
Interrupt(n) ==
    /\ node[n].up
    /\ Spend("sigint")
    /\ Exits(n, [node[n] EXCEPT !.sigints = 1])

\* AssembleBlock closes the file behind the footer and ends the process.
AssembleEnd(n) ==
    /\ Arrived(n, "END")
    /\ Exits(n, UpdateClusterToWebM(node[n]))
    /\ UNCHANGED budget

\* ChangeTimecode ends the process, once AssembleBlock has counted the pending
\* block, over a first block of a cluster without a Timecode: one a relay
\* sends whose own file lacks the first block.
ChangeTimecode(n) ==
    /\ Arrived(n, "BLOCK")
    /\ FALSE \in TimecodeOutcomes(node[n], Head(net[n]))
    /\ Exits(n, UpdateClusterToWebM(node[n]))
    /\ UNCHANGED budget

-----------------------------------------------------------------------------
\* The TIME thread of a peer finds CURRENT_CACHE == DEFAULT_CACHE.
StartPlaying(n) ==
    /\ node[n].up /\ node[n].total = DefaultCache /\ ~node[n].playing
    /\ node' = [node EXCEPT ![n].playing = TRUE]
    /\ UNCHANGED <<server, sent, net, budget>>

-----------------------------------------------------------------------------
(* The network: UDP, as far as blocks go.                                   *)

\* BLOCK_PROTO: a block or END.
IsBlock(n, k) == k <= Len(net[n]) /\ net[n][k].type \in {"BLOCK", "END"}

Lose(n) ==
    /\ IsBlock(n, 1) /\ Spend("loss")
    /\ net' = Taken(n)
    /\ UNCHANGED <<node, server, sent>>

Duplicate(n) ==
    /\ IsBlock(n, 1) /\ Spend("dup")
    /\ net' = [net EXCEPT ![n] = <<Head(@)>> \o @]
    /\ UNCHANGED <<node, server, sent>>

\* The oldest block is overtaken by the next one.
Reorder(n) ==
    /\ IsBlock(n, 1) /\ IsBlock(n, 2) /\ Spend("reorder")
    /\ net' = [net EXCEPT ![n] = <<@[2], @[1]>> \o SubSeq(@, 3, Len(@))]
    /\ UNCHANGED <<node, server, sent>>

-----------------------------------------------------------------------------
\* The origin has its file and has been through InitCluster and InitBlock.
Init ==
    /\ \E seq \in Fresh :
          node = [n \in Nodes |->
                    IF n = Origin
                    THEN [Blank EXCEPT !.file = SubSeq(Recorded, 1, Lead),
                                       !.prevSeq = seq]
                    ELSE Blank]
    /\ server = [c \in Peers |-> Nobody]
    /\ sent = [c \in Peers |-> [cluster |-> 0, seq |-> 0]]
    /\ net = [c \in Peers |-> <<>>]
    /\ budget = Budget

Receive(n) == NodeInitialStatus(n) \/ AssembleHeader(n) \/ AssembleBlock(n)
              \/ AssembleEnd(n) \/ ChangeTimecode(n)
ReadThrough == ReadCluster \/ ReadBlock \/ ReadClusterEnd

Next ==
    \/ Record \/ ReadThrough
    \/ SignalHandler
    \/ \E n \in Nodes : Stream(n)
    \/ \E n \in Peers : \/ Join(n) \/ Reconnect(n)
                        \/ Receive(n) \/ StartPlaying(n) \/ Interrupt(n)
                        \/ Lose(n) \/ Duplicate(n) \/ Reorder(n)

Spec == Init /\ [][Next]_vars

\* The origin reads on, packets are read, and SendMulStream is called again
\* and again: by the origin's waiting loops, by a peer for every frame its
\* raw socket sees.
Fairness ==
    /\ WF_vars(ReadThrough)
    /\ \A n \in Nodes : WF_vars(Stream(n))
    /\ \A n \in Peers : WF_vars(Receive(n))

FairSpec == Spec /\ Fairness

-----------------------------------------------------------------------------
(* Properties.                                                              *)

\* While every block arrives once and in order, the file of a peer is the
\* origin's from the cluster it started with: the same clusters under the same
\* numbers, none left out, each whole or cut short at its end.  Only the one
\* being written is cut, and one for each node that ended: the cluster it was
\* sending then.  Whenever each node joined and whoever served it, but for one
\* case: a peer whose server ends before the first block goes on with the next
\* cluster, counts from that one, and once its cache is full relays every block
\* as one of a later cluster.
CountsFromFirst(n) == node[n].isFirst \/ node[n].first = node[n].file[1].seq
FilesAgree ==
    /\ ~Spent({"loss", "dup", "reorder"})
    /\ \A n \in Peers : node[n].total >= DefaultCache => CountsFromFirst(n)
    =>  \A n \in Peers :
            LET file == node[n].file
                whole(j) == Recorded[file[j].seq + 1].data
            IN  /\ \A j \in DOMAIN file : /\ file[j].seq = file[1].seq + j - 1
                                          /\ IsPrefix(file[j].data, whole(j))
                /\ Cardinality({j \in 1..(Len(file) - 1) : file[j].data # whole(j)})
                     <= Cardinality({m \in Nodes : ~node[m].up})

\* A peer that reads its parent's blocks in the order they are sent, whatever
\* is lost of them, writes them in the origin's order, none twice, and so does
\* one below it from its file, as long as it runs: a relay that has lost the
\* first block of a cluster ends it.  Once a peer has another server this is
\* not claimed: what a relay sends after a loss is numbered by its own file,
\* and the new server may begin with a block the peer has.
Before(a, b) == a[1] < b[1] \/ (a[1] = b[1] /\ a[2] < b[2])
Sorted(file) ==
    \A j, k \in 1..Len(file) :
    \A a \in 1..Len(file[j].data), b \in 1..Len(file[k].data) :
        Before(<<j, a>>, <<k, b>>) /\ Junk \notin {file[j].data[a], file[k].data[b]}
            => Before(file[j].data[a], file[k].data[b])
InPlace == \A c \in Peers : server[c] \in {Nobody, Parent[c]}
OrderKept ==
    ~Spent({"dup", "reorder"}) /\ InPlace => \A n \in Peers : Sorted(node[n].file)

\* What ends a peer, while nobody gets SIGINT: a block that a node between the
\* origin and it has not read, or has read too late.  The origin sends every
\* cluster from its Timecode on, and a relay that has missed nothing does too,
\* wherever its child begins.
EndedByLoss ==
    ~Spent({"sigint"}) =>
        \A n \in Peers :
            node[n].up \/ (server[n] # Origin /\ Spent({"loss", "reorder"}))

\* A node sends only blocks that its file holds and never looks for a
\* cluster before its first: IsOldBlockSeq keeps a child behind the cluster
\* that is being written, as long as none is lost or overtaken as a whole.
SendsFromFile ==
    /\ \A n \in Nodes : ~node[n].stuck
    /\ \A c \in Peers : \A k \in DOMAIN net[c] :
          net[c][k].type = "BLOCK" => net[c][k].data # Junk

\* The header of a cluster counts all its blocks as soon as another cluster
\* begins, by which CalOffset finds that one, and a peer that ends itself, over
\* END or a missing Timecode, leaves none whose header does not: whatever is
\* lost, repeated or overtaken at a boundary.  A peer that SIGINT ends may
\* leave the last one block short, as while it runs.
HeadersCount ==
    \A n \in Peers : LET file == node[n].file IN
        \A j \in DOMAIN file :
            LET uncounted == Len(file[j].data) - file[j].size
                closed == j < Len(file) \/ (~node[n].up /\ node[n].sigints = 0)
            IN  uncounted = 0 \/ (uncounted = 1 /\ ~closed)

\* Every child of a node that streams is brought up to the last complete
\* cluster of that node, wherever it started, however long nothing was sent to
\* it and whoever it was served by before, unless the node ends or its main
\* thread stops first.
Streams(p) == p = Origin \/ (p \in Peers /\ node[p].playing)
CaughtUp(c) ==
    server[c] # Nobody =>
        ~Runs(server[c]) \/ sent[c].cluster >= node[server[c]].prevSeq
CatchesUp ==
    \A c \in Peers : [](Streams(server[c]) => <>CaughtUp(c))

=============================================================================
