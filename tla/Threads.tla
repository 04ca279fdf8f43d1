------------------------------ MODULE Threads ------------------------------
(***************************************************************************)
(* The three threads of the origin and the globals they share without a    *)
(* lock: main, which serves the child slots in SendMulStream, READ, which  *)
(* takes a SETUP into a slot (NodeSetup), and TIME, which expires slots    *)
(* (TimeProcess).  Elsewhere a handler is one step; here a step is one     *)
(* access to a shared global.                                              *)
(*                                                                         *)
(* CONNECTED_NODES is the set of its bits.  A += of a bit that is set, or  *)
(* a -= of one that is not, would carry into other bits: BitsClean says    *)
(* that neither happens, so a set is enough.  No child departs (NodeDepart *)
(* is in Overlay).                                                         *)
(*                                                                         *)
(* An operator F_Fault is F with a plausible mistake in it; nothing uses   *)
(* it.  Putting it in the place of F shows which property notices.         *)
(***************************************************************************)
EXTENDS Integers, FiniteSets

CONSTANTS
    Slots,       \* the child slots, numbered from 0
    ClusterSize, \* blocks in a cluster
    MaxCluster,  \* bound: clusters the origin reads
    MaxSetups    \* bound: SETUP packets that reach NodeSetup

ASSUME SlotsAssumption == Slots \subseteq Nat /\ 0 \in Slots
ASSUME SizeAssumption == ClusterSize \in Nat \ {0}
ASSUME BoundsAssumption == MaxCluster \in Nat /\ MaxSetups \in Nat

VARIABLES
    connected, \* CONNECTED_NODES
    childNum,  \* CURRENT_CHILD_NUM
    current,   \* CURRENT_CLUSTER->prev->seq and LATEST_BLOCK_SEQ
    prev,      \* CURRENT_CHILD_BLOCK[..]->prev->info
    info,      \* CURRENT_CHILD_BLOCK[..]->info
    told,      \* the position INITIAL_STATUS gave the child
    silent,    \* the slots whose child no longer answers
    main, read, time,  \* where each thread is, and its locals
    setups     \* SETUP packets still to come

shared == <<connected, childNum, current, prev, info>>
vars == <<shared, told, silent, main, read, time, setups>>

\* A struct BlockInfo, as far as positions go: what malloc left, the zeros of
\* bzero, the INIT of RenewBlock, or a block that was sent.  cluster_seq is a
\* u16.
UInt16 == 0..65535
U16(x) == x % 65536
Position(status, cluster, seq) ==
    [status |-> status, cluster |-> U16(cluster), seq |-> seq]
None == Position("NULL", 0, 0)   \* CURRENT_CHILD_BLOCK[..] is NULL
Junk == Position("JUNK", 0, 0)
Zero == Position("NONE", 0, 0)

-----------------------------------------------------------------------------
(* main.                                                                    *)

\* InitChildBlocks, slot by slot, while READ and TIME are running already.
InitChildBlock ==
    /\ main.pc = "init"
    /\ prev' = [prev EXCEPT ![main.slot] = Junk]
    /\ info' = [info EXCEPT ![main.slot] = Junk]
    /\ main' = IF main.slot + 1 \in Slots THEN [main EXCEPT !.slot = @ + 1]
               ELSE [main EXCEPT !.pc = "wait"]
    /\ UNCHANGED <<connected, childNum, current, told, silent, read, time, setups>>

\* Between two calls of SendMulStream: the next block, or the next cluster.
NextBlock ==
    /\ main.pc = "wait"
    /\ current' = IF current.latest < ClusterSize
                  THEN [current EXCEPT !.latest = @ + 1]
                  ELSE [cluster |-> current.cluster + 1, latest |-> 1]
    /\ current'.cluster <= MaxCluster
    /\ UNCHANGED <<connected, childNum, prev, info, told, silent, main, read,
                   time, setups>>

Serve ==
    /\ main.pc = "wait"
    /\ main' = [main EXCEPT !.pc = "bit", !.slot = 0]
    /\ UNCHANGED <<shared, told, silent, read, time, setups>>

NextSlot(i) == [main EXCEPT !.pc = IF i + 1 \in Slots THEN "bit" ELSE "wait",
                            !.slot = IF i + 1 \in Slots THEN i + 1 ELSE 0]

TestBit ==
    /\ main.pc = "bit"
    /\ main' = IF main.slot \in connected THEN [main EXCEPT !.pc = "old"]
               ELSE NextSlot(main.slot)
    /\ UNCHANGED <<shared, told, silent, read, time, setups>>

IsOldBlockSeq(p) ==
    \/ p.cluster < current.cluster
    \/ p.cluster = current.cluster /\ p.seq <= current.latest

TestOld ==
    /\ main.pc = "old"
    /\ main' = IF IsOldBlockSeq(prev[main.slot])
               THEN [main EXCEPT !.pc = "send"] ELSE NextSlot(main.slot)
    /\ UNCHANGED <<shared, told, silent, read, time, setups>>

\* SendCacheBlock reads the position once more, and sleeps when it has sent.
SendCacheBlock ==
    /\ main.pc = "send"
    /\ LET i == main.slot IN
       /\ info' = [info EXCEPT ![i] =
                     Position("SENT", prev[i].cluster, prev[i].seq + 1)]
       /\ main' = [main EXCEPT !.pc = "shift", !.started = @ \cup {i}]
    /\ UNCHANGED <<connected, childNum, current, prev, told, silent, read,
                   time, setups>>

\* ShiftToPreBlock, or RenewBlock behind the last block of the cluster.
Shift ==
    /\ main.pc = "shift"
    /\ LET i == main.slot IN
       /\ prev' = [prev EXCEPT ![i] =
                     IF info[i].seq < ClusterSize THEN info[i]
                     ELSE Position("INIT", info[i].cluster + 1, 0)]
       /\ info' = [info EXCEPT ![i] = Zero]
       /\ main' = NextSlot(i)
    /\ UNCHANGED <<connected, childNum, current, told, silent, read, time, setups>>

Inside(i) == main.pc \in {"old", "send", "shift"} /\ main.slot = i

Main == InitChildBlock \/ NextBlock \/ Serve \/ TestBit \/ TestOld
        \/ SendCacheBlock \/ Shift

-----------------------------------------------------------------------------
(* READ.  NodeSetup takes these steps, one after the other.                 *)

Then_BitFirst(pc) ==
    CASE pc = "pick" -> "load" [] pc = "load" -> "store"
      [] pc = "store" -> "name" [] pc = "name" -> "clear"
      [] pc = "clear" -> "renew" [] pc = "renew" -> "back"
      [] pc = "back" -> "tell" [] pc = "tell" -> "count"
      [] pc = "count" -> "add" [] pc = "add" -> "idle"
Then(pc) ==
    CASE pc = "pick" -> "name" [] pc = "name" -> "clear"
      [] pc = "clear" -> "renew" [] pc = "renew" -> "back"
      [] pc = "back" -> "tell" [] pc = "tell" -> "load"
      [] pc = "load" -> "store" [] pc = "store" -> "count"
      [] pc = "count" -> "add" [] pc = "add" -> "idle"

\* A SETUP that is not redirected: CheckChildNum asks for the number first.
NodeSetup ==
    /\ read.pc = "idle" /\ setups > 0
    /\ setups' = setups - 1
    /\ read' = IF childNum < Cardinality(Slots) THEN [read EXCEPT !.pc = "pick"]
               ELSE read
    /\ UNCHANGED <<shared, told, silent, main, time>>

\* The first slot whose bit is clear, or none.
Free_Any(i) == TRUE
Free(i) == i \notin connected
CheckChildNum ==
    /\ read.pc = "pick"
    /\ \E i \in Slots :
          /\ Free(i) /\ \A j \in Slots : j < i => ~Free(j)
          /\ read' = [read EXCEPT !.pc = Then("pick"), !.slot = i]
    /\ UNCHANGED <<shared, told, silent, main, time, setups>>
NoneFree ==
    /\ read.pc = "pick"
    /\ \A i \in Slots : ~Free(i)
    /\ read' = [read EXCEPT !.pc = "idle"]
    /\ UNCHANGED <<shared, told, silent, main, time, setups>>

\* A SETUP before InitChildBlocks has reached the slot: NULL is dereferenced
\* and the process ends.
Crashed == read.pc = "crashed"
CrashEarly ==
    /\ read.pc = "name" /\ prev[read.slot] = None
    /\ read' = [read EXCEPT !.pc = "crashed"]
    /\ UNCHANGED <<shared, told, silent, main, time, setups>>

\* The slot gets its new child: overlap notes whether main was still serving
\* the one before it.
NameCluster ==
    /\ read.pc = "name" /\ prev[read.slot] # None
    /\ info' = [info EXCEPT ![read.slot].cluster = U16(current.cluster)]
    /\ read' = [read EXCEPT !.pc = Then("name"),
                  !.overlap = IF Inside(read.slot) THEN @ \cup {read.slot}
                              ELSE @ \ {read.slot}]
    /\ main' = [main EXCEPT !.started = @ \ {read.slot}]
    /\ UNCHANGED <<connected, childNum, current, prev, told, silent, time, setups>>

\* RenewBlock: the cluster is read, both positions are cleared, and the one
\* to go on from is set.
ClearInfos ==
    /\ read.pc = "clear"
    /\ read' = [read EXCEPT !.pc = Then("clear"),
                            !.cluster = info[read.slot].cluster]
    /\ info' = [info EXCEPT ![read.slot] = Zero]
    /\ prev' = [prev EXCEPT ![read.slot] = Zero]
    /\ UNCHANGED <<connected, childNum, current, told, silent, main, time, setups>>

SetPrev ==
    /\ read.pc = "renew"
    /\ prev' = [prev EXCEPT ![read.slot] = Position("INIT", read.cluster + 1, 0)]
    /\ read' = [read EXCEPT !.pc = Then("renew"), !.cluster = 0]
    /\ UNCHANGED <<connected, childNum, current, info, told, silent, main,
                   time, setups>>

\* cluster_seq -= 1: main may have shifted the zeros to it.
Back_Int(p) == [p EXCEPT !.cluster = @ - 1]
Back(p) == [p EXCEPT !.cluster = U16(@ - 1)]
StepBack ==
    /\ read.pc = "back"
    /\ prev' = [prev EXCEPT ![read.slot] = Back(@)]
    /\ read' = [read EXCEPT !.pc = Then("back")]
    /\ UNCHANGED <<connected, childNum, current, info, told, silent, main,
                   time, setups>>

\* The position goes to NODES_STATUS and out with INITIAL_STATUS, and the
\* slot gets its time stamp.
Tell ==
    /\ read.pc = "tell"
    /\ told' = [told EXCEPT ![read.slot] = prev[read.slot]]
    /\ silent' = silent \ {read.slot}
    /\ read' = [read EXCEPT !.pc = Then("tell")]
    /\ UNCHANGED <<shared, main, time, setups>>

\* CONNECTED_NODES += bit, and CURRENT_CHILD_NUM += 1: a load and a store.
LoadBits ==
    /\ read.pc = "load"
    /\ read' = [read EXCEPT !.pc = Then("load"), !.bits = connected]
    /\ UNCHANGED <<shared, told, silent, main, time, setups>>
StoreBits ==
    /\ read.pc = "store"
    /\ connected' = read.bits \cup {read.slot}
    /\ read' = [read EXCEPT !.pc = Then("store"), !.bits = {}]
    /\ UNCHANGED <<childNum, current, prev, info, told, silent, main, time, setups>>
LoadNum ==
    /\ read.pc = "count"
    /\ read' = [read EXCEPT !.pc = Then("count"), !.num = childNum]
    /\ UNCHANGED <<shared, told, silent, main, time, setups>>
StoreNum ==
    /\ read.pc = "add"
    /\ childNum' = read.num + 1
    /\ read' = [read EXCEPT !.pc = Then("add"), !.num = 0]
    /\ UNCHANGED <<connected, current, prev, info, told, silent, main, time, setups>>

InNodeSetup ==
    CheckChildNum \/ NoneFree \/ CrashEarly \/ NameCluster \/ ClearInfos \/ SetPrev
    \/ StepBack \/ Tell \/ LoadBits \/ StoreBits \/ LoadNum \/ StoreNum

-----------------------------------------------------------------------------
(* TIME.                                                                    *)

\* A child ends or its answers stop.
FallSilent(i) ==
    /\ i \in connected \ silent
    /\ silent' = silent \cup {i}
    /\ UNCHANGED <<shared, told, main, read, time, setups>>

AfterSlot_First(i) == 0
AfterSlot(i) == IF i + 1 \in Slots THEN i + 1 ELSE 0

\* The slot is not connected, or its time stamp is not old.
PassSlot ==
    /\ time.pc = "slot"
    /\ time.slot \notin connected \cap silent
    /\ time' = [time EXCEPT !.slot = AfterSlot(@)]
    /\ UNCHANGED <<shared, told, silent, main, read, setups>>

\* A connected slot whose child has not answered in time: a late answer is as
\* good as none.
ExpireSlot ==
    /\ time.pc = "slot" /\ time.slot \in connected
    /\ time' = [time EXCEPT !.pc = "load"]
    /\ UNCHANGED <<shared, told, silent, main, read, setups>>

\* CONNECTED_NODES -= bit, and CURRENT_CHILD_NUM--.
LoadBitsT ==
    /\ time.pc = "load"
    /\ time' = [time EXCEPT !.pc = "store", !.bits = connected]
    /\ UNCHANGED <<shared, told, silent, main, read, setups>>
StoreBitsT ==
    /\ time.pc = "store"
    /\ connected' = time.bits \ {time.slot}
    /\ time' = [time EXCEPT !.pc = "count", !.bits = {}]
    /\ UNCHANGED <<childNum, current, prev, info, told, silent, main, read, setups>>
LoadNumT ==
    /\ time.pc = "count"
    /\ time' = [time EXCEPT !.pc = "sub", !.num = childNum]
    /\ UNCHANGED <<shared, told, silent, main, read, setups>>
StoreNumT ==
    /\ time.pc = "sub"
    /\ childNum' = time.num - 1
    /\ time' = [time EXCEPT !.pc = "slot", !.slot = AfterSlot(@), !.num = 0]
    /\ UNCHANGED <<connected, current, prev, info, told, silent, main, read, setups>>

TimeProcess == PassSlot \/ ExpireSlot \/ LoadBitsT \/ StoreBitsT
               \/ LoadNumT \/ StoreNumT

-----------------------------------------------------------------------------
\* main has created the threads and is about to call InitChildBlocks.
Init ==
    /\ connected = {} /\ childNum = 0
    /\ current = [cluster |-> 0, latest |-> 0]
    /\ prev = [i \in Slots |-> None] /\ info = [i \in Slots |-> None]
    /\ told = [i \in Slots |-> None] /\ silent = {}
    /\ main = [pc |-> "init", slot |-> 0, started |-> {}]
    /\ read = [pc |-> "idle", slot |-> 0, cluster |-> 0, bits |-> {},
               num |-> 0, overlap |-> {}]
    /\ time = [pc |-> "slot", slot |-> 0, bits |-> {}, num |-> 0]
    /\ setups = MaxSetups

Next ==
    ~Crashed /\ (\/ Main \/ NodeSetup \/ InNodeSetup \/ TimeProcess
                 \/ \E i \in Slots : FallSilent(i))

\* The scheduler runs every thread.
Spec == Init /\ [][Next]_vars
        /\ WF_vars(~Crashed /\ InNodeSetup) /\ WF_vars(~Crashed /\ TimeProcess)

-----------------------------------------------------------------------------
(* Properties.                                                              *)

Positions == [status : {"NULL", "JUNK", "NONE", "INIT", "SENT"},
              cluster : UInt16, seq : Nat]
TypeOK ==
    /\ connected \subseteq Slots /\ silent \subseteq Slots
    /\ childNum \in Int /\ setups \in Nat
    /\ current \in [cluster : Nat, latest : Nat]
    /\ prev \in [Slots -> Positions] /\ info \in [Slots -> Positions]
    /\ told \in [Slots -> Positions]
    /\ main \in [pc : {"init", "wait", "bit", "old", "send", "shift"},
                 slot : Slots, started : SUBSET Slots]
    /\ read \in [pc : {"idle", "pick", "name", "clear", "renew", "back", "tell",
                       "load", "store", "count", "add", "crashed"},
                 slot : Slots, cluster : UInt16, bits : SUBSET Slots,
                 num : Int, overlap : SUBSET Slots]
    /\ time \in [pc : {"slot", "load", "store", "count", "sub"},
                 slot : Slots, bits : SUBSET Slots, num : Int]

\* The += of NodeSetup only ever adds a bit that is clear in the value it has
\* loaded, and the -= of TimeProcess takes away one that is set, although
\* each works on what it loaded before the other stored: no interleaving of
\* the two carries into the bit of another slot, the parent's or MY_ID's.
BitsClean ==
    /\ read.pc = "store" => read.slot \notin read.bits
    /\ time.pc = "store" => time.slot \in time.bits

\* main never sends from a child block nobody has renewed, and the first
\* block a new child gets follows the position its INITIAL_STATUS named: the
\* bit is set last, so main does not see a slot that is being renewed.  A
\* slot that is taken again while main still serves its last child (overlap)
\* is the exception.
StartsAsTold ==
    \A i \in Slots :
        /\ Inside(i) => prev[i].status \notin {"NULL", "JUNK"}
        /\ i \in connected \ (main.started \cup read.overlap) =>
              prev[i] = told[i]

\* The slot of a child that does not answer ends up free for good, although
\* NodeSetup may bring its bit back with a value it loaded before the expiry.
SilentLeaves ==
    \A i \in Slots : <>[](Crashed \/ i \notin connected \cap silent)

=============================================================================
