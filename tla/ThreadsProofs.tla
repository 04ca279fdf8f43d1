---------------------------- MODULE ThreadsProofs ----------------------------
(***************************************************************************)
(* Proofs about Threads, for any number of child slots, clusters and       *)
(* SETUP packets: the interleavings of NodeSetup and TimeProcess keep the  *)
(* bits apart, and main only serves slots that have been renewed.          *)
(***************************************************************************)
EXTENDS Threads, TLAPS

\* The steps of NodeSetup between choosing a slot and setting its bit.
Picked == {"name", "clear", "renew", "back", "tell", "load", "store"}

\* What each thread has loaded of CONNECTED_NODES against what is there now:
\* TIME only removes bits and READ only adds the one of its slot.
Loads ==
    /\ read.pc \in Picked => read.slot \notin connected
    /\ read.pc = "store" =>
          read.slot \notin read.bits /\ connected \subseteq read.bits
    /\ time.pc = "load" => time.slot \in connected
    /\ time.pc = "store" =>
          time.slot \in time.bits /\ time.bits \subseteq connected

\* The slots that are connected or will be again when READ stores.
Live == IF read.pc = "store" THEN read.bits ELSE connected

Renewed(p) == p.status \notin {"NULL", "JUNK"}

\* Which child blocks have been renewed.
RenewedOnes ==
    /\ \A i \in Live : Renewed(prev[i])
    /\ \A i \in Slots : Inside(i) => Renewed(prev[i])
    /\ main.pc = "shift" => Renewed(info[main.slot])
    /\ read.pc \in Picked \ {"name", "clear"} => Renewed(prev[read.slot])
    /\ read.pc = "clear" => prev[read.slot] # None
    /\ main.pc = "init" =>
          \A j \in Slots : j >= main.slot => prev[j] = None

\* Which of them are where INITIAL_STATUS said.
Meets == main.pc \in {"old", "send", "shift"} /\ main.slot = read.slot
Moved == main.started \cup read.overlap
AtTold ==
    /\ \A i \in Live \ Moved : prev[i] = told[i]
    /\ read.pc \in {"load", "store"} /\ read.slot \notin Moved =>
          prev[read.slot] = told[read.slot]
    /\ main.pc = "shift" => main.slot \in Moved
    /\ read.pc \in Picked \ {"name"} /\ Meets =>
          read.slot \in read.overlap

IInv == TypeOK /\ Loads /\ RenewedOnes /\ AtTold

MainType == [pc : {"init", "wait", "bit", "old", "send", "shift"},
             slot : Slots, started : SUBSET Slots]
ReadType == [pc : {"idle", "pick", "name", "clear", "renew", "back", "tell",
                   "load", "store", "count", "add", "crashed"},
             slot : Slots, cluster : UInt16, bits : SUBSET Slots,
             num : Int, overlap : SUBSET Slots]
TimeType == [pc : {"slot", "load", "store", "count", "sub"},
             slot : Slots, bits : SUBSET Slots, num : Int]

-----------------------------------------------------------------------------
(* Positions.                                                               *)

LEMMA U16Type == ASSUME NEW x \in Int PROVE U16(x) \in UInt16
  BY SMT DEF U16, UInt16

LEMMA UInt16Nat == \A x \in UInt16 : x \in Nat
  BY SMT DEF UInt16

LEMMA PositionIs ==
    ASSUME NEW st \in {"NULL", "JUNK", "NONE", "INIT", "SENT"},
           NEW c \in Int, NEW s \in Nat
    PROVE  /\ Position(st, c, s) \in Positions
           /\ Position(st, c, s).status = st
<1>1. U16(c) \in UInt16
  BY U16Type
<1> QED
  BY <1>1 DEF Position, Positions

LEMMA Constants ==
    /\ None \in Positions /\ Junk \in Positions /\ Zero \in Positions
    /\ Renewed(Zero) /\ ~Renewed(None) /\ ~Renewed(Junk)
<1>1. 0 \in Int /\ 0 \in Nat
  OBVIOUS
<1> QED
  BY <1>1, PositionIs DEF None, Junk, Zero, Renewed

-----------------------------------------------------------------------------
(* Types.                                                                   *)

\* The step of NodeSetup that follows each.
LEMMA ThenIs ==
    /\ Then("pick") = "name" /\ Then("name") = "clear" /\ Then("clear") = "renew"
    /\ Then("renew") = "back" /\ Then("back") = "tell" /\ Then("tell") = "load"
    /\ Then("load") = "store" /\ Then("store") = "count"
    /\ Then("count") = "add" /\ Then("add") = "idle"
  BY DEF Then

LEMMA Types ==
    ASSUME TypeOK
    PROVE  main \in MainType /\ read \in ReadType /\ time \in TimeType
  BY DEF TypeOK, MainType, ReadType, TimeType

\* The slot after i is a slot again.
LEMMA NextSlotType ==
    ASSUME TypeOK, NEW i \in Slots
    PROVE  /\ NextSlot(i) \in MainType
           /\ NextSlot(i).pc \in {"bit", "wait"}
           /\ NextSlot(i).started = main.started
<1>1. main \in MainType /\ 0 \in Slots
  BY Types, SlotsAssumption
<1>2. CASE i + 1 \in Slots
  BY <1>1, <1>2 DEF NextSlot, MainType
<1>3. CASE i + 1 \notin Slots
  BY <1>1, <1>3 DEF NextSlot, MainType
<1> QED
  BY <1>2, <1>3

LEMMA AfterSlotType == ASSUME NEW i \in Slots PROVE AfterSlot(i) \in Slots
  BY SlotsAssumption DEF AfterSlot

LEMMA InitHolds == ASSUME Init PROVE IInv
<1>1. TypeOK
  <2>1. 0 \in UInt16
    BY SMT DEF UInt16
  <2>2. main \in MainType /\ read \in ReadType /\ time \in TimeType
    BY <2>1, SlotsAssumption DEF Init, MainType, ReadType, TimeType
  <2> QED
    BY <2>2, Constants, BoundsAssumption
    DEF Init, TypeOK, MainType, ReadType, TimeType
<1>2. Loads /\ RenewedOnes /\ AtTold
  BY DEF Init, Loads, RenewedOnes, AtTold, Moved, Live, Inside, Picked
<1> QED
  BY <1>1, <1>2 DEF IInv

\* What the steps of main leave behind is of the types of TypeOK.
LEMMA MainTypes ==
    ASSUME TypeOK, Main
    PROVE  TypeOK'
<1> USE Types
<1>1. CASE InitChildBlock
  <2>1. main' \in MainType
    <3>1. CASE main.slot + 1 \in Slots
      BY <1>1, <3>1 DEF InitChildBlock, MainType
    <3>2. CASE main.slot + 1 \notin Slots
      BY <1>1, <3>2 DEF InitChildBlock, MainType
    <3> QED
      BY <3>1, <3>2
  <2>2. prev' \in [Slots -> Positions] /\ info' \in [Slots -> Positions]
    BY <1>1, Constants DEF InitChildBlock, TypeOK
  <2> QED
    BY <1>1, <2>1, <2>2 DEF InitChildBlock, TypeOK, MainType
<1>2. CASE NextBlock
  <2>1. current' \in [cluster : Nat, latest : Nat]
    BY <1>2 DEF NextBlock, TypeOK
  <2> QED
    BY <1>2, <2>1 DEF NextBlock, TypeOK
<1>3. CASE Serve
  <2>1. main' \in MainType
    BY <1>3, SlotsAssumption DEF Serve, MainType
  <2> QED
    BY <1>3, <2>1 DEF Serve, shared, TypeOK, MainType
<1>4. CASE TestBit
  <2>1. main' \in MainType
    <3>1. main.slot \in Slots /\ [main EXCEPT !.pc = "old"] \in MainType
      BY DEF MainType
    <3> QED
      BY <1>4, <3>1, NextSlotType DEF TestBit
  <2> QED
    BY <1>4, <2>1 DEF TestBit, shared, TypeOK, MainType
<1>5. CASE TestOld
  <2>1. main' \in MainType
    <3>1. main.slot \in Slots /\ [main EXCEPT !.pc = "send"] \in MainType
      BY DEF MainType
    <3> QED
      BY <1>5, <3>1, NextSlotType DEF TestOld
  <2> QED
    BY <1>5, <2>1 DEF TestOld, shared, TypeOK, MainType
<1>6. CASE SendCacheBlock
  <2>1. main' \in MainType
    BY <1>6 DEF SendCacheBlock, MainType
  <2>2. prev[main.slot] \in Positions /\ main.slot \in Slots
    BY DEF TypeOK, MainType
  <2>3. prev[main.slot].cluster \in Int /\ prev[main.slot].seq + 1 \in Nat
    BY <2>2, UInt16Nat DEF Positions
  <2>4. Position("SENT", prev[main.slot].cluster, prev[main.slot].seq + 1)
          \in Positions
    BY <2>3, PositionIs
  <2>5. info' \in [Slots -> Positions]
    BY <1>6, <2>2, <2>4 DEF SendCacheBlock, TypeOK
  <2> QED
    BY <1>6, <2>1, <2>5 DEF SendCacheBlock, TypeOK, MainType
<1>7. CASE Shift
  <2>1. main' \in MainType
    <3>1. main.slot \in Slots
      BY DEF MainType
    <3> QED
      BY <1>7, <3>1, NextSlotType DEF Shift
  <2>2. info[main.slot] \in Positions /\ main.slot \in Slots
    BY DEF TypeOK, MainType
  <2>3. info[main.slot].cluster + 1 \in Int /\ 0 \in Nat
    BY <2>2, UInt16Nat DEF Positions
  <2>4. Position("INIT", info[main.slot].cluster + 1, 0) \in Positions
    BY <2>3, PositionIs
  <2>5. info' \in [Slots -> Positions] /\ prev' \in [Slots -> Positions]
    BY <1>7, <2>2, <2>4, Constants DEF Shift, TypeOK
  <2> QED
    BY <1>7, <2>1, <2>5 DEF Shift, TypeOK, MainType
<1> QED
  BY <1>1, <1>2, <1>3, <1>4, <1>5, <1>6, <1>7 DEF Main

\* The same for the steps of READ.
LEMMA ReadTypes ==
    ASSUME TypeOK, NodeSetup \/ InNodeSetup
    PROVE  TypeOK'
<1> USE Types
<1>a. read.slot \in Slots
  BY DEF ReadType
<1>b. prev[read.slot] \in Positions /\ info[read.slot] \in Positions
  BY <1>a DEF TypeOK
<1>1. CASE NodeSetup
  <2>1. read' \in ReadType /\ setups' \in Nat
    BY <1>1 DEF NodeSetup, ReadType, TypeOK
  <2> QED
    BY <1>1, <2>1 DEF NodeSetup, shared, TypeOK, ReadType
<1>2. CASE CheckChildNum
  <2>1. PICK i \in Slots : read' = [read EXCEPT !.pc = Then("pick"), !.slot = i]
    BY <1>2 DEF CheckChildNum
  <2>2. read' \in ReadType
    BY <2>1, ThenIs DEF ReadType
  <2> QED
    BY <1>2, <2>2 DEF CheckChildNum, shared, TypeOK, ReadType
<1>3. CASE NoneFree
  <2>1. read' \in ReadType
    BY <1>3 DEF NoneFree, ReadType
  <2> QED
    BY <1>3, <2>1 DEF NoneFree, shared, TypeOK, ReadType
<1>4. CASE CrashEarly
  <2>1. read' \in ReadType
    BY <1>4 DEF CrashEarly, ReadType
  <2> QED
    BY <1>4, <2>1 DEF CrashEarly, shared, TypeOK, ReadType
<1>5. CASE NameCluster
  <2>1. read' \in ReadType
    <3>1. CASE Inside(read.slot)
      BY <1>5, <3>1, ThenIs DEF NameCluster, ReadType
    <3>2. CASE ~Inside(read.slot)
      BY <1>5, <3>2, ThenIs DEF NameCluster, ReadType
    <3> QED
      BY <3>1, <3>2
  <2>2. main' \in MainType
    BY <1>5 DEF NameCluster, MainType
  <2>3. U16(current.cluster) \in UInt16
    BY U16Type DEF TypeOK
  <2>4. info' \in [Slots -> Positions]
    <3> HIDE DEF Positions
    <3>1. [info[read.slot] EXCEPT !.cluster = U16(current.cluster)] \in Positions
      BY <1>b, <2>3 DEF Positions
    <3>2. info' = [info EXCEPT ![read.slot] =
                     [info[read.slot] EXCEPT !.cluster = U16(current.cluster)]]
      BY <1>5 DEF NameCluster
    <3> QED
      BY <3>1, <3>2, <1>a DEF TypeOK
  <2> QED
    BY <1>5, <2>1, <2>2, <2>4 DEF NameCluster, TypeOK, MainType, ReadType
<1>6. CASE ClearInfos
  <2>1. read' \in ReadType
    <3>1. info[read.slot].cluster \in UInt16
      BY <1>b DEF Positions
    <3> QED
      BY <1>6, <3>1, ThenIs DEF ClearInfos, ReadType
  <2>2. prev' \in [Slots -> Positions] /\ info' \in [Slots -> Positions]
    BY <1>6, <1>a, Constants DEF ClearInfos, TypeOK
  <2> QED
    BY <1>6, <2>1, <2>2 DEF ClearInfos, TypeOK, ReadType
<1>7. CASE SetPrev
  <2>1. read' \in ReadType
    <3>1. 0 \in UInt16
      BY SMT DEF UInt16
    <3>2. read' = [[read EXCEPT !.pc = "back"] EXCEPT !.cluster = 0]
      BY <1>7, ThenIs DEF SetPrev
    <3> QED
      BY <3>1, <3>2 DEF ReadType
  <2>2. read.cluster + 1 \in Int /\ 0 \in Nat
    BY UInt16Nat DEF ReadType
  <2>3. Position("INIT", read.cluster + 1, 0) \in Positions
    BY <2>2, PositionIs
  <2>4. prev' \in [Slots -> Positions]
    BY <1>7, <1>a, <2>3 DEF SetPrev, TypeOK
  <2> QED
    BY <1>7, <2>1, <2>4 DEF SetPrev, TypeOK, ReadType
<1>8. CASE StepBack
  <2>1. read' \in ReadType
    BY <1>8, ThenIs DEF StepBack, ReadType
  <2>2. prev[read.slot].cluster - 1 \in Int
    BY <1>b, UInt16Nat DEF Positions
  <2>3. U16(prev[read.slot].cluster - 1) \in UInt16
    BY <2>2, U16Type
  <2>4. Back(prev[read.slot]) \in Positions
    BY <2>3, <1>b DEF Back, Positions
  <2>5. prev' \in [Slots -> Positions]
    BY <1>8, <1>a, <2>4 DEF StepBack, TypeOK
  <2> QED
    BY <1>8, <2>1, <2>5 DEF StepBack, TypeOK, ReadType
<1>9. CASE Tell
  <2>1. read' \in ReadType
    BY <1>9, ThenIs DEF Tell, ReadType
  <2>2. told' \in [Slots -> Positions] /\ silent' \subseteq Slots
    BY <1>9, <1>a, <1>b DEF Tell, TypeOK
  <2> QED
    BY <1>9, <2>1, <2>2 DEF Tell, shared, TypeOK, ReadType
<1>10. CASE LoadBits
  <2>1. read' \in ReadType
    BY <1>10, ThenIs DEF LoadBits, ReadType, TypeOK
  <2> QED
    BY <1>10, <2>1 DEF LoadBits, shared, TypeOK, ReadType
<1>11. CASE StoreBits
  <2>1. read' \in ReadType
    BY <1>11, ThenIs DEF StoreBits, ReadType
  <2>2. connected' \subseteq Slots
    BY <1>11, <1>a DEF StoreBits, ReadType
  <2> QED
    BY <1>11, <2>1, <2>2 DEF StoreBits, TypeOK, ReadType
<1>12. CASE LoadNum
  <2>1. read' \in ReadType
    BY <1>12, ThenIs DEF LoadNum, ReadType, TypeOK
  <2> QED
    BY <1>12, <2>1 DEF LoadNum, shared, TypeOK, ReadType
<1>13. CASE StoreNum
  <2>1. read' \in ReadType
    <3>1. read' = [[read EXCEPT !.pc = "idle"] EXCEPT !.num = 0]
      BY <1>13, ThenIs DEF StoreNum
    <3>2. 0 \in Int
      OBVIOUS
    <3> QED
      BY <3>1, <3>2 DEF ReadType
  <2>2. childNum' \in Int
    BY <1>13 DEF StoreNum, ReadType
  <2> QED
    BY <1>13, <2>1, <2>2 DEF StoreNum, TypeOK, ReadType
<1> QED
  BY <1>1, <1>2, <1>3, <1>4, <1>5, <1>6, <1>7, <1>8, <1>9, <1>10, <1>11, <1>12,
     <1>13 DEF InNodeSetup

\* And for those of TIME and the children.
LEMMA TimeTypes ==
    ASSUME TypeOK, TimeProcess \/ \E i \in Slots : FallSilent(i)
    PROVE  TypeOK'
<1> USE Types
<1>a. time.slot \in Slots /\ AfterSlot(time.slot) \in Slots
  BY AfterSlotType DEF TimeType
<1>1. CASE PassSlot
  <2>1. time' \in TimeType
    BY <1>1, <1>a DEF PassSlot, TimeType
  <2> QED
    BY <1>1, <2>1 DEF PassSlot, shared, TypeOK, TimeType
<1>2. CASE ExpireSlot
  <2>1. time' \in TimeType
    BY <1>2 DEF ExpireSlot, TimeType
  <2> QED
    BY <1>2, <2>1 DEF ExpireSlot, shared, TypeOK, TimeType
<1>3. CASE LoadBitsT
  <2>1. time' \in TimeType
    BY <1>3 DEF LoadBitsT, TimeType, TypeOK
  <2> QED
    BY <1>3, <2>1 DEF LoadBitsT, shared, TypeOK, TimeType
<1>4. CASE StoreBitsT
  <2>1. time' \in TimeType
    BY <1>4 DEF StoreBitsT, TimeType
  <2>2. connected' \subseteq Slots
    BY <1>4 DEF StoreBitsT, TimeType
  <2> QED
    BY <1>4, <2>1, <2>2 DEF StoreBitsT, TypeOK, TimeType
<1>5. CASE LoadNumT
  <2>1. time' \in TimeType
    BY <1>5 DEF LoadNumT, TimeType, TypeOK
  <2> QED
    BY <1>5, <2>1 DEF LoadNumT, shared, TypeOK, TimeType
<1>6. CASE StoreNumT
  <2>1. time' \in TimeType
    <3>1. 0 \in Int
      OBVIOUS
    <3> QED
      BY <1>6, <1>a, <3>1 DEF StoreNumT, TimeType
  <2>2. childNum' \in Int
    BY <1>6 DEF StoreNumT, TimeType
  <2> QED
    BY <1>6, <2>1, <2>2 DEF StoreNumT, TypeOK, TimeType
<1>7. CASE \E i \in Slots : FallSilent(i)
  BY <1>7 DEF FallSilent, shared, TypeOK
<1> QED
  BY <1>1, <1>2, <1>3, <1>4, <1>5, <1>6, <1>7 DEF TimeProcess

-----------------------------------------------------------------------------
(* What has been loaded, and what is connected or will be.                  *)

\* The steps of READ that leave the bits, the slot and what it has loaded.
InPlace == NodeSetup \/ NoneFree \/ CrashEarly \/ NameCluster \/ ClearInfos
           \/ SetPrev \/ StepBack \/ Tell \/ LoadNum \/ StoreNum

LEMMA InPlaceKeeps ==
    ASSUME TypeOK, InPlace
    PROVE  /\ read'.slot = read.slot /\ read'.bits = read.bits
           /\ read.pc # "store" /\ read'.pc # "store"
           /\ read'.pc \in Picked => read.pc \in Picked
           /\ UNCHANGED <<connected, time>>
<1>a. read \in ReadType
  BY Types
<1>1. CASE NodeSetup
  <2>1. read'.slot = read.slot /\ read'.bits = read.bits
        /\ read'.pc \in {"pick", "idle"}
    BY <1>1, <1>a DEF NodeSetup, ReadType
  <2> QED
    BY <1>1, <2>1 DEF NodeSetup, shared, Picked
<1>2. CASE NoneFree \/ CrashEarly
  <2>1. read'.slot = read.slot /\ read'.bits = read.bits
        /\ read'.pc \in {"idle", "crashed"}
    BY <1>2, <1>a DEF NoneFree, CrashEarly, ReadType
  <2> QED
    BY <1>2, <2>1 DEF NoneFree, CrashEarly, shared, Picked
<1>3. CASE NameCluster
  <2>1. read'.slot = read.slot /\ read'.bits = read.bits /\ read'.pc = "clear"
    BY <1>3, <1>a, ThenIs DEF NameCluster, ReadType
  <2> QED
    BY <1>3, <2>1 DEF NameCluster, Picked
<1>4. CASE ClearInfos
  <2>1. read'.slot = read.slot /\ read'.bits = read.bits /\ read'.pc = "renew"
    BY <1>4, <1>a, ThenIs DEF ClearInfos, ReadType
  <2> QED
    BY <1>4, <2>1 DEF ClearInfos, Picked
<1>5. CASE SetPrev
  <2>1. read'.slot = read.slot /\ read'.bits = read.bits /\ read'.pc = "back"
    BY <1>5, <1>a, ThenIs DEF SetPrev, ReadType
  <2> QED
    BY <1>5, <2>1 DEF SetPrev, Picked
<1>6. CASE StepBack
  <2>1. read'.slot = read.slot /\ read'.bits = read.bits /\ read'.pc = "tell"
    BY <1>6, <1>a, ThenIs DEF StepBack, ReadType
  <2> QED
    BY <1>6, <2>1 DEF StepBack, Picked
<1>7. CASE Tell
  <2>1. read'.slot = read.slot /\ read'.bits = read.bits /\ read'.pc = "load"
    BY <1>7, <1>a, ThenIs DEF Tell, ReadType
  <2> QED
    BY <1>7, <2>1 DEF Tell, shared, Picked
<1>8. CASE LoadNum
  <2>1. read'.slot = read.slot /\ read'.bits = read.bits /\ read'.pc = "add"
    BY <1>8, <1>a, ThenIs DEF LoadNum, ReadType
  <2> QED
    BY <1>8, <2>1 DEF LoadNum, shared, Picked
<1>9. CASE StoreNum
  <2>1. read'.slot = read.slot /\ read'.bits = read.bits /\ read'.pc = "idle"
    BY <1>9, <1>a, ThenIs DEF StoreNum, ReadType
  <2> QED
    BY <1>9, <2>1 DEF StoreNum, Picked
<1> QED
  BY <1>1, <1>2, <1>3, <1>4, <1>5, <1>6, <1>7, <1>8, <1>9 DEF InPlace

\* The other three choose the slot, load the bits and store them.
LEMMA ChoiceIs ==
    ASSUME TypeOK, CheckChildNum
    PROVE  /\ read'.pc = "name" /\ read.pc = "pick" /\ read'.slot \notin connected
           /\ UNCHANGED <<shared, told, silent, main, time, setups>>
<1>1. PICK i \in Slots : /\ i \notin connected
                        /\ read' = [read EXCEPT !.pc = Then("pick"), !.slot = i]
  BY DEF CheckChildNum, Free
<1>2. read'.pc = "name" /\ read'.slot = i
  BY <1>1, ThenIs, Types DEF ReadType
<1> QED
  BY <1>1, <1>2 DEF CheckChildNum

LEMMA LoadIs ==
    ASSUME TypeOK, LoadBits
    PROVE  /\ read.pc = "load" /\ read'.pc = "store" /\ read'.slot = read.slot
           /\ read'.bits = connected
           /\ UNCHANGED <<shared, told, silent, main, time, setups>>
<1>1. read' = [read EXCEPT !.pc = "store", !.bits = connected]
  BY ThenIs DEF LoadBits
<1>2. read'.pc = "store" /\ read'.slot = read.slot /\ read'.bits = connected
  BY <1>1, Types DEF ReadType
<1> QED
  BY <1>2 DEF LoadBits

LEMMA StoreIs ==
    ASSUME TypeOK, StoreBits
    PROVE  /\ read.pc = "store" /\ read'.pc = "count" /\ read'.slot = read.slot
           /\ connected' = read.bits \cup {read.slot}
           /\ read'.overlap = read.overlap
           /\ UNCHANGED <<childNum, current, prev, info, told, silent, main, time,
                          setups>>
<1>1. read' = [read EXCEPT !.pc = "count", !.bits = {}]
  BY ThenIs DEF StoreBits
<1>2. read'.pc = "count" /\ read'.slot = read.slot /\ read'.overlap = read.overlap
  BY <1>1, Types DEF ReadType
<1> QED
  BY <1>2 DEF StoreBits

\* TIME: only StoreBitsT touches the bits, and takes away the one of its slot.
LEMMA TimeIs ==
    ASSUME TypeOK, TimeProcess
    PROVE  /\ UNCHANGED <<current, prev, info, told, silent, main, read, setups>>
           /\ \/ UNCHANGED connected /\ time'.pc \notin {"load", "store"}
              \/ /\ UNCHANGED connected /\ time'.pc = "load"
                 /\ time'.slot = time.slot /\ time.slot \in connected
              \/ /\ UNCHANGED connected /\ time'.pc = "store"
                 /\ time.pc = "load"
                 /\ time'.slot = time.slot /\ time'.bits = connected
              \/ /\ connected' = time.bits \ {time.slot}
                 /\ time.pc = "store" /\ time'.pc = "count"
<1>a. time \in TimeType
  BY Types
<1>1. CASE PassSlot
  <2>1. time'.pc = "slot"
    BY <1>1, <1>a DEF PassSlot, TimeType
  <2> QED
    BY <1>1, <2>1 DEF PassSlot, shared
<1>2. CASE ExpireSlot
  <2>1. time'.pc = "load" /\ time'.slot = time.slot
    BY <1>2, <1>a DEF ExpireSlot, TimeType
  <2> QED
    BY <1>2, <2>1 DEF ExpireSlot, shared
<1>3. CASE LoadBitsT
  <2>1. time'.pc = "store" /\ time'.slot = time.slot /\ time'.bits = connected
    BY <1>3, <1>a DEF LoadBitsT, TimeType
  <2> QED
    BY <1>3, <2>1 DEF LoadBitsT, shared
<1>4. CASE StoreBitsT
  <2>1. time'.pc = "count"
    BY <1>4, <1>a DEF StoreBitsT, TimeType
  <2> QED
    BY <1>4, <2>1 DEF StoreBitsT
<1>5. CASE LoadNumT
  <2>1. time'.pc = "sub"
    BY <1>5, <1>a DEF LoadNumT, TimeType
  <2> QED
    BY <1>5, <2>1 DEF LoadNumT, shared
<1>6. CASE StoreNumT
  <2>1. time'.pc = "slot"
    BY <1>6, <1>a DEF StoreNumT, TimeType
  <2> QED
    BY <1>6, <2>1 DEF StoreNumT
<1> QED
  BY <1>1, <1>2, <1>3, <1>4, <1>5, <1>6 DEF TimeProcess

LEMMA LoadsKept == ASSUME TypeOK, Loads, [Next]_vars PROVE Loads'
<1>1. CASE InPlace
  BY <1>1, InPlaceKeeps DEF Loads
<1>2. CASE CheckChildNum
  BY <1>2, ChoiceIs DEF Loads, shared
<1>3. CASE LoadBits
  <2>1. read.slot \notin connected
    BY <1>3, LoadIs DEF Loads, Picked
  <2> QED
    BY <1>3, <2>1, LoadIs DEF Loads, shared
<1>4. CASE StoreBits
  <2>1. read'.pc \notin Picked /\ connected \subseteq connected'
    BY <1>4, StoreIs DEF Loads, Picked
  <2> QED
    BY <1>4, <2>1, StoreIs DEF Loads
<1>5. CASE TimeProcess
  <2>1. UNCHANGED read
    BY <1>5, TimeIs
  <2>2. connected' \subseteq connected
    BY <1>5, TimeIs DEF Loads
  <2>3. time'.pc = "load" => time'.slot \in connected'
    BY <1>5, TimeIs
  <2>4. time'.pc = "store" =>
           time'.slot \in time'.bits /\ time'.bits \subseteq connected'
    BY <1>5, TimeIs DEF Loads
  <2> QED
    BY <2>1, <2>2, <2>3, <2>4 DEF Loads
<1>6. CASE Main \/ (\E i \in Slots : FallSilent(i)) \/ UNCHANGED vars
  <2>1. UNCHANGED <<connected, read, time>>
    BY <1>6 DEF Main, InitChildBlock, NextBlock, Serve, TestBit, TestOld,
       SendCacheBlock, Shift, FallSilent, shared, vars
  <2> QED
    BY <2>1 DEF Loads
<1> QED
  BY <1>1, <1>2, <1>3, <1>4, <1>5, <1>6 DEF Next, InNodeSetup, InPlace

\* READ is never on a slot that is live, and only its store makes one live.
LEMMA LiveIs ==
    ASSUME TypeOK, Loads
    PROVE  /\ connected \subseteq Live /\ Live \subseteq Slots
           /\ read.pc \in Picked => read.slot \notin Live
  BY Types DEF Live, Loads, TypeOK, ReadType

LEMMA LiveKept ==
    ASSUME TypeOK, Loads, [Next]_vars, ~StoreBits
    PROVE  Live' \subseteq Live
<1>1. CASE InPlace
  BY <1>1, InPlaceKeeps DEF Live
<1>2. CASE CheckChildNum
  BY <1>2, ChoiceIs DEF Live, shared
<1>3. CASE LoadBits
  BY <1>3, LoadIs DEF Live, shared
<1>4. CASE TimeProcess
  <2>1. connected' \subseteq connected /\ UNCHANGED read
    BY <1>4, TimeIs DEF Loads
  <2> QED
    BY <2>1 DEF Live
<1>5. CASE Main \/ (\E i \in Slots : FallSilent(i)) \/ UNCHANGED vars
  <2>1. UNCHANGED <<connected, read, time>>
    BY <1>5 DEF Main, InitChildBlock, NextBlock, Serve, TestBit, TestOld,
       SendCacheBlock, Shift, FallSilent, shared, vars
  <2> QED
    BY <2>1 DEF Live
<1> QED
  BY <1>1, <1>2, <1>3, <1>4, <1>5 DEF Next, InNodeSetup, InPlace

LEMMA LiveStored ==
    ASSUME TypeOK, Loads, StoreBits
    PROVE  Live' = Live \cup {read.slot}
  BY StoreIs DEF Live

-----------------------------------------------------------------------------
(* Which child blocks have been renewed.                                    *)

\* Where main goes on to, and what it leaves of the blocks.
LEMMA MainIs ==
    ASSUME TypeOK, Main
    PROVE  /\ UNCHANGED <<connected, told, read, time>>
           /\ \/ /\ InitChildBlock /\ main'.pc \in {"init", "wait"}
                 /\ main'.pc = "init" => main'.slot = main.slot + 1
                 /\ main'.started = main.started
              \/ /\ main'.pc \in {"wait", "bit"} /\ UNCHANGED <<prev, info>>
                 /\ main'.started = main.started
              \/ /\ TestBit /\ main'.pc = "old" /\ UNCHANGED <<prev, info>>
                 /\ main.slot \in connected /\ main'.slot = main.slot
                 /\ main'.started = main.started
              \/ /\ TestOld /\ main'.pc = "send" /\ UNCHANGED <<prev, info>>
                 /\ Inside(main.slot) /\ main'.slot = main.slot
                 /\ main'.started = main.started
              \/ /\ SendCacheBlock /\ main'.pc = "shift" /\ UNCHANGED prev
                 /\ Inside(main.slot) /\ main'.slot = main.slot
                 /\ Renewed(info'[main.slot])
                 /\ main'.started = main.started \cup {main.slot}
              \/ /\ Shift /\ main.pc = "shift" /\ main'.pc \in {"wait", "bit"}
                 /\ main'.started = main.started
<1>a. main \in MainType /\ main.slot \in Slots
  BY Types DEF MainType
<1>b. NextSlot(main.slot).pc \in {"bit", "wait"}
      /\ NextSlot(main.slot).started = main.started
  BY <1>a, NextSlotType
<1>1. CASE InitChildBlock
  <2>1. CASE main.slot + 1 \in Slots
    <3>1. main' = [main EXCEPT !.slot = main.slot + 1]
      BY <1>1, <2>1 DEF InitChildBlock
    <3>2. main'.pc = main.pc /\ main'.slot = main.slot + 1
          /\ main'.started = main.started
      BY <3>1, <1>a DEF MainType
    <3> QED
      BY <1>1, <3>2 DEF InitChildBlock
  <2>2. CASE main.slot + 1 \notin Slots
    <3>1. main' = [main EXCEPT !.pc = "wait"]
      BY <1>1, <2>2 DEF InitChildBlock
    <3>2. main'.pc = "wait" /\ main'.started = main.started
      BY <3>1, <1>a DEF MainType
    <3> QED
      BY <1>1, <3>2 DEF InitChildBlock
  <2> QED
    BY <2>1, <2>2
<1>2. CASE NextBlock
  BY <1>2 DEF NextBlock
<1>3. CASE Serve
  <2>1. main'.pc = "bit" /\ main'.started = main.started
    BY <1>3, <1>a DEF Serve, MainType
  <2> QED
    BY <1>3, <2>1 DEF Serve, shared
<1>4. CASE TestBit
  <2>1. CASE main.slot \in connected
    <3>1. main'.pc = "old" /\ main'.slot = main.slot
          /\ main'.started = main.started
      BY <1>4, <2>1, <1>a DEF TestBit, MainType
    <3> QED
      BY <1>4, <2>1, <3>1 DEF TestBit, shared
  <2>2. CASE main.slot \notin connected
    BY <1>4, <2>2, <1>b DEF TestBit, shared
  <2> QED
    BY <2>1, <2>2
<1>5. CASE TestOld
  <2>1. CASE IsOldBlockSeq(prev[main.slot])
    <3>1. main'.pc = "send" /\ main'.slot = main.slot
          /\ main'.started = main.started
      BY <1>5, <2>1, <1>a DEF TestOld, MainType
    <3> QED
      BY <1>5, <2>1, <3>1 DEF TestOld, shared, Inside
  <2>2. CASE ~IsOldBlockSeq(prev[main.slot])
    BY <1>5, <2>2, <1>b DEF TestOld, shared
  <2> QED
    BY <2>1, <2>2
<1>6. CASE SendCacheBlock
  <2>1. main'.pc = "shift" /\ main'.slot = main.slot
        /\ main'.started = main.started \cup {main.slot}
    BY <1>6, <1>a DEF SendCacheBlock, MainType
  <2>2. info'[main.slot] =
          Position("SENT", prev[main.slot].cluster, prev[main.slot].seq + 1)
    BY <1>6, <1>a DEF SendCacheBlock, TypeOK
  <2>3. Renewed(info'[main.slot])
    BY <2>2 DEF Position, Renewed
  <2> QED
    BY <1>6, <2>1, <2>3 DEF SendCacheBlock, Inside
<1>7. CASE Shift
  BY <1>7, <1>b DEF Shift
<1> QED
  BY <1>1, <1>2, <1>3, <1>4, <1>5, <1>6, <1>7 DEF Main

LEMMA NoneNotRenewed == ASSUME NEW p, Renewed(p) PROVE p # None /\ p.status # "NULL"
  BY Constants DEF Renewed

LEMMA RenewedByMain ==
    ASSUME TypeOK, Loads, RenewedOnes, Main
    PROVE  RenewedOnes'
<1>a. main.slot \in Slots /\ Live' \subseteq Live
  BY Types, MainIs DEF MainType, Live
<1>b. UNCHANGED read
  BY MainIs
<1>1. CASE InitChildBlock
  <2>1. prev[main.slot] = None /\ main.pc = "init"
    <3>1. main.pc = "init"
      BY <1>1 DEF InitChildBlock
    <3>2. main.slot >= main.slot
      <4>1. main.slot \in Nat
        BY <1>a, SlotsAssumption
      <4> QED
        BY <4>1, SMT
    <3> QED
      BY <3>1, <3>2, <1>a DEF RenewedOnes
  <2>2. \A i \in Slots : i # main.slot => prev'[i] = prev[i]
    BY <1>1 DEF InitChildBlock, TypeOK
  <2>3. \A i \in Slots : prev[i] # None => prev'[i] = prev[i]
    BY <2>1, <2>2
  <2>4. main'.pc \in {"init", "wait"}
        /\ (main'.pc = "init" => main'.slot = main.slot + 1)
    BY <1>1, MainIs DEF InitChildBlock, TestBit, TestOld, SendCacheBlock
  <2>5. \A i \in Live' : Renewed(prev'[i])
    BY <1>a, <2>3, LiveIs, NoneNotRenewed DEF RenewedOnes
  <2>6. \A i \in Slots : ~Inside(i)'
    BY <2>4 DEF Inside
  <2>7. read.slot \in Slots
    BY Types DEF ReadType
  <2>8. read'.pc \in Picked \ {"name", "clear"} => Renewed(prev'[read'.slot])
    BY <1>b, <2>3, <2>7, NoneNotRenewed DEF RenewedOnes
  <2>9. read'.pc = "clear" => prev'[read'.slot] # None
    BY <1>b, <2>3, <2>7 DEF RenewedOnes
  <2>10. main'.pc = "init" =>
            \A j \in Slots : j >= main'.slot => prev'[j] = None
    <3> SUFFICES ASSUME main'.pc = "init", NEW j \in Slots, j >= main'.slot
                 PROVE  prev'[j] = None
      OBVIOUS
    <3>1. j >= main.slot /\ j # main.slot
      <4>1. j \in Nat /\ main.slot \in Nat
        BY <1>a, SlotsAssumption
      <4>2. j >= main.slot + 1
        BY <2>4
      <4> QED
        BY <4>1, <4>2, SMT
    <3> QED
      BY <3>1, <2>1, <2>2 DEF RenewedOnes
  <2> QED
    BY <2>4, <2>5, <2>6, <2>8, <2>9, <2>10 DEF RenewedOnes
<1>2. CASE Shift /\ ~InitChildBlock
  <2>1. main.pc = "shift" /\ main'.pc \in {"wait", "bit"}
    BY <1>2, MainIs DEF Shift, TestBit, TestOld, SendCacheBlock, NextSlot
  <2>2. Renewed(prev'[main.slot])
    <3>1. Renewed(info[main.slot])
      BY <2>1 DEF RenewedOnes
    <3>2. prev'[main.slot] = IF info[main.slot].seq < ClusterSize
                            THEN info[main.slot]
                            ELSE Position("INIT", info[main.slot].cluster + 1, 0)
      BY <1>2, <1>a DEF Shift, TypeOK
    <3>3. Renewed(Position("INIT", info[main.slot].cluster + 1, 0))
      BY DEF Position, Renewed
    <3> QED
      BY <3>1, <3>2, <3>3
  <2>3. \A i \in Slots : i # main.slot => prev'[i] = prev[i]
    BY <1>2 DEF Shift, TypeOK
  <2>4. \A i \in Slots : Renewed(prev[i]) => Renewed(prev'[i])
    BY <2>2, <2>3
  <2>5. \A i \in Slots : prev[i] # None => prev'[i] # None
    BY <2>2, <2>3, NoneNotRenewed
  <2>6. read.slot \in Slots
    BY Types DEF ReadType
  <2>7. \A i \in Live' : Renewed(prev'[i])
    BY <1>a, <2>4, LiveIs DEF RenewedOnes
  <2>8. \A i \in Slots : ~Inside(i)'
    BY <2>1 DEF Inside
  <2> QED
    BY <1>b, <2>1, <2>4, <2>5, <2>6, <2>7, <2>8 DEF RenewedOnes
<1>3. CASE ~Shift /\ ~InitChildBlock
  <2>1. UNCHANGED prev /\ main'.pc # "init"
    BY <1>3, MainIs
  <2>2. main'.pc = "shift" => Renewed(info'[main'.slot])
    BY <1>3, MainIs
  <2>3. \A i \in Slots : Inside(i)' => Inside(i) \/ i \in connected
    BY <1>3, MainIs DEF Inside
  <2>4. \A i \in Slots : Inside(i)' => Renewed(prev[i])
    BY <2>3, LiveIs DEF RenewedOnes
  <2> QED
    BY <1>a, <1>b, <2>1, <2>2, <2>4 DEF RenewedOnes
<1> QED
  BY <1>1, <1>2, <1>3

\* What the steps of READ leave of the blocks; Renewing are those that change
\* the one of the slot.
Renewing == NameCluster \/ ClearInfos \/ SetPrev \/ StepBack

LEMMA RenewingIs ==
    ASSUME TypeOK, Renewing
    PROVE  /\ UNCHANGED <<connected, current, told, silent, time>>
           /\ main'.pc = main.pc /\ main'.slot = main.slot
           /\ read'.slot = read.slot /\ read.slot \in Slots
           /\ read.pc \in Picked /\ read'.pc \in Picked \ {"name", "load", "store"}
           /\ \A i \in Slots :
                 i # read.slot => prev'[i] = prev[i] /\ info'[i] = info[i]
           /\ \/ /\ NameCluster /\ read'.pc = "clear" /\ read.pc = "name"
                 /\ prev' = prev /\ prev[read.slot] # None
                 /\ info'[read.slot].status = info[read.slot].status
              \/ /\ ClearInfos /\ read'.pc = "renew" /\ read.pc = "clear"
                 /\ Renewed(prev'[read.slot]) /\ Renewed(info'[read.slot])
                 /\ main' = main /\ read'.overlap = read.overlap
              \/ /\ (SetPrev \/ StepBack) /\ read'.pc \in {"back", "tell"}
                 /\ read.pc \in {"renew", "back"} /\ info' = info
                 /\ (Renewed(prev[read.slot]) => Renewed(prev'[read.slot]))
                 /\ main' = main /\ read'.overlap = read.overlap
<1>a. read \in ReadType /\ read.slot \in Slots /\ main \in MainType
  BY Types DEF ReadType
<1>b. prev[read.slot] \in Positions /\ info[read.slot] \in Positions
  BY <1>a DEF TypeOK
<1>1. CASE NameCluster
  <2>1. read'.pc = "clear" /\ read'.slot = read.slot
    BY <1>1, <1>a, ThenIs DEF NameCluster, ReadType
  <2>2. main'.pc = main.pc /\ main'.slot = main.slot
    BY <1>1, <1>a DEF NameCluster, MainType
  <2>3. info' = [info EXCEPT ![read.slot] =
                   [info[read.slot] EXCEPT !.cluster = U16(current.cluster)]]
    BY <1>1 DEF NameCluster
  <2>4. \A i \in Slots : i # read.slot => info'[i] = info[i]
    BY <2>3 DEF TypeOK
  <2>5. info'[read.slot] =
           [info[read.slot] EXCEPT !.cluster = U16(current.cluster)]
    BY <2>3, <1>a DEF TypeOK
  <2>6. info'[read.slot].status = info[read.slot].status
    BY <2>5, <1>b DEF Positions
  <2> QED
    BY <1>1, <1>a, <2>1, <2>2, <2>4, <2>6 DEF NameCluster, Picked
<1>2. CASE ClearInfos
  <2>1. read'.pc = "renew" /\ read'.slot = read.slot
        /\ read'.overlap = read.overlap
    BY <1>2, <1>a, ThenIs DEF ClearInfos, ReadType
  <2>2. prev'[read.slot] = Zero /\ info'[read.slot] = Zero
    BY <1>2, <1>a DEF ClearInfos, TypeOK
  <2>3. \A i \in Slots :
           i # read.slot => prev'[i] = prev[i] /\ info'[i] = info[i]
    BY <1>2 DEF ClearInfos, TypeOK
  <2> QED
    BY <1>2, <1>a, <2>1, <2>2, <2>3, Constants DEF ClearInfos, Picked
<1>3. CASE SetPrev
  <2>1. read'.pc = "back" /\ read'.slot = read.slot
        /\ read'.overlap = read.overlap
    BY <1>3, <1>a, ThenIs DEF SetPrev, ReadType
  <2>2. prev'[read.slot] = Position("INIT", read.cluster + 1, 0)
    BY <1>3, <1>a DEF SetPrev, TypeOK
  <2>3. Renewed(prev'[read.slot])
    BY <2>2 DEF Position, Renewed
  <2>4. \A i \in Slots : i # read.slot => prev'[i] = prev[i]
    BY <1>3 DEF SetPrev, TypeOK
  <2> QED
    BY <1>3, <1>a, <2>1, <2>3, <2>4 DEF SetPrev, Picked
<1>4. CASE StepBack
  <2>1. read'.pc = "tell" /\ read'.slot = read.slot
        /\ read'.overlap = read.overlap
    BY <1>4, <1>a, ThenIs DEF StepBack, ReadType
  <2>2. prev'[read.slot] = Back(prev[read.slot])
    BY <1>4, <1>a DEF StepBack, TypeOK
  <2>3. prev'[read.slot].status = prev[read.slot].status
    BY <2>2, <1>b DEF Back, Positions
  <2>4. \A i \in Slots : i # read.slot => prev'[i] = prev[i]
    BY <1>4 DEF StepBack, TypeOK
  <2> QED
    BY <1>4, <1>a, <2>1, <2>3, <2>4 DEF StepBack, Picked, Renewed
<1> QED
  BY <1>1, <1>2, <1>3, <1>4 DEF Renewing

LEMMA RenewedByRenewing ==
    ASSUME TypeOK, Loads, RenewedOnes, Renewing
    PROVE  RenewedOnes'
<1>a. Live' = Live /\ read.slot \notin Live /\ Live \subseteq Slots
  <2>1. InPlace /\ read.pc \in Picked
    BY RenewingIs DEF Renewing, InPlace
  <2> QED
    BY <2>1, InPlaceKeeps, LiveIs DEF Live
<1>b. main.slot \in Slots
  BY Types DEF MainType
<1>1. \A i \in Slots : Renewed(prev[i]) => Renewed(prev'[i])
  BY RenewingIs
<1>2. Renewed(info[main.slot]) => Renewed(info'[main.slot])
  BY RenewingIs, <1>b DEF Renewed
<1>3. \A i \in Live' : Renewed(prev'[i])
  BY <1>a, <1>1 DEF RenewedOnes
<1>4. \A i \in Slots : Inside(i)' => Renewed(prev'[i])
  BY <1>1, RenewingIs DEF RenewedOnes, Inside
<1>5. main'.pc = "shift" => Renewed(info'[main'.slot])
  BY <1>2, RenewingIs DEF RenewedOnes
<1>6. read'.pc = "clear" => prev'[read'.slot] # None
  BY RenewingIs
<1>7. read'.pc \in Picked \ {"name", "clear"} => Renewed(prev'[read'.slot])
  <2>1. read.pc \in {"renew", "back"} => Renewed(prev[read.slot])
    BY DEF RenewedOnes, Picked
  <2> QED
    BY <2>1, RenewingIs
<1>8. main'.pc = "init" =>
         \A j \in Slots : j >= main'.slot => prev'[j] = None
  <2>1. prev[read.slot] # None
    <3>1. read.pc = "clear" => prev[read.slot] # None
      BY DEF RenewedOnes
    <3>2. read.pc \in {"renew", "back"} => prev[read.slot] # None
      BY NoneNotRenewed DEF RenewedOnes, Picked
    <3> QED
      BY <3>1, <3>2, RenewingIs
  <2> QED
    BY <2>1, RenewingIs DEF RenewedOnes
<1> QED
  BY <1>3, <1>4, <1>5, <1>6, <1>7, <1>8 DEF RenewedOnes

LEMMA RenewedKept ==
    ASSUME TypeOK, Loads, RenewedOnes, [Next]_vars
    PROVE  RenewedOnes'
<1>1. CASE Main
  BY <1>1, RenewedByMain
<1>2. CASE Renewing
  BY <1>2, RenewedByRenewing
<1>3. CASE ~Main /\ ~Renewing
  <2>1. UNCHANGED <<prev, info, main>>
    BY <1>3 DEF Next, InNodeSetup, Renewing, TimeProcess, NodeSetup, CheckChildNum,
       NoneFree, CrashEarly, Tell, LoadBits, StoreBits, LoadNum, StoreNum,
       PassSlot, ExpireSlot, LoadBitsT, StoreBitsT, LoadNumT, StoreNumT,
       FallSilent, shared, vars
  <2>2. \A i \in Live' : Renewed(prev[i])
    <3>1. CASE StoreBits
      BY <3>1, LiveStored, StoreIs DEF RenewedOnes, Picked
    <3>2. CASE ~StoreBits
      BY <3>2, LiveKept DEF RenewedOnes
    <3> QED
      BY <3>1, <3>2
  <2>3. (read'.pc \in Picked \ {"name", "clear"} => Renewed(prev[read'.slot]))
        /\ (read'.pc = "clear" => prev[read'.slot] # None)
    <3>1. CASE Tell
      <4>1. read' = [read EXCEPT !.pc = "load"] /\ read.pc = "tell"
        BY <3>1, ThenIs DEF Tell
      <4>2. read'.pc = "load" /\ read'.slot = read.slot
        BY <4>1, Types DEF ReadType
      <4> QED
        BY <4>1, <4>2 DEF RenewedOnes, Picked
    <3>2. CASE LoadBits
      BY <3>2, LoadIs DEF RenewedOnes, Picked
    <3>3. CASE StoreBits \/ CheckChildNum
      BY <3>3, StoreIs, ChoiceIs DEF Picked
    <3>4. CASE NodeSetup \/ NoneFree \/ CrashEarly \/ LoadNum \/ StoreNum
      <4>1. read'.pc \in {"pick", "idle", "crashed", "add"}
        BY <3>4, Types, ThenIs
        DEF NodeSetup, NoneFree, CrashEarly, LoadNum, StoreNum, ReadType
      <4> QED
        BY <4>1 DEF Picked
    <3>5. CASE TimeProcess \/ (\E i \in Slots : FallSilent(i)) \/ UNCHANGED vars
      <4>1. UNCHANGED read
        BY <3>5, TimeIs DEF FallSilent, vars
      <4> QED
        BY <4>1 DEF RenewedOnes
    <3> QED
      BY <1>3, <3>1, <3>2, <3>3, <3>4, <3>5 DEF Next, InNodeSetup, Renewing
  <2> QED
    BY <2>1, <2>2, <2>3 DEF RenewedOnes, Inside
<1> QED
  BY <1>1, <1>2, <1>3

-----------------------------------------------------------------------------
(* Which of them are where INITIAL_STATUS said.                             *)

LEMMA ToldByMain ==
    ASSUME TypeOK, Loads, RenewedOnes, AtTold, Main
    PROVE  AtTold'
<1>a. UNCHANGED <<connected, told, read>> /\ Live' = Live
  BY MainIs DEF Live
<1>b. Moved \subseteq Moved'
  BY MainIs DEF Moved
<1>c. main.slot \in Slots /\ read.slot \in Slots
  BY Types DEF MainType, ReadType
<1>1. \A i \in Slots :
         Renewed(prev[i]) /\ i \notin Moved => prev'[i] = prev[i]
  <2>1. CASE InitChildBlock
    <3>1. prev[main.slot] = None
      <4>1. main.slot \in Nat /\ main.pc = "init"
        BY <2>1, <1>c, SlotsAssumption DEF InitChildBlock
      <4>2. main.slot >= main.slot
        BY <4>1, SMT
      <4> QED
        BY <4>1, <4>2, <1>c DEF RenewedOnes
    <3>2. \A i \in Slots : i # main.slot => prev'[i] = prev[i]
      BY <2>1 DEF InitChildBlock, TypeOK
    <3> QED
      BY <3>1, <3>2, NoneNotRenewed
  <2>2. CASE Shift
    <3>1. main.slot \in Moved
      BY <2>2 DEF Shift, AtTold
    <3>2. \A i \in Slots : i # main.slot => prev'[i] = prev[i]
      BY <2>2 DEF Shift, TypeOK
    <3> QED
      BY <3>1, <3>2
  <2>3. CASE ~InitChildBlock /\ ~Shift
    BY <2>3, MainIs
  <2> QED
    BY <2>1, <2>2, <2>3
<1>2. \A i \in Live' \ Moved' : prev'[i] = told'[i]
  <2> SUFFICES ASSUME NEW i \in Live' \ Moved' PROVE prev'[i] = told'[i]
    OBVIOUS
  <2>1. i \in Live /\ i \notin Moved /\ i \in Slots
    BY <1>a, <1>b, LiveIs
  <2>2. Renewed(prev[i]) /\ prev[i] = told[i]
    BY <2>1 DEF RenewedOnes, AtTold
  <2> QED
    BY <2>1, <2>2, <1>1, <1>a
<1>3. read'.pc \in {"load", "store"} /\ read'.slot \notin Moved' =>
         prev'[read'.slot] = told'[read'.slot]
  <2> SUFFICES ASSUME read.pc \in {"load", "store"}, read.slot \notin Moved
               PROVE  prev'[read.slot] = told[read.slot]
    BY <1>a, <1>b
  <2>1. Renewed(prev[read.slot]) /\ prev[read.slot] = told[read.slot]
    BY DEF RenewedOnes, AtTold, Picked
  <2> QED
    BY <2>1, <1>1, <1>c
<1>4. main'.pc = "shift" => main'.slot \in Moved'
  BY MainIs DEF Moved
<1>5. read'.pc \in Picked \ {"name"} /\ Meets' =>
         read'.slot \in read'.overlap
  <2>1. \A i \in Slots : Inside(i)' => Inside(i) \/ i \in connected
    BY MainIs DEF Inside
  <2>2. read.pc \in Picked => read.slot \notin connected
    BY DEF Loads
  <2>3. Meets' => Inside(read.slot)'
    BY <1>a DEF Meets, Inside
  <2>4. Inside(read.slot) => Meets
    BY DEF Meets, Inside
  <2> QED
    BY <2>1, <2>2, <2>3, <2>4, <1>a, <1>c DEF AtTold
<1> QED
  BY <1>2, <1>3, <1>4, <1>5 DEF AtTold

LEMMA ToldByRenewing ==
    ASSUME TypeOK, Loads, AtTold, Renewing
    PROVE  AtTold'
<1>a. Live' = Live /\ read.slot \notin Live /\ Live \subseteq Slots
  <2>1. InPlace /\ read.pc \in Picked
    BY RenewingIs DEF Renewing, InPlace
  <2> QED
    BY <2>1, InPlaceKeeps, LiveIs DEF Live
<1>1. \A i \in Slots : i # read.slot => (i \in Moved' <=> i \in Moved)
  <2>1. CASE NameCluster
    <3>1. main'.started = main.started \ {read.slot}
      BY <2>1, Types DEF NameCluster, MainType
    <3>2. read'.overlap = read.overlap \cup {read.slot}
          \/ read'.overlap = read.overlap \ {read.slot}
      BY <2>1, Types DEF NameCluster, ReadType
    <3> QED
      BY <3>1, <3>2 DEF Moved
  <2>2. CASE ~NameCluster
    BY <2>2, RenewingIs DEF Moved
  <2> QED
    BY <2>1, <2>2
<1>2. Meets' => read.slot \in read'.overlap
  <2>1. CASE NameCluster
    <3>1. Meets <=> Meets'
      BY RenewingIs DEF Meets
    <3>2. Meets => read'.overlap = read.overlap \cup {read.slot}
      BY <2>1, Types DEF NameCluster, ReadType, Meets, Inside
    <3> QED
      BY <3>1, <3>2
  <2>2. CASE ~NameCluster
    <3>1. main' = main /\ read'.overlap = read.overlap
          /\ read.pc \in Picked \ {"name"} /\ read'.slot = read.slot
      BY <2>2, RenewingIs DEF Picked
    <3> QED
      BY <3>1 DEF AtTold, Meets
  <2> QED
    BY <2>1, <2>2
<1>3. \A i \in Live' \ Moved' : prev'[i] = told'[i]
  BY <1>a, <1>1, RenewingIs DEF AtTold
<1>4. read'.pc \notin {"load", "store"}
  BY RenewingIs
<1>5. main'.pc = "shift" => main'.slot \in Moved'
  <2> SUFFICES ASSUME main'.pc = "shift" PROVE main'.slot \in Moved'
    OBVIOUS
  <2>1. main.pc = "shift" /\ main'.slot = main.slot /\ main.slot \in Slots
    BY RenewingIs, Types DEF MainType
  <2>2. CASE main.slot = read.slot
    <3>1. Meets'
      BY <2>1, <2>2, RenewingIs DEF Meets
    <3> QED
      BY <3>1, <2>1, <2>2, <1>2 DEF Moved
  <2>3. CASE main.slot # read.slot
    BY <2>1, <2>3, <1>1 DEF AtTold
  <2> QED
    BY <2>2, <2>3
<1>6. Meets' => read'.slot \in read'.overlap
  <2>1. read'.slot = read.slot
    BY RenewingIs
  <2> QED
    BY <2>1, <1>2
<1> QED
  BY <1>3, <1>4, <1>5, <1>6 DEF AtTold

LEMMA ToldKept ==
    ASSUME TypeOK, Loads, RenewedOnes, AtTold, [Next]_vars
    PROVE  AtTold'
<1>1. CASE Main
  BY <1>1, ToldByMain
<1>2. CASE Renewing
  BY <1>2, ToldByRenewing
<1>3. CASE Tell
  <2>1. read' = [read EXCEPT !.pc = "load"] /\ read.pc = "tell"
    BY <1>3, ThenIs DEF Tell
  <2>2. read'.pc = "load" /\ read'.slot = read.slot /\ read.slot \in Slots
        /\ read'.overlap = read.overlap
    BY <2>1, Types DEF ReadType
  <2>3. UNCHANGED <<connected, prev, main>>
    BY <1>3 DEF Tell, shared
  <2>4. told'[read.slot] = prev[read.slot]
        /\ \A i \in Slots : i # read.slot => told'[i] = told[i]
    BY <1>3, <2>2 DEF Tell, TypeOK
  <2>5. Live' = Live /\ Live \subseteq Slots /\ read.slot \notin Live
    BY <2>1, <2>2, <2>3, LiveIs DEF Live, Picked
  <2>6. Moved' = Moved /\ (Meets' <=> Meets)
    BY <2>2, <2>3 DEF Moved, Meets
  <2>7. \A i \in Live' \ Moved' : prev'[i] = told'[i]
    BY <2>3, <2>4, <2>5, <2>6 DEF AtTold
  <2>8. prev'[read'.slot] = told'[read'.slot]
    BY <2>2, <2>3, <2>4
  <2>9. main'.pc = "shift" => main'.slot \in Moved'
    BY <2>3, <2>6 DEF AtTold
  <2>10. Meets' => read'.slot \in read'.overlap
    <3>1. Meets' => Meets
      BY <2>2, <2>3 DEF Meets
    <3> QED
      BY <3>1, <2>1, <2>2 DEF AtTold, Picked
  <2> QED
    BY <2>7, <2>8, <2>9, <2>10 DEF AtTold
<1>4. CASE ~Main /\ ~Renewing /\ ~Tell
  <2>1. UNCHANGED <<prev, told, main>>
    BY <1>4 DEF Next, InNodeSetup, Renewing, TimeProcess, NodeSetup, CheckChildNum,
       NoneFree, CrashEarly, Tell, LoadBits, StoreBits, LoadNum, StoreNum,
       PassSlot, ExpireSlot, LoadBitsT, StoreBitsT, LoadNumT, StoreNumT,
       FallSilent, shared, vars
  <2>2. read'.overlap = read.overlap
    <3>1. CASE InNodeSetup \/ NodeSetup
      BY <1>4, <3>1, Types DEF InNodeSetup, Renewing, NodeSetup, CheckChildNum,
         NoneFree, CrashEarly, LoadBits, StoreBits, LoadNum, StoreNum, ReadType
    <3>2. CASE ~InNodeSetup /\ ~NodeSetup
      BY <1>4, <3>2, TimeIs DEF Next, FallSilent, vars
    <3> QED
      BY <3>1, <3>2
  <2>3. Moved' = Moved
    BY <2>1, <2>2 DEF Moved
  <2>4. \A i \in Live' \ Moved : prev[i] = told[i]
    <3>1. CASE StoreBits
      BY <3>1, LiveStored, StoreIs DEF AtTold
    <3>2. CASE ~StoreBits
      BY <3>2, LiveKept DEF AtTold
    <3> QED
      BY <3>1, <3>2
  <2>5. \/ read'.pc \notin Picked \ {"name"}
        \/ /\ read'.slot = read.slot /\ read.pc \in Picked \ {"name"}
           /\ (read'.pc \in {"load", "store"} => read.pc \in {"load", "store"})
    <3>1. CASE CheckChildNum
      BY <3>1, ChoiceIs
    <3>2. CASE LoadBits
      BY <3>2, LoadIs DEF Picked
    <3>3. CASE StoreBits
      BY <3>3, StoreIs DEF Picked
    <3>4. CASE NodeSetup \/ NoneFree \/ CrashEarly \/ LoadNum \/ StoreNum
      <4>1. read'.pc \in {"pick", "idle", "crashed", "add"}
        BY <3>4, Types, ThenIs
        DEF NodeSetup, NoneFree, CrashEarly, LoadNum, StoreNum, ReadType
      <4> QED
        BY <4>1 DEF Picked
    <3>5. CASE TimeProcess \/ (\E i \in Slots : FallSilent(i)) \/ UNCHANGED vars
      <4>1. UNCHANGED read
        BY <3>5, TimeIs DEF FallSilent, vars
      <4> QED
        BY <4>1
    <3> QED
      BY <1>4, <3>1, <3>2, <3>3, <3>4, <3>5 DEF Next, InNodeSetup, Renewing
  <2>6. read'.slot = read.slot => (Meets' => Meets)
    BY <2>1 DEF Meets
  <2>7. read'.pc \in {"load", "store"} => read'.pc \in Picked \ {"name"}
    BY DEF Picked
  <2>8. read'.pc \in {"load", "store"} /\ read'.slot \notin Moved =>
           prev[read'.slot] = told[read'.slot]
    BY <2>5, <2>7 DEF AtTold
  <2>9. read'.pc \in Picked \ {"name"} /\ Meets' =>
           read'.slot \in read'.overlap
    BY <2>2, <2>5, <2>6 DEF AtTold
  <2>10. main.pc = "shift" => main.slot \in Moved
    BY DEF AtTold
  <2> QED
    BY <2>1, <2>3, <2>4, <2>8, <2>9, <2>10 DEF AtTold
<1> QED
  BY <1>1, <1>2, <1>3, <1>4

-----------------------------------------------------------------------------
(* The theorems.                                                            *)

LEMMA Inductive == Spec => []IInv
<1>1. Init => IInv
  BY InitHolds
<1>2. IInv /\ [Next]_vars => IInv'
  <2> SUFFICES ASSUME IInv, [Next]_vars PROVE IInv'
    OBVIOUS
  <2>1. TypeOK'
    <3>1. CASE UNCHANGED vars
      BY <3>1 DEF IInv, TypeOK, vars, shared
    <3> QED
      BY <3>1, MainTypes, ReadTypes, TimeTypes DEF IInv, Next
  <2>2. Loads' /\ RenewedOnes' /\ AtTold'
    BY LoadsKept, RenewedKept, ToldKept DEF IInv
  <2> QED
    BY <2>1, <2>2 DEF IInv
<1> QED
  BY <1>1, <1>2, PTL DEF Spec

\* Every value stays of its type: the threads never leave the slots, and no
\* position leaves the sixteen bits of cluster_seq.
THEOREM TypeOKHolds == Spec => []TypeOK
<1>1. IInv => TypeOK
  BY DEF IInv
<1> QED
  BY <1>1, Inductive, PTL

\* No interleaving of NodeSetup (+=) and TimeProcess (-=) carries from one bit
\* of CONNECTED_NODES into another.
THEOREM BitsCleanHolds == Spec => []BitsClean
<1>1. IInv => BitsClean
  BY DEF IInv, Loads, BitsClean
<1> QED
  BY <1>1, Inductive, PTL

\* SendMulStream only serves child blocks that NodeSetup has renewed, and
\* starts a child where its INITIAL_STATUS said, whatever the threads do in
\* between.
THEOREM StartsAsToldHolds == Spec => []StartsAsTold
<1>1. ASSUME IInv PROVE StartsAsTold
  <2> SUFFICES ASSUME NEW i \in Slots
               PROVE  /\ Inside(i) => prev[i].status \notin {"NULL", "JUNK"}
                      /\ i \in connected \ (main.started \cup read.overlap) =>
                            prev[i] = told[i]
    BY DEF StartsAsTold
  <2>1. Inside(i) => Renewed(prev[i])
    BY <1>1 DEF IInv, RenewedOnes
  <2>2. i \in connected => i \in Live
    BY <1>1, LiveIs DEF IInv
  <2> QED
    BY <2>1, <2>2, <1>1 DEF IInv, AtTold, Moved, Renewed
<1> QED
  BY <1>1, Inductive, PTL

=============================================================================
