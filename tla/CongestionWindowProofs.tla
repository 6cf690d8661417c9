---------------------- MODULE CongestionWindowProofs ----------------------
(***************************************************************************)
(* Proofs about CongestionWindow, for every set of packet lengths, every   *)
(* set of capacities, any number of packets and of flushes.                *)
(*                                                                         *)
(* IndInv is inductive.  The interesting steps are the ones where a thread *)
(* ends its walk (WalkedCovers) and where the receiver, whose test used a  *)
(* count that the sender stored, adds its packet.                          *)
(***************************************************************************)
EXTENDS CongestionWindow, TLAPS

LEMMA Constants ==
  /\ MaxLength \in Nat
  /\ MaxCapacity \in Nat
  /\ MaxPackets \in Nat
  /\ \A len \in Lengths : len \in Nat /\ 1 <= len /\ len <= MaxLength
  /\ \A c \in Capacities : c \in Nat /\ c <= MaxCapacity
BY LengthsAssumption, CapacitiesAssumption, BoundsAssumption

LEMMA LessLeft ==
  ASSUME NEW all \in Nat, NEW gone \in Nat, NEW more \in Nat, gone <= more
  PROVE  all - more <= all - gone
OBVIOUS

LEMMA FromZero == \A n \in Nat : 0 <= n /\ 0 >= 0 - n
OBVIOUS

\* The fields of a packet in the window are numbers.
LEMMA PacketFields ==
  ASSUME TypeOK, NEW i \in DOMAIN deque
  PROVE  /\ deque[i] \in Packet
         /\ deque[i].len \in Nat
         /\ deque[i].len >= 1
         /\ deque[i].len <= MaxLength
         /\ deque[i].off \in Nat
<1>1. deque[i] \in Packet
  BY DEF TypeOK
<1> QED
  BY <1>1, Constants DEF Packet

(***************************************************************************)
(* One step of a walk keeps it covering (the lambda of lines 31 and 47).   *)
(***************************************************************************)
LEMMA VisitCovers ==
  ASSUME TypeOK, IsStream, InOrder,
         NEW seen \in Nat, NEW sum \in Nat, Covers(seen, sum),
         NEW i \in DOMAIN deque, IsNext(i, seen)
  PROVE  Covers(deque[i].off + deque[i].len, sum + deque[i].len)
<1> DEFINE end == deque[i].off + deque[i].len
<1>0. /\ DOMAIN deque = 1..Len(deque)
      /\ Len(deque) \in Nat
      /\ taken \in Nat
      /\ admitted \in Nat
  BY DEF TypeOK
<1>1. \A k \in DOMAIN deque : /\ deque[k].len \in Nat
                              /\ deque[k].len >= 1
                              /\ deque[k].off \in Nat
  BY PacketFields
<1>2. Boundary(end)
  <2>1. CASE i = Len(deque)
    BY <1>0, <2>1 DEF IsStream, Boundary
  <2>2. CASE i # Len(deque)
    <3>1. i \in 1..(Len(deque) - 1) /\ i + 1 \in DOMAIN deque
      BY <1>0, <2>2
    <3> QED
      BY <3>1 DEF IsStream, Boundary
  <2> QED
    BY <2>1, <2>2
<1>3. sum + deque[i].len >= end - taken
  <2>1. CASE seen <= taken
    <3>1. 1 \in DOMAIN deque /\ deque[1].off = taken
      BY <1>0 DEF IsStream
    <3>2. 1 \in Unvisited(seen)
      BY <1>0, <2>1, <3>1 DEF Unvisited
    <3>3. i = 1
      BY <1>0, <3>2 DEF IsNext
    <3> QED
      BY <1>0, <1>1, <3>1, <3>3
  <2>2. CASE seen = admitted
    BY <1>0, <1>1, <2>2 DEF IsNext, Unvisited, InOrder
  <2>3. CASE \E k \in DOMAIN deque : deque[k].off = seen
    <3>1. PICK k \in DOMAIN deque : deque[k].off = seen
      BY <2>3
    <3>2. i <= k /\ deque[i].off >= deque[k].off
      BY <1>1, <3>1 DEF IsNext, Unvisited
    <3>3. deque[i].off = seen
      BY <1>0, <1>1, <3>1, <3>2 DEF InOrder
    <3> QED
      BY <1>0, <1>1, <3>3 DEF Covers
  <2> QED
    BY <2>1, <2>2, <2>3 DEF Covers, Boundary
<1> QED
  BY <1>2, <1>3 DEF Covers

(***************************************************************************)
(* A walk that meets no more packet has counted all there is.              *)
(***************************************************************************)
LEMMA WalkedCovers ==
  ASSUME TypeOK, IsStream, NEW seen \in Nat, NEW sum \in Nat,
         Covers(seen, sum), Unvisited(seen) = {}
  PROVE  sum >= Bytes
<1>0. taken \in Nat /\ admitted \in Nat /\ DOMAIN deque = 1..Len(deque) /\ Len(deque) \in Nat
  BY DEF TypeOK
<1>1. CASE seen <= taken
  <2>1. deque = <<>>
    <3> SUFFICES ASSUME deque # <<>> PROVE FALSE
      OBVIOUS
    <3>1. 1 \in DOMAIN deque /\ deque[1].off = taken
      BY <1>0 DEF IsStream, TypeOK
    <3> QED
      BY <1>0, <1>1, <3>1 DEF Unvisited
  <2> QED
    BY <1>0, <2>1 DEF IsStream, Bytes
<1>2. CASE seen = admitted
  BY <1>0, <1>2 DEF Covers, Bytes
<1>3. CASE \E k \in DOMAIN deque : deque[k].off = seen
  BY <1>3 DEF Unvisited
<1> QED
  BY <1>1, <1>2, <1>3 DEF Covers, Boundary

LEMMA InitIndInv == Init => IndInv
<1> SUFFICES ASSUME Init PROVE IndInv
  OBVIOUS
<1>1. TypeOK
  <2>1. deque \in Seq(Packet)
    BY DEF Init
  <2>2. recvLen \in 0..MaxLength /\ offered \in 0..MaxPackets
    BY Constants DEF Init
  <2>3. /\ mainPc \in {"test", "first", "between", "second"}
        /\ recvPc \in {"read", "count", "test", "countDrop", "add", "walk", "store"}
        /\ sendPc \in {"peek", "pop", "walk", "store"}
        /\ torn \in BOOLEAN
    BY DEF Init
  <2> QED
    BY <2>1, <2>2, <2>3 DEF Init, TypeOK
<1>2. LocalsKnown
  BY DEF Init, LocalsKnown
<1>3. CountsOffered /\ CountsAgree
  BY DEF Init, CountsOffered, CountsAgree
<1> QED
  BY <1>1, <1>2, <1>3, Constants
  DEF Init, IndInv, IsStream, InOrder, PushWalkCovers, PushRecountCovers, PopWalkCovers,
    TestedSize, ShortByOne, PendingPopStore, BoundedOvershoot, Bytes, Outside

(***************************************************************************)
(* deque.add: the window stays a stream and every walk stays covering.     *)
(***************************************************************************)
LEMMA AddKeepsStream ==
  ASSUME IndInv, PushAdd
  PROVE  /\ TypeOK'
         /\ IsStream'
         /\ InOrder'
         /\ \A seen \in Nat : Boundary(seen) => Boundary(seen)'
<1> DEFINE pkt == [len |-> recvLen, off |-> admitted]
<1>1. /\ recvLen \in Lengths
      /\ recvLen \in Nat
      /\ recvLen >= 1
      /\ admitted \in Nat
      /\ taken \in Nat
      /\ deque \in Seq(Packet)
      /\ Len(deque) \in Nat
      /\ DOMAIN deque = 1..Len(deque)
  BY Constants DEF IndInv, TypeOK, PushAdd, LocalsKnown
<1>2. pkt \in Packet
  BY <1>1 DEF Packet
<1>3. /\ deque' = Append(deque, pkt)
      /\ deque' \in Seq(Packet)
      /\ Len(deque') = Len(deque) + 1
      /\ DOMAIN deque' = 1..(Len(deque) + 1)
      /\ \A i \in DOMAIN deque : deque'[i] = deque[i]
      /\ deque'[Len(deque) + 1] = pkt
      /\ admitted' = admitted + recvLen
      /\ taken' = taken
  BY <1>1, <1>2 DEF PushAdd
<1>4. \A i \in DOMAIN deque : deque[i].off \in Nat /\ deque[i].len \in Nat
  BY PacketFields DEF IndInv
<1>5. TypeOK'
  BY <1>1, <1>3, Constants DEF IndInv, TypeOK, PushAdd, countVars, statVars, flushVars, sendVars
<1>6. IsStream'
  BY <1>1, <1>3, <1>4 DEF IndInv, IsStream
<1>7. InOrder'
  BY <1>1, <1>3, <1>4 DEF IndInv, InOrder
<1>8. \A seen \in Nat : Boundary(seen) => Boundary(seen)'
  BY <1>1, <1>3 DEF Boundary
<1> QED
  BY <1>5, <1>6, <1>7, <1>8

(***************************************************************************)
(* deque.pop: likewise at the other end.                                   *)
(***************************************************************************)
LEMMA PopKeepsStream ==
  ASSUME IndInv, Pop
  PROVE  /\ TypeOK'
         /\ IsStream'
         /\ InOrder'
         /\ taken' >= taken
         /\ \A seen \in Nat : Boundary(seen) => Boundary(seen)'
<1>1. /\ admitted \in Nat
      /\ taken \in Nat
      /\ deque \in Seq(Packet)
      /\ deque # <<>>
      /\ Len(deque) \in Nat
      /\ Len(deque) >= 1
      /\ DOMAIN deque = 1..Len(deque)
  BY DEF IndInv, TypeOK, Pop
<1>2. \A i \in DOMAIN deque : deque[i].off \in Nat /\ deque[i].len \in Nat
  BY PacketFields DEF IndInv
<1>3. /\ deque' = Tail(deque)
      /\ deque' \in Seq(Packet)
      /\ Len(deque') = Len(deque) - 1
      /\ DOMAIN deque' = 1..(Len(deque) - 1)
      /\ \A i \in DOMAIN deque' : deque'[i] = deque[i + 1]
      /\ taken' = taken + deque[1].len
      /\ admitted' = admitted
  BY <1>1 DEF Pop
<1>4. 1 \in DOMAIN deque /\ deque[1].off = taken /\ taken' = deque[1].off + deque[1].len
  BY <1>1, <1>3 DEF IndInv, IsStream
<1>5. TypeOK'
  BY <1>1, <1>2, <1>3, <1>4 DEF IndInv, TypeOK, Pop, countVars, statVars, flushVars, recvVars
<1>6. IsStream'
  <2>1. CASE Len(deque) = 1
    BY <1>1, <1>2, <1>3, <1>4, <2>1 DEF IndInv, IsStream
  <2>2. CASE Len(deque) > 1
    <3>1. deque' # <<>> /\ Len(deque') >= 1
      BY <1>1, <1>3, <2>2
    <3>2. 2 \in DOMAIN deque /\ deque[2].off = taken' /\ taken' <= admitted
      <4>1. IsStream /\ InOrder
        BY DEF IndInv
      <4>2. 1 \in 1..(Len(deque) - 1) /\ 2 \in DOMAIN deque
        BY <1>1, <2>2
      <4>3. deque[1 + 1].off = deque[1].off + deque[1].len
        BY <4>1, <4>2 DEF IsStream
      <4>4. taken' <= admitted
        BY <1>1, <1>2, <1>4, <4>1 DEF InOrder
      <4> QED
        BY <1>4, <4>2, <4>3, <4>4
    <3>3. deque'[1] = deque[2] /\ deque'[Len(deque')] = deque[Len(deque)]
      BY <1>1, <1>3, <2>2
    <3>4. deque[Len(deque)].off + deque[Len(deque)].len = admitted
      BY <1>1 DEF IndInv, IsStream
    <3>5. ASSUME NEW i \in 1..(Len(deque') - 1)
          PROVE  deque'[i + 1].off = deque'[i].off + deque'[i].len
      <4>1. i \in DOMAIN deque' /\ i + 1 \in DOMAIN deque' /\ i + 1 \in 1..(Len(deque) - 1)
        BY <1>1, <1>3
      <4>2. deque'[i] = deque[i + 1] /\ deque'[i + 1] = deque[i + 1 + 1]
        BY <1>3, <4>1
      <4> QED
        BY <4>1, <4>2 DEF IndInv, IsStream
    <3> QED
      BY <1>3, <3>1, <3>2, <3>3, <3>4, <3>5 DEF IsStream
  <2> QED
    BY <1>1, <2>1, <2>2
<1>7. InOrder'
  BY <1>1, <1>2, <1>3 DEF IndInv, InOrder
<1>8. taken' >= taken
  BY <1>1, <1>2, <1>4
<1>9. ASSUME NEW seen \in Nat, Boundary(seen) PROVE Boundary(seen)'
  <2>1. CASE seen <= taken \/ seen = admitted
    BY <1>1, <1>2, <1>3, <1>4, <1>8, <2>1 DEF Boundary
  <2>2. CASE \E i \in DOMAIN deque : deque[i].off = seen
    <3>1. PICK i \in DOMAIN deque : deque[i].off = seen
      BY <2>2
    <3>2. CASE i = 1
      BY <1>1, <1>2, <1>4, <1>8, <3>1, <3>2 DEF Boundary
    <3>3. CASE i # 1
      <4>1. i - 1 \in DOMAIN deque' /\ deque'[i - 1] = deque[i]
        BY <1>1, <1>3, <3>3
      <4> QED
        BY <3>1, <4>1 DEF Boundary
    <3> QED
      BY <3>2, <3>3
  <2> QED
    BY <1>9, <2>1, <2>2 DEF Boundary
<1> QED
  BY <1>5, <1>6, <1>7, <1>8, <1>9

(***************************************************************************)
(* A step that leaves the counters alone, or moves the receiving thread    *)
(* where neither of them is being counted.                                 *)
(***************************************************************************)
LEMMA CountsKept ==
  ASSUME CountsOffered, CountsAgree, UNCHANGED countVars,
         recvPc' = recvPc \/ (recvPc # "read" /\ recvPc' \notin {"count", "test", "countDrop"})
  PROVE  CountsOffered' /\ CountsAgree'
BY DEF CountsOffered, CountsAgree, countVars, statVars, flushVars

(***************************************************************************)
(* A step of the counters: the window and the walks stay as they are.      *)
(***************************************************************************)
LEMMA WindowKept ==
  ASSUME IndInv, UNCHANGED <<deque, currentSize, capacity, recvSeen, recvSum, sendVars, admitted, taken>>,
         recvPc \in {"read", "count", "test", "countDrop"},
         recvPc' \in {"read", "count", "test", "countDrop"}
  PROVE  /\ IsStream' /\ InOrder' /\ PushWalkCovers' /\ PopWalkCovers'
         /\ TestedSize' /\ PendingPopStore' /\ BoundedOvershoot'
BY DEF sendVars, IndInv, IsStream, InOrder, PushWalkCovers, PushRecountCovers, PopWalkCovers,
  Covers, Boundary, TestedSize, ShortByOne, PendingPopStore, BoundedOvershoot, Bytes, Outside

LEMMA StepIndInv == IndInv /\ [Next]_vars => IndInv'
<1> SUFFICES ASSUME IndInv, [Next]_vars PROVE IndInv'
  OBVIOUS
<1>0. TypeOK /\ IsStream /\ InOrder
  BY DEF IndInv
<1> USE DEF countVars, statVars, flushVars
<1>1. ASSUME NEW len \in Lengths, ReadTotal(len) PROVE IndInv'
  <2>1. TypeOK' /\ LocalsKnown'
    BY <1>0, <1>1, Constants DEF ReadTotal, sendVars, IndInv, TypeOK, LocalsKnown
  <2>2. CountsOffered' /\ CountsAgree'
    BY <1>0, <1>1 DEF ReadTotal, IndInv, TypeOK, CountsOffered, CountsAgree
  <2>3. /\ IsStream' /\ InOrder' /\ PushWalkCovers' /\ PopWalkCovers'
        /\ TestedSize' /\ PendingPopStore' /\ BoundedOvershoot'
    BY <1>1, WindowKept DEF ReadTotal, sendVars
  <2> QED
    BY <2>1, <2>2, <2>3 DEF IndInv
<1>2. CASE WriteTotal
  <2>1. TypeOK' /\ LocalsKnown'
    BY <1>0, <1>2 DEF WriteTotal, sendVars, IndInv, TypeOK, LocalsKnown
  <2>2. CountsOffered' /\ CountsAgree'
    BY <1>0, <1>2 DEF WriteTotal, IndInv, TypeOK, CountsOffered, CountsAgree
  <2>3. /\ IsStream' /\ InOrder' /\ PushWalkCovers' /\ PopWalkCovers'
        /\ TestedSize' /\ PendingPopStore' /\ BoundedOvershoot'
    BY <1>2, WindowKept DEF WriteTotal, sendVars
  <2> QED
    BY <2>1, <2>2, <2>3 DEF IndInv
<1>3. CASE PushAccept
  <2>1. TypeOK' /\ LocalsKnown'
    BY <1>0, <1>3, Constants DEF PushAccept, Fits, sendVars, IndInv, TypeOK, LocalsKnown
  <2>2. CountsOffered' /\ CountsAgree'
    BY <1>3, CountsKept DEF PushAccept, Fits, sendVars, IndInv
  <2>3. /\ IsStream' /\ InOrder' /\ PushWalkCovers' /\ PopWalkCovers'
        /\ TestedSize' /\ PendingPopStore' /\ BoundedOvershoot'
    BY <1>0, <1>3, Constants
    DEF PushAccept, Fits, sendVars, IndInv, TypeOK, LocalsKnown, IsStream, InOrder, PushWalkCovers,
      PushRecountCovers, PopWalkCovers, Covers, Boundary, TestedSize, ShortByOne,
      PendingPopStore, BoundedOvershoot, Bytes, Outside
  <2> QED
    BY <2>1, <2>2, <2>3 DEF IndInv
<1>4. CASE PushDrop
  <2>1. TypeOK' /\ LocalsKnown'
    BY <1>0, <1>4 DEF PushDrop, sendVars, IndInv, TypeOK, LocalsKnown
  <2>2. CountsOffered' /\ CountsAgree'
    BY <1>0, <1>4 DEF PushDrop, IndInv, TypeOK, CountsOffered, CountsAgree
  <2>3. /\ IsStream' /\ InOrder' /\ PushWalkCovers' /\ PopWalkCovers'
        /\ TestedSize' /\ PendingPopStore' /\ BoundedOvershoot'
    BY <1>4, WindowKept DEF PushDrop, sendVars
  <2> QED
    BY <2>1, <2>2, <2>3 DEF IndInv
<1>5. CASE WriteDropped
  <2>1. TypeOK' /\ LocalsKnown'
    BY <1>0, <1>5, Constants DEF WriteDropped, sendVars, IndInv, TypeOK, LocalsKnown
  <2>2. CountsOffered' /\ CountsAgree'
    BY <1>0, <1>5 DEF WriteDropped, IndInv, TypeOK, CountsOffered, CountsAgree
  <2>3. /\ IsStream' /\ InOrder' /\ PushWalkCovers' /\ PopWalkCovers'
        /\ TestedSize' /\ PendingPopStore' /\ BoundedOvershoot'
    BY <1>5, WindowKept DEF WriteDropped, sendVars
  <2> QED
    BY <2>1, <2>2, <2>3 DEF IndInv
<1>6. CASE FlushStat
  <2>1. TypeOK' /\ LocalsKnown'
    BY <1>0, <1>6 DEF FlushStat, recvVars, sendVars, IndInv, TypeOK, LocalsKnown
  <2>2. CountsOffered'
    BY <1>0, <1>6 DEF FlushStat, recvVars, IndInv, TypeOK, CountsOffered
  <2>3. CountsAgree'
    <3>1. CASE mainPc # "second"
      BY <1>0, <1>6, <3>1 DEF FlushStat, recvVars, IndInv, TypeOK, CountsAgree
    <3>2. CASE mainPc = "second"
      <4> SUFFICES ASSUME ~torn' PROVE CountsAgree'
        BY DEF CountsAgree
      <4>1. torn' = (torn \/ SplitsPacket)
        BY <1>6, <3>2 DEF FlushStat
      <4>2. ~torn /\ ~SplitsPacket
        BY <4>1, Zenon
      <4>3. droppedPackets = 0 /\ recvPc \notin {"test", "countDrop"}
        BY <1>0, <4>2 DEF SplitsPacket, TypeOK
      <4>4. /\ mainPc' = "test" /\ totalPackets' = 0 /\ droppedPackets' = 0
            /\ recvPc' = recvPc /\ recvCount' = recvCount
        BY <1>6, <3>2, <4>3 DEF FlushStat, recvVars
      <4> QED
        BY <1>0, <4>3, <4>4 DEF CountsAgree, TypeOK
    <3> QED
      BY <3>1, <3>2
  <2>4. /\ IsStream' /\ InOrder' /\ PushWalkCovers' /\ PopWalkCovers'
        /\ TestedSize' /\ PendingPopStore' /\ BoundedOvershoot'
    BY <1>6 DEF FlushStat, recvVars, sendVars, IndInv, IsStream, InOrder, PushWalkCovers,
      PushRecountCovers, PopWalkCovers, Covers, Boundary, TestedSize, ShortByOne,
      PendingPopStore, BoundedOvershoot, Bytes, Outside
  <2> QED
    BY <2>1, <2>2, <2>3, <2>4 DEF IndInv
<1>7. CASE PushAdd
  <2>1. /\ TypeOK'
        /\ IsStream'
        /\ InOrder'
        /\ \A seen \in Nat : Boundary(seen) => Boundary(seen)'
    BY <1>7, AddKeepsStream
  <2>2. /\ recvLen \in Nat /\ recvLen >= 1 /\ recvLen <= MaxLength
        /\ recvSeen = 0 /\ recvSum = 0
    BY <1>7, Constants DEF IndInv, PushAdd, LocalsKnown
  <2>3. PushWalkCovers'
    BY <1>0, <1>7, <2>2 DEF PushAdd, TypeOK, PushWalkCovers, PushRecountCovers, Covers, Boundary
  <2>4. PopWalkCovers'
    <3>1. sendSeen \in Nat /\ sendPc' = sendPc /\ sendSeen' = sendSeen /\ sendSum' = sendSum
          /\ taken' = taken /\ deque' = Append(deque, [len |-> recvLen, off |-> admitted])
          /\ admitted' = admitted + recvLen
      BY <1>0, <1>7 DEF PushAdd, sendVars, TypeOK
    <3>2. Boundary(sendSeen) => Boundary(sendSeen)'
      BY <2>1, <3>1 DEF Boundary
    <3> QED
      BY <3>1, <3>2 DEF IndInv, PopWalkCovers, Covers
  <2>5. TestedSize' /\ PendingPopStore' /\ BoundedOvershoot'
    BY <1>7, <2>2, Constants DEF PushAdd, sendVars, IndInv, TypeOK, TestedSize, ShortByOne,
         PendingPopStore, BoundedOvershoot, Bytes, Outside
  <2>6. CountsOffered' /\ CountsAgree'
    BY <1>7, CountsKept DEF PushAdd, sendVars, IndInv
  <2>7. LocalsKnown'
    <3>1. deque' # <<>>
      BY <1>0, <1>7 DEF PushAdd, TypeOK
    <3> QED
      BY <1>7, <3>1 DEF PushAdd, sendVars, IndInv, LocalsKnown
  <2> QED
    BY <2>1, <2>3, <2>4, <2>5, <2>6, <2>7 DEF IndInv
<1>8. CASE PushVisit
  <2>1. PICK i \in DOMAIN deque :
          /\ IsNext(i, recvSeen)
          /\ recvSum' = recvSum + deque[i].len
          /\ recvSeen' = deque[i].off + deque[i].len
    BY <1>8 DEF PushVisit
  <2>2. deque[i].len \in Nat /\ deque[i].off \in Nat
    BY <1>0, PacketFields
  <2>3. Covers(recvSeen', recvSum')
    BY <1>0, <1>8, <2>1, VisitCovers DEF IndInv, TypeOK, PushWalkCovers, PushVisit
  <2>4. PushWalkCovers'
    BY <1>8, <2>3 DEF PushVisit, sendVars, PushWalkCovers, PushRecountCovers, Covers, Boundary
  <2>5. TypeOK'
    <3>1. recvSum \in Nat
      BY <1>0 DEF TypeOK
    <3>2. recvSum' \in Nat
      BY <2>1, <2>2, <3>1
    <3>3. recvSeen' \in Nat
      BY <2>1, <2>2
    <3> QED
      BY <1>0, <1>8, <3>2, <3>3 DEF PushVisit, sendVars, statVars, TypeOK
  <2>6. CountsOffered' /\ CountsAgree' /\ LocalsKnown'
    BY <1>8, CountsKept DEF PushVisit, sendVars, IndInv, LocalsKnown
  <2>7. IsStream' /\ InOrder' /\ PopWalkCovers' /\ TestedSize' /\ PendingPopStore'
        /\ BoundedOvershoot'
    BY <1>8 DEF PushVisit, sendVars, IndInv, IsStream, InOrder, PopWalkCovers, Covers, Boundary,
      TestedSize, ShortByOne, PendingPopStore, BoundedOvershoot, Bytes, Outside
  <2> QED
    BY <2>4, <2>5, <2>6, <2>7 DEF IndInv
<1>9. CASE PushWalked
  <2>1. recvSum >= Bytes
    BY <1>0, <1>9, WalkedCovers DEF PushWalked, IndInv, TypeOK, PushWalkCovers
  <2>2. TypeOK' /\ LocalsKnown'
    BY <1>0, <1>9, Constants DEF PushWalked, sendVars, IndInv, TypeOK, LocalsKnown
  <2>3. CountsOffered' /\ CountsAgree'
    BY <1>9, CountsKept DEF PushWalked, sendVars, IndInv
  <2>4. /\ IsStream' /\ InOrder' /\ PushWalkCovers' /\ PopWalkCovers'
        /\ TestedSize' /\ PendingPopStore' /\ BoundedOvershoot'
    BY <1>0, <1>9, <2>1, Constants
    DEF PushWalked, sendVars, IndInv, TypeOK, LocalsKnown, IsStream, InOrder, PushWalkCovers,
      PushRecountCovers, PopWalkCovers, Covers, Boundary, TestedSize, ShortByOne,
      PendingPopStore, BoundedOvershoot, Bytes, Outside
  <2> QED
    BY <2>2, <2>3, <2>4 DEF IndInv
<1>10. CASE PushStore
  <2>1. TypeOK' /\ LocalsKnown'
    BY <1>0, <1>10, Constants DEF PushStore, sendVars, IndInv, TypeOK, LocalsKnown
  <2>2. CountsOffered' /\ CountsAgree'
    BY <1>10, CountsKept DEF PushStore, sendVars, IndInv
  <2>3. /\ IsStream' /\ InOrder' /\ PushWalkCovers' /\ PopWalkCovers'
        /\ TestedSize' /\ PendingPopStore' /\ BoundedOvershoot'
    BY <1>0, <1>10, Constants
    DEF PushStore, sendVars, IndInv, TypeOK, LocalsKnown, IsStream, InOrder, PushWalkCovers,
      PushRecountCovers, PopWalkCovers, Covers, Boundary, TestedSize, ShortByOne,
      PendingPopStore, BoundedOvershoot, Bytes, Outside
  <2> QED
    BY <2>1, <2>2, <2>3 DEF IndInv
<1>11. CASE Peek
  <2>1. TypeOK' /\ LocalsKnown'
    BY <1>0, <1>11, Constants DEF Peek, recvVars, IndInv, TypeOK, LocalsKnown
  <2>2. CountsOffered' /\ CountsAgree'
    BY <1>11, CountsKept DEF Peek, recvVars, IndInv
  <2>3. /\ IsStream' /\ InOrder' /\ PushWalkCovers' /\ PopWalkCovers'
        /\ TestedSize' /\ PendingPopStore' /\ BoundedOvershoot'
    BY <1>0, <1>11, Constants
    DEF Peek, recvVars, IndInv, TypeOK, LocalsKnown, IsStream, InOrder, PushWalkCovers,
      PushRecountCovers, PopWalkCovers, Covers, Boundary, TestedSize, ShortByOne,
      PendingPopStore, BoundedOvershoot, Bytes, Outside
  <2> QED
    BY <2>1, <2>2, <2>3 DEF IndInv
<1>12. CASE Pop
  <2>1. /\ TypeOK'
        /\ IsStream'
        /\ InOrder'
        /\ taken' >= taken
        /\ \A seen \in Nat : Boundary(seen) => Boundary(seen)'
    BY <1>12, PopKeepsStream
  <2>2. /\ taken \in Nat /\ taken' \in Nat /\ admitted \in Nat
        /\ recvSeen \in Nat /\ recvSum \in Nat /\ currentSize \in Nat
        /\ recvLen \in Nat /\ sendSum \in Nat
        /\ admitted' = admitted /\ taken' >= taken
    BY <1>12, <2>1, Constants DEF Pop, IndInv, TypeOK
  <2>3. Bytes \in Int /\ Bytes' \in Int /\ Bytes' <= Bytes
    <3>1. admitted - taken' <= admitted - taken
      BY <2>2, LessLeft
    <3>2. admitted' - taken' <= admitted - taken
      BY <2>2, <3>1
    <3>3. Bytes \in Int /\ Bytes' \in Int
      BY <2>2 DEF Bytes
    <3>4. Bytes' <= Bytes
      BY <3>2, Zenon DEF Bytes
    <3> QED
      BY <3>3, <3>4
  <2>4. PushRecountCovers'
    BY <1>12, <2>2, <2>3 DEF Pop, recvVars, IndInv, PushWalkCovers, PushRecountCovers
  <2>5. PushWalkCovers'
    <3>1. Boundary(recvSeen) => Boundary(recvSeen)'
      BY <1>12, <2>1, <2>2 DEF Pop, recvVars, Boundary
    <3> QED
      BY <1>12, <2>1, <2>2, <2>4, <3>1 DEF Pop, recvVars, IndInv, PushWalkCovers, Covers
  <2>6. PopWalkCovers'
    <3>1. sendSeen' = 0 /\ sendSum' = 0
      BY <1>12 DEF Pop, IndInv, LocalsKnown
    <3>2. 0 <= taken' /\ 0 >= 0 - taken'
      BY <2>2, FromZero, Zenon
    <3>3. sendSeen' <= taken' /\ sendSum' >= sendSeen' - taken'
      BY <3>1, <3>2
    <3> QED
      BY <3>3 DEF PopWalkCovers, Covers, Boundary
  <2>7. TestedSize'
    BY <1>12, <2>2, Constants DEF Pop, recvVars, IndInv, TestedSize, ShortByOne, Bytes, Outside
  <2>8. BoundedOvershoot'
    BY <2>3, Constants DEF IndInv, BoundedOvershoot
  <2>9. PendingPopStore'
    BY <1>12 DEF Pop, PendingPopStore
  <2>10. CountsOffered' /\ CountsAgree' /\ LocalsKnown'
    BY <1>12, CountsKept DEF Pop, recvVars, IndInv, LocalsKnown
  <2> QED
    BY <2>1, <2>5, <2>6, <2>7, <2>8, <2>9, <2>10 DEF IndInv
<1>13. CASE PopVisit
  <2>1. PICK i \in DOMAIN deque :
          /\ IsNext(i, sendSeen)
          /\ sendSum' = sendSum + deque[i].len
          /\ sendSeen' = deque[i].off + deque[i].len
    BY <1>13 DEF PopVisit
  <2>2. deque[i].len \in Nat /\ deque[i].off \in Nat
    BY <1>0, PacketFields
  <2>3. Covers(sendSeen', sendSum')
    BY <1>0, <1>13, <2>1, VisitCovers DEF IndInv, TypeOK, PopWalkCovers, PopVisit
  <2>4. PopWalkCovers'
    BY <1>13, <2>3 DEF PopVisit, PopWalkCovers, Covers, Boundary
  <2>5. TypeOK'
    <3>1. sendSum \in Nat
      BY <1>0 DEF TypeOK
    <3>2. sendSum' \in Nat
      BY <2>1, <2>2, <3>1
    <3>3. sendSeen' \in Nat
      BY <2>1, <2>2
    <3> QED
      BY <1>0, <1>13, <3>2, <3>3 DEF PopVisit, recvVars, statVars, TypeOK
  <2>6. CountsOffered' /\ CountsAgree' /\ LocalsKnown'
    BY <1>13, CountsKept DEF PopVisit, recvVars, IndInv, LocalsKnown
  <2>7. IsStream' /\ InOrder' /\ PushWalkCovers' /\ TestedSize' /\ PendingPopStore'
        /\ BoundedOvershoot'
    BY <1>13 DEF PopVisit, recvVars, IndInv, IsStream, InOrder, PushWalkCovers, PushRecountCovers,
      Covers, Boundary, TestedSize, ShortByOne, PendingPopStore, BoundedOvershoot, Bytes, Outside
  <2> QED
    BY <2>4, <2>5, <2>6, <2>7 DEF IndInv
<1>14. CASE PopWalked
  <2>1. sendSum >= Bytes
    BY <1>0, <1>14, WalkedCovers DEF PopWalked, IndInv, TypeOK, PopWalkCovers
  <2>2. TypeOK' /\ LocalsKnown'
    BY <1>0, <1>14, Constants DEF PopWalked, recvVars, IndInv, TypeOK, LocalsKnown
  <2>3. CountsOffered' /\ CountsAgree'
    BY <1>14, CountsKept DEF PopWalked, recvVars, IndInv
  <2>4. /\ IsStream' /\ InOrder' /\ PushWalkCovers' /\ PopWalkCovers'
        /\ TestedSize' /\ PendingPopStore' /\ BoundedOvershoot'
    BY <1>0, <1>14, <2>1, Constants
    DEF PopWalked, recvVars, IndInv, TypeOK, LocalsKnown, IsStream, InOrder, PushWalkCovers,
      PushRecountCovers, PopWalkCovers, Covers, Boundary, TestedSize, ShortByOne,
      PendingPopStore, BoundedOvershoot, Bytes, Outside
  <2> QED
    BY <2>2, <2>3, <2>4 DEF IndInv
<1>15. CASE PopStore
  <2>1. TypeOK' /\ LocalsKnown'
    BY <1>0, <1>15, Constants DEF PopStore, recvVars, IndInv, TypeOK, LocalsKnown
  <2>2. CountsOffered' /\ CountsAgree'
    BY <1>15, CountsKept DEF PopStore, recvVars, IndInv
  <2>3. /\ IsStream' /\ InOrder' /\ PushWalkCovers' /\ PopWalkCovers'
        /\ TestedSize' /\ PendingPopStore' /\ BoundedOvershoot'
    BY <1>0, <1>15, Constants
    DEF PopStore, recvVars, IndInv, TypeOK, LocalsKnown, IsStream, InOrder, PushWalkCovers,
      PushRecountCovers, PopWalkCovers, Covers, Boundary, TestedSize, ShortByOne,
      PendingPopStore, BoundedOvershoot, Bytes, Outside
  <2> QED
    BY <2>1, <2>2, <2>3 DEF IndInv
<1>16. ASSUME NEW c \in Capacities, SetCapacity(c) PROVE IndInv'
  <2>1. TypeOK' /\ LocalsKnown'
    BY <1>0, <1>16, Constants DEF SetCapacity, recvVars, sendVars, IndInv, TypeOK, LocalsKnown
  <2>2. CountsOffered' /\ CountsAgree'
    BY <1>16, CountsKept DEF SetCapacity, recvVars, sendVars, IndInv
  <2>3. /\ IsStream' /\ InOrder' /\ PushWalkCovers' /\ PopWalkCovers'
        /\ TestedSize' /\ PendingPopStore' /\ BoundedOvershoot'
    BY <1>0, <1>16, Constants
    DEF SetCapacity, recvVars, sendVars, IndInv, TypeOK, LocalsKnown, IsStream, InOrder, PushWalkCovers,
      PushRecountCovers, PopWalkCovers, Covers, Boundary, TestedSize, ShortByOne,
      PendingPopStore, BoundedOvershoot, Bytes, Outside
  <2> QED
    BY <2>1, <2>2, <2>3 DEF IndInv
<1>17. CASE UNCHANGED vars
  <2>1. TypeOK' /\ LocalsKnown'
    BY <1>0, <1>17, Constants DEF vars, recvVars, sendVars, IndInv, TypeOK, LocalsKnown
  <2>2. CountsOffered' /\ CountsAgree'
    BY <1>17, CountsKept DEF vars, recvVars, sendVars, IndInv
  <2>3. /\ IsStream' /\ InOrder' /\ PushWalkCovers' /\ PopWalkCovers'
        /\ TestedSize' /\ PendingPopStore' /\ BoundedOvershoot'
    BY <1>0, <1>17, Constants
    DEF vars, recvVars, sendVars, IndInv, TypeOK, LocalsKnown, IsStream, InOrder, PushWalkCovers,
      PushRecountCovers, PopWalkCovers, Covers, Boundary, TestedSize, ShortByOne,
      PendingPopStore, BoundedOvershoot, Bytes, Outside
  <2> QED
    BY <2>1, <2>2, <2>3 DEF IndInv
<1> QED
  BY <1>1, <1>2, <1>3, <1>4, <1>5, <1>6, <1>7, <1>8, <1>9, <1>10, <1>11, <1>12, <1>13,
     <1>14, <1>15, <1>16, <1>17
  DEF Next, ReceivingThread, SendingThread

---------------------------------------------------------------------------
(***************************************************************************)
(* Types: the counters, the recounts and the positions of the walks stay   *)
(* natural numbers, the deque a sequence of packets.                       *)
(***************************************************************************)
THEOREM TypeCorrect == Spec => []TypeOK
<1>1. Spec => []IndInv
  BY InitIndInv, StepIndInv, PTL DEF Spec
<1>2. IndInv => TypeOK
  BY DEF IndInv
<1> QED
  BY <1>1, <1>2, PTL

(***************************************************************************)
(* tryToPush and pop, racing on the deque, neither lose, duplicate nor     *)
(* reorder a packet (lines 30 and 46).                                     *)
(***************************************************************************)
THEOREM StreamCorrect == Spec => []IsStream
<1>1. Spec => []IndInv
  BY InitIndInv, StepIndInv, PTL DEF Spec
<1>2. IndInv => IsStream
  BY DEF IndInv
<1> QED
  BY <1>1, <1>2, PTL

(***************************************************************************)
(* What a push stores into currentSize (line 31) is never less than what   *)
(* is in the window, whatever the sending thread pops meanwhile.           *)
(***************************************************************************)
THEOREM RecountCorrect == Spec => []PushRecountCovers
<1>1. Spec => []IndInv
  BY InitIndInv, StepIndInv, PTL DEF Spec
<1>2. IndInv => PushRecountCovers
  BY DEF IndInv, PushWalkCovers
<1> QED
  BY <1>1, <1>2, PTL

(***************************************************************************)
(* The test of line 29, made with a currentSize that the other thread may  *)
(* have set too low, lets in at most one packet beyond the capacity.       *)
(***************************************************************************)
THEOREM OvershootCorrect == Spec => []BoundedOvershoot
<1>1. Spec => []IndInv
  BY InitIndInv, StepIndInv, PTL DEF Spec
<1>2. IndInv => BoundedOvershoot
  BY DEF IndInv
<1> QED
  BY <1>1, <1>2, PTL

(***************************************************************************)
(* What flushStat reports (CongestionControlWindow.java:29-39): never more *)
(* than was offered, although counts come back, and not more drops than    *)
(* packets until a flush has ended within the count of a packet.           *)
(***************************************************************************)
THEOREM ReportCorrect == Spec => []ReportInRange
<1>1. Spec => []IndInv
  BY InitIndInv, StepIndInv, PTL DEF Spec
<1>2. IndInv => ReportInRange
  BY DEF IndInv, CountsOffered, CountsAgree, ReportInRange
<1> QED
  BY <1>1, <1>2, PTL
===========================================================================
