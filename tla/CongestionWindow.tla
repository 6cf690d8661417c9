------------------------- MODULE CongestionWindow -------------------------
(***************************************************************************)
(* CongestionControlWindowImpl as its two users drive it: the thread that  *)
(* reads packets from the TUN device (ReceivingThread) pushes, the thread  *)
(* that forwards them (SendingThread) peeks and pops, the main thread      *)
(* flushes the packet counters while both of them run.                     *)
(*                                                                         *)
(* The deque is a ConcurrentLinkedDeque, so each single operation on it is *)
(* atomic.  The field currentSize is a plain int that BOTH threads write:  *)
(* after its own add or pop, a thread walks the deque with                 *)
(* deque.stream()...sum() and then stores the result.  The walk is weakly  *)
(* consistent (it meets what is still, or already, linked when it gets     *)
(* there) and nothing keeps the other thread out between the walk and the  *)
(* store.  The counters are plain ints as well: ++ reads and writes, and   *)
(* so does a flush, which returns what it has read and writes 0.  The      *)
(* model therefore has one step per access to shared memory.               *)
(*                                                                         *)
(* When the sender takes a packet depends on its age; here it may take the *)
(* head at any time, so every timing of the code is covered.               *)
(***************************************************************************)
EXTENDS Integers, Sequences

CONSTANTS
  Lengths,      \* packet lengths, without the 4 bytes of tun packet information
  MaxLength,    \* a bound on Lengths (the MTU of the device)
  Capacities,   \* the values setCapacity is called with
  MaxCapacity,  \* a bound on Capacities
  MaxPackets,   \* bound of the model: how many packets the device delivers
  LastFlush     \* bound of the model: no flush begins after so many packets

ASSUME LengthsAssumption ==
  /\ MaxLength \in Nat
  /\ Lengths \subseteq 1..MaxLength

ASSUME CapacitiesAssumption ==
  /\ MaxCapacity \in Nat
  /\ Capacities \subseteq 0..MaxCapacity

ASSUME BoundsAssumption == MaxPackets \in Nat /\ LastFlush \in Nat

VARIABLES
  deque,           \* the packets in the window, oldest first
  currentSize,     \* what the class believes deque holds, in bytes
  capacity,
  totalPackets,    \* CongestionControlWindow.Statistic
  droppedPackets,
  mainPc,          \* where the main thread is in flushStat
  flushedDropped,  \* what flushDroppedPackets and
  flushedTotal,    \* flushTotalPackets have returned to it
  recvPc,          \* where the receiving thread is in tryToPush
  recvCount,       \* the counter it has read and not yet written back
  recvLen,         \* length of the packet it is pushing
  recvSeen,        \* its walk over deque: the offset reached ...
  recvSum,         \* ... and the bytes counted so far
  sendPc,          \* where the sending thread is in peek / processPacket / pop
  sendSeen,
  sendSum,
  admitted,        \* auxiliary: bytes ever added to deque
  taken,           \* auxiliary: bytes ever popped from deque
  offered,         \* auxiliary: packets ever passed to tryToPush
  torn             \* auxiliary: a flush has ended within the count of a packet

recvVars == <<recvPc, recvLen, recvSeen, recvSum>>
sendVars == <<sendPc, sendSeen, sendSum>>
statVars == <<totalPackets, droppedPackets>>
flushVars == <<mainPc, flushedDropped, flushedTotal, torn>>
countVars == <<statVars, flushVars, recvCount, offered>>
vars == <<deque, currentSize, capacity, countVars, recvVars, sendVars, admitted, taken>>

(***************************************************************************)
(* A packet in the deque.  off is auxiliary: the offset of its first byte  *)
(* in the stream of all bytes ever admitted.  It identifies the packet,    *)
(* and off + len is the offset of the next one.                            *)
(***************************************************************************)
Packet == [len : Lengths, off : Nat]

\* The bytes that are really in the window.
Bytes == admitted - taken

TypeOK ==
  /\ deque \in Seq(Packet)
  /\ currentSize \in Nat
  /\ capacity \in Capacities
  /\ totalPackets \in Nat
  /\ droppedPackets \in Nat
  /\ mainPc \in {"test", "first", "between", "second"}
  /\ flushedDropped \in Nat
  /\ flushedTotal \in Nat
  /\ recvPc \in {"read", "count", "test", "countDrop", "add", "walk", "store"}
  /\ recvCount \in Nat
  /\ recvLen \in 0..MaxLength
  /\ recvSeen \in Nat
  /\ recvSum \in Nat
  /\ sendPc \in {"peek", "pop", "walk", "store"}
  /\ sendSeen \in Nat
  /\ sendSum \in Nat
  /\ admitted \in Nat
  /\ taken \in Nat
  /\ offered \in 0..MaxPackets
  /\ torn \in BOOLEAN

Init ==
  /\ deque = <<>>
  /\ currentSize = 0
  /\ capacity \in Capacities
  /\ totalPackets = 0
  /\ droppedPackets = 0
  /\ mainPc = "test"
  /\ flushedDropped = 0
  /\ flushedTotal = 0
  /\ recvPc = "read"
  /\ recvCount = 0
  /\ recvLen = 0
  /\ recvSeen = 0
  /\ recvSum = 0
  /\ sendPc = "peek"
  /\ sendSeen = 0
  /\ sendSum = 0
  /\ admitted = 0
  /\ taken = 0
  /\ offered = 0
  /\ torn = FALSE

---------------------------------------------------------------------------
(***************************************************************************)
(* The walk deque.stream().mapToInt(length - 4).sum().  A walk that has    *)
(* reached offset seen next meets the first linked packet at or after it.  *)
(***************************************************************************)
Unvisited(seen) == {i \in DOMAIN deque : deque[i].off >= seen}

IsNext(i, seen) ==
  /\ i \in Unvisited(seen)
  /\ \A j \in Unvisited(seen) : i <= j

(***************************************************************************)
(* tryToPush, called by the receiving thread for each packet it reads.     *)
(***************************************************************************)
\* Mutant: the length of the new packet is forgotten in the test.
FitsWithoutLength(len) == currentSize <= capacity

Fits(len) == currentSize + len <= capacity

\* A packet comes from the device; totalPackets++ reads ...
ReadTotal(len) ==
  /\ recvPc = "read"
  /\ offered < MaxPackets
  /\ offered' = offered + 1
  /\ recvLen' = len
  /\ recvCount' = totalPackets
  /\ recvPc' = "count"
  /\ UNCHANGED <<deque, currentSize, capacity, statVars, flushVars, recvSeen, recvSum, sendVars,
                 admitted, taken>>

\* ... and writes.
WriteTotal ==
  /\ recvPc = "count"
  /\ totalPackets' = recvCount + 1
  /\ recvCount' = 0
  /\ recvPc' = "test"
  /\ UNCHANGED <<deque, currentSize, capacity, droppedPackets, flushVars, recvLen, recvSeen,
                 recvSum, sendVars, admitted, taken, offered>>

\* currentSize is read, and the test succeeds.
PushAccept ==
  /\ recvPc = "test"
  /\ Fits(recvLen)
  /\ recvPc' = "add"
  /\ UNCHANGED <<deque, currentSize, capacity, countVars, recvLen, recvSeen, recvSum, sendVars,
                 admitted, taken>>

\* currentSize is read, and the test fails; droppedPackets++ reads (at once: the
\* sending thread changes only what the test reads, the main thread only this) ...
PushDrop ==
  /\ recvPc = "test"
  /\ ~Fits(recvLen)
  /\ recvCount' = droppedPackets
  /\ recvPc' = "countDrop"
  /\ UNCHANGED <<deque, currentSize, capacity, statVars, flushVars, recvLen, recvSeen, recvSum,
                 sendVars, admitted, taken, offered>>

\* ... and writes.
WriteDropped ==
  /\ recvPc = "countDrop"
  /\ droppedPackets' = recvCount + 1
  /\ recvCount' = 0
  /\ recvLen' = 0
  /\ recvPc' = "read"
  /\ UNCHANGED <<deque, currentSize, capacity, totalPackets, flushVars, recvSeen, recvSum,
                 sendVars, admitted, taken, offered>>

\* Mutant: Deque.push, the partner of pop by name, puts the packet in front.
PushAddInFront ==
  /\ recvPc = "add"
  /\ deque' = <<[len |-> recvLen, off |-> admitted]>> \o deque
  /\ admitted' = admitted + recvLen
  /\ recvPc' = "walk"
  /\ UNCHANGED <<currentSize, capacity, countVars, recvLen, recvSeen, recvSum, sendVars, taken>>

\* Mutant: only the new packet is counted.
PushAddCountsOne ==
  /\ recvPc = "add"
  /\ deque' = Append(deque, [len |-> recvLen, off |-> admitted])
  /\ admitted' = admitted + recvLen
  /\ recvPc' = "walk"
  /\ recvSeen' = admitted
  /\ UNCHANGED <<currentSize, capacity, countVars, recvLen, recvSum, sendVars, taken>>

\* deque.add
PushAdd ==
  /\ recvPc = "add"
  /\ deque' = Append(deque, [len |-> recvLen, off |-> admitted])
  /\ admitted' = admitted + recvLen
  /\ recvPc' = "walk"
  /\ UNCHANGED <<currentSize, capacity, countVars, recvLen, recvSeen, recvSum, sendVars, taken>>

PushVisit ==
  /\ recvPc = "walk"
  /\ \E i \in DOMAIN deque :
       /\ IsNext(i, recvSeen)
       /\ recvSum' = recvSum + deque[i].len
       /\ recvSeen' = deque[i].off + deque[i].len
  /\ UNCHANGED <<deque, currentSize, capacity, countVars, recvPc, recvLen, sendVars,
                 admitted, taken>>

PushWalked ==
  /\ recvPc = "walk"
  /\ Unvisited(recvSeen) = {}
  /\ recvPc' = "store"
  /\ recvSeen' = 0
  /\ UNCHANGED <<deque, currentSize, capacity, countVars, recvLen, recvSum, sendVars,
                 admitted, taken>>

\* currentSize = sum
PushStore ==
  /\ recvPc = "store"
  /\ currentSize' = recvSum
  /\ recvPc' = "read"
  /\ recvLen' = 0 /\ recvSum' = 0
  /\ UNCHANGED <<deque, capacity, countVars, recvSeen, sendVars, admitted, taken>>

(***************************************************************************)
(* peek, processPacket, pop: one turn of the sending thread's first loop.  *)
(* processPacket does not touch the window.                                *)
(***************************************************************************)
\* Mutant: the loop stops at the last packet.
PeekOffByOne ==
  /\ sendPc = "peek"
  /\ Len(deque) > 1
  /\ sendPc' = "pop"
  /\ UNCHANGED <<deque, currentSize, capacity, countVars, recvVars, sendSeen, sendSum,
                 admitted, taken>>

Peek ==
  /\ sendPc = "peek"
  /\ deque # <<>>
  /\ sendPc' = "pop"
  /\ UNCHANGED <<deque, currentSize, capacity, countVars, recvVars, sendSeen, sendSum,
                 admitted, taken>>

\* deque.pop
Pop ==
  /\ sendPc = "pop"
  /\ deque # <<>>
  /\ deque' = Tail(deque)
  /\ taken' = taken + Head(deque).len
  /\ sendPc' = "walk"
  /\ UNCHANGED <<currentSize, capacity, countVars, recvVars, sendSeen, sendSum, admitted>>

PopVisit ==
  /\ sendPc = "walk"
  /\ \E i \in DOMAIN deque :
       /\ IsNext(i, sendSeen)
       /\ sendSum' = sendSum + deque[i].len
       /\ sendSeen' = deque[i].off + deque[i].len
  /\ UNCHANGED <<deque, currentSize, capacity, countVars, recvVars, sendPc, admitted, taken>>

PopWalked ==
  /\ sendPc = "walk"
  /\ Unvisited(sendSeen) = {}
  /\ sendPc' = "store"
  /\ sendSeen' = 0
  /\ UNCHANGED <<deque, currentSize, capacity, countVars, recvVars, sendSum, admitted, taken>>

\* currentSize = sum
PopStore ==
  /\ sendPc = "store"
  /\ currentSize' = sendSum
  /\ sendPc' = "peek"
  /\ sendSum' = 0
  /\ UNCHANGED <<deque, capacity, countVars, recvVars, sendSeen, admitted, taken>>

(***************************************************************************)
(* setCapacity.  The test stand calls it before it starts the interface,   *)
(* when neither thread exists; a thread ends only at the top of its loop.  *)
(***************************************************************************)
SetCapacity(c) ==
  /\ recvPc = "read"
  /\ sendPc = "peek"
  /\ mainPc = "test"
  /\ capacity' = c
  /\ UNCHANGED <<deque, currentSize, countVars, recvVars, sendVars, admitted, taken>>

(***************************************************************************)
(* flushStat, on the main thread when a test is over, while both threads   *)
(* go on: flushDroppedPackets, then flushTotalPackets.  What they return   *)
(* is copied into the report of the test.                                  *)
(***************************************************************************)
\* Some step of a flush comes between the two counts of one packet.
SplitsPacket == droppedPackets > 0 \/ recvPc \in {"test", "countDrop"}

\* Mutant: flushTotalPackets is called first.
FlushStatTotalFirst ==
  /\ \/ /\ mainPc = "test" /\ mainPc' = "first"
        /\ offered <= LastFlush
        /\ flushedTotal' = totalPackets
        /\ UNCHANGED <<statVars, flushedDropped, torn>>
     \/ /\ mainPc = "first" /\ mainPc' = "between"
        /\ totalPackets' = 0
        /\ UNCHANGED <<droppedPackets, flushedDropped, flushedTotal, torn>>
     \/ /\ mainPc = "between" /\ mainPc' = "second"
        /\ flushedDropped' = droppedPackets
        /\ UNCHANGED <<statVars, flushedTotal, torn>>
     \/ /\ mainPc = "second" /\ mainPc' = "test"
        /\ droppedPackets' = 0
        /\ torn' = (torn \/ SplitsPacket)
        /\ flushedDropped' = 0 /\ flushedTotal' = 0
        /\ UNCHANGED totalPackets
  /\ UNCHANGED <<deque, currentSize, capacity, recvVars, recvCount, sendVars, admitted, taken,
                 offered>>

FlushStat ==
  /\ \/ /\ mainPc = "test" /\ mainPc' = "first"
        /\ offered <= LastFlush
        /\ flushedDropped' = droppedPackets
        /\ UNCHANGED <<statVars, flushedTotal, torn>>
     \/ /\ mainPc = "first" /\ mainPc' = "between"
        /\ droppedPackets' = 0
        /\ UNCHANGED <<totalPackets, flushedDropped, flushedTotal, torn>>
     \/ /\ mainPc = "between" /\ mainPc' = "second"
        /\ flushedTotal' = totalPackets
        /\ UNCHANGED <<statVars, flushedDropped, torn>>
     \/ /\ mainPc = "second" /\ mainPc' = "test"
        /\ totalPackets' = 0
        /\ torn' = (torn \/ SplitsPacket)
        /\ flushedDropped' = 0 /\ flushedTotal' = 0
        /\ UNCHANGED droppedPackets
  /\ UNCHANGED <<deque, currentSize, capacity, recvVars, recvCount, sendVars, admitted, taken,
                 offered>>

---------------------------------------------------------------------------
ReceivingThread ==
  \/ \E len \in Lengths : ReadTotal(len)
  \/ WriteTotal \/ PushAccept \/ PushDrop \/ WriteDropped
  \/ PushAdd \/ PushVisit \/ PushWalked \/ PushStore

SendingThread == Peek \/ Pop \/ PopVisit \/ PopWalked \/ PopStore

Next ==
  \/ ReceivingThread
  \/ SendingThread
  \/ FlushStat
  \/ \E c \in Capacities : SetCapacity(c)

Spec == Init /\ [][Next]_vars

(***************************************************************************)
(* Both threads spin and the scheduler runs them, so a step inside a push  *)
(* or a pop is taken eventually, and the sender eventually finds the head  *)
(* old enough.  No packet has to arrive, no capacity has to change and no  *)
(* flush has to happen.                                                    *)
(***************************************************************************)
InsidePush ==
  \/ WriteTotal \/ PushAccept \/ PushDrop \/ WriteDropped
  \/ PushAdd \/ PushVisit \/ PushWalked \/ PushStore

FairSpec == Spec /\ WF_vars(SendingThread) /\ WF_vars(InsidePush)

---------------------------------------------------------------------------
(* Properties. *)

(***************************************************************************)
(* The deque is the unread part of the admitted stream: without a hole,    *)
(* without a packet twice, oldest first, starting where pop left off and   *)
(* ending where add left off (deque.add / deque.pop work on opposite ends).*)
(***************************************************************************)
IsStream ==
  /\ taken <= admitted
  /\ deque = <<>> => taken = admitted
  /\ deque # <<>> =>
       /\ deque[1].off = taken
       /\ deque[Len(deque)].off + deque[Len(deque)].len = admitted
  /\ \A i \in 1..(Len(deque) - 1) : deque[i + 1].off = deque[i].off + deque[i].len

(***************************************************************************)
(* The recount a push is about to store covers every byte in the window:   *)
(* pops that race with the walk can only make the stored value too high,   *)
(* and then the class refuses packets, it never admits too many.           *)
(***************************************************************************)
PushRecountCovers == recvPc = "store" => recvSum >= Bytes

(***************************************************************************)
(* The window holds at most one packet more than the largest capacity it   *)
(* was given, although a pop may store a count that misses any number of   *)
(* packets pushed meanwhile (the races on currentSize, lines 31 and 47).   *)
(***************************************************************************)
BoundedOvershoot == Bytes <= MaxCapacity + MaxLength

(***************************************************************************)
(* What flushStat reports.  Neither number exceeds that of the packets     *)
(* ever offered, although a ++ that a flush has overtaken brings back a    *)
(* count already reported.  And no more packets are reported as dropped    *)
(* than were offered, also when they arrive while the flush goes on: that  *)
(* is why flushDroppedPackets is called first (TunnelInterface.java:66).   *)
(* It is so up to the first flush that ends within the count of a packet;  *)
(* from then on a drop can be reported without its packet.                 *)
(***************************************************************************)
ReportInRange ==
  mainPc = "second" =>
    /\ flushedTotal <= offered /\ flushedDropped <= offered
    /\ ~torn => flushedDropped <= flushedTotal

(***************************************************************************)
(* Whatever is admitted is taken in the end, once the packets pause: the   *)
(* sender's walk ends although the receiver may append in front of it.     *)
(***************************************************************************)
EveryByteTaken == []<>(taken = admitted)

(***************************************************************************)
(* The congestion window of README.md:11: a window with nothing in it and  *)
(* nobody working on it admits every packet that is within its capacity.   *)
(* The code breaks it: a recount that a pop has overtaken stays in         *)
(* currentSize, and with the window empty no later pop can repair it, so a *)
(* packet that no longer fits is refused again and again.                  *)
(***************************************************************************)
EmptyWindowAdmits ==
  deque = <<>> /\ recvPc = "read" /\ sendPc = "peek" =>
    \A len \in Lengths : len <= capacity => Fits(len)

(***************************************************************************)
(* Why BoundedOvershoot holds.  A pop's count is short only by what was    *)
(* pushed since its walk ended.  The first such push adds at most one      *)
(* packet; every further one was tested against the pushing thread's own   *)
(* recount, so it left the window within capacity.                         *)
(***************************************************************************)
\* No packet starts before the one in front of it ends.
InOrder ==
  \A i \in DOMAIN deque :
    /\ deque[i].off + deque[i].len <= admitted
    /\ \A j \in DOMAIN deque : i < j => deque[i].off + deque[i].len <= deque[j].off

\* A walk has reached the start of a packet, an end of the window, or what is gone.
Boundary(seen) ==
  seen <= taken \/ seen = admitted \/ \E i \in DOMAIN deque : deque[i].off = seen

\* What a walk has counted covers what it has passed and is still in the window.
Covers(seen, sum) == Boundary(seen) /\ sum >= seen - taken

PushWalkCovers ==
  /\ recvPc = "walk" => Covers(recvSeen, recvSum)
  /\ PushRecountCovers

PopWalkCovers == sendPc = "walk" => Covers(sendSeen, sendSum)

ShortByOne(count) == count + MaxLength >= Bytes \/ Bytes <= MaxCapacity

\* The receiving thread has not yet let its packet in.
Outside == recvPc \notin {"add", "walk", "store"}

TestedSize ==
  /\ Outside => ShortByOne(currentSize)
  /\ recvPc = "add" => Bytes + recvLen <= MaxCapacity + MaxLength

PendingPopStore ==
  sendPc = "store" =>
    /\ Outside => \/ sendSum >= Bytes
                  \/ currentSize >= Bytes /\ ShortByOne(sendSum)
    /\ recvPc = "add" => sendSum >= Bytes \/ Bytes + recvLen <= MaxCapacity
    /\ recvPc \in {"walk", "store"} => ShortByOne(sendSum)

(***************************************************************************)
(* Why ReportInRange holds.  A counter, or what a ++ is about to store, is *)
(* no more than the packets offered; and without a torn flush the packet   *)
(* of every counted drop is counted, also in what a ++ or a flush holds.   *)
(***************************************************************************)
CountsOffered ==
  /\ totalPackets <= offered /\ droppedPackets <= offered
  /\ flushedTotal <= offered /\ flushedDropped <= offered
  /\ recvPc # "read" => droppedPackets < offered
  /\ recvPc \in {"count", "countDrop"} => recvCount < offered

CountsAgree ==
  ~torn =>
    /\ droppedPackets <= totalPackets
    /\ recvPc = "count" => droppedPackets <= recvCount
    /\ recvPc \in {"test", "countDrop"} => droppedPackets < totalPackets
    /\ recvPc = "countDrop" => recvCount < totalPackets
    /\ mainPc \in {"first", "between"} =>
         /\ flushedDropped <= totalPackets
         /\ recvPc = "count" => flushedDropped <= recvCount
    /\ mainPc = "second" => flushedDropped <= flushedTotal

\* The local variables of a push and a pop, and what the sender has seen with peek.
LocalsKnown ==
  /\ recvPc = "read" => recvLen = 0
  /\ recvPc # "read" => recvLen \in Lengths
  /\ recvPc \notin {"count", "countDrop"} => recvCount = 0
  /\ recvPc # "walk" => recvSeen = 0
  /\ recvPc \notin {"walk", "store"} => recvSum = 0
  /\ sendPc # "walk" => sendSeen = 0
  /\ sendPc \notin {"walk", "store"} => sendSum = 0
  /\ sendPc = "pop" => deque # <<>>

IndInv ==
  /\ TypeOK
  /\ LocalsKnown
  /\ IsStream
  /\ InOrder
  /\ PushWalkCovers
  /\ PopWalkCovers
  /\ TestedSize
  /\ PendingPopStore
  /\ BoundedOvershoot
  /\ CountsOffered
  /\ CountsAgree
===========================================================================
