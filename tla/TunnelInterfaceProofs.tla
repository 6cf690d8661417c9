----------------------- MODULE TunnelInterfaceProofs -----------------------
(***************************************************************************)
(* Proofs about TunnelInterface, for all devices, flows, profiles, rates   *)
(* and numbers of packets and runs.  The inductive invariant comes in      *)
(* three layers, each proved with the ones before it: the types and the    *)
(* threads (ThreadInv), the order of the packets (OrderInv), and the       *)
(* counters (CountInv, and StatInv for the traffic of the tests).          *)
(***************************************************************************)
EXTENDS TunnelInterface, FiniteSetTheorems, WellFoundedInduction, TLAPS

---------------------------------------------------------------------------
(* Types and threads. *)

\* Exclusive; only stop interrupts; a report is of one direction; what was
\* processed is still there to be popped.
ThreadsKnown ==
  /\ Exclusive
  /\ mainPc \in {"testing", "reading", "flushed"} => ~interrupted
  /\ mainPc = "reading" => report.dir \in Dirs
  /\ sendPc = "pop" => window # <<>>

ThreadInv == TypeOK /\ ThreadsKnown

(***************************************************************************)
(* A set of numbers that is not empty has a least one: of the intervals    *)
(* from 0 to its members, one contains no other.                           *)
(***************************************************************************)
LEMMA LeastOfSet ==
  ASSUME NEW S \in SUBSET Nat, S # {}
  PROVE  Min(S) \in S
<1> DEFINE Below(n) == 0..n
           Intervals == {Below(n) : n \in S}
<1>1. Intervals \subseteq FiniteSubsetsOf(Nat) /\ Intervals # {}
  <2>1. \A n \in S : Below(n) \in SUBSET Nat /\ IsFiniteSet(Below(n))
    BY FS_Interval
  <2> QED
    BY <2>1 DEF FiniteSubsetsOf
<1>2. PICK I \in Intervals : \A J \in Intervals : <<J, I>> \notin StrictSubsetOrdering(Nat)
  BY <1>1, FS_StrictSubsetOrderingWellFounded, WFMin
<1>3. PICK m \in S : I = Below(m)
  OBVIOUS
<1>4. ASSUME NEW n \in S, n < m PROVE FALSE
  <2>1. Below(n) \subseteq Below(m) /\ Below(n) # Below(m) /\ Below(m) \in SUBSET Nat
    <3>1. m \in Below(m) /\ m \notin Below(n)
      BY <1>4
    <3> QED
      BY <1>4, <3>1
  <2>2. <<Below(n), Below(m)>> \in StrictSubsetOrdering(Nat)
    BY <2>1 DEF StrictSubsetOrdering
  <2> QED
    BY <1>2, <1>3, <2>2
<1>5. \A n \in S : m =< n
  BY <1>4
<1> QED
  BY <1>5 DEF Min

LEMMA VisitedIsClient ==
  ASSUME left \subseteq Clients, left # {}
  PROVE  Visited \in left /\ Visited \in Clients
BY LeastOfSet, DevicesAssumption DEF Visited

\* TypeOK, in the pieces that the steps need.
LEMMA Types ==
  ASSUME TypeOK
  PROVE  /\ window \in Seq(Packet)
         /\ lossParams \in Profiles
         /\ cache \in [Dirs -> [Clients -> Seq(Packet)]]
         /\ tokens \in [Dirs -> [Clients -> Nat]]
         /\ \A d \in Dirs, c \in Clients : tokens[d][c] \in 0..Rate[d]
         /\ recv \in [Dirs -> Nat] /\ processed \in [Dirs -> Nat]
         /\ sent \in [Dirs -> Nat] /\ passed \in [Dirs -> Nat]
         /\ left \subseteq Clients
         /\ report \in [dir : Dirs \cup {"none"}, sent : Nat, recv : Nat]
         /\ written \in Seq(Packet)
         /\ reads \in 0..MaxPackets /\ reads \in Nat
BY BoundsAssumption DEF TypeOK

LEMMA RateTypes == Rate \in [Dirs -> Nat] /\ Refill \in Nat
BY RateAssumption

LEMMA HeadTail ==
  ASSUME NEW s \in Seq(Packet), s # <<>>
  PROVE  Head(s) \in Packet /\ Tail(s) \in Seq(Packet)
OBVIOUS

\* What time does to a packet.
LEMMA OlderIs ==
  ASSUME NEW pkt \in Packet
  PROVE  /\ Older(pkt) \in Packet
         /\ Older(pkt).n = pkt.n /\ Older(pkt).flow = pkt.flow
         /\ Ripe(pkt) => Older(pkt) = pkt
BY RttAssumption DEF Older, Packet, Ripe

\* The smaller of two numbers, which is how a bucket is filled.
LEMMA MinOfTwo ==
  ASSUME NEW a \in Nat, NEW b \in Nat
  PROVE  Min({a, b}) \in 0..a
BY DEF Min

LEMMA LaneIs ==
  ASSUME NEW flow \in Flows
  PROVE  \/ Lane(flow) \in {<<"nowhere">>, <<"between">>}
         \/ Lane(flow) \in Dirs \X Clients
BY FlowsAssumption DEF Lane, Dirs, Devices

\* Transmit counts, and adds at most the packet to what was written.
LEMMA TransmitTyped ==
  ASSUME NEW pkt \in Packet, sent \in [Dirs -> Nat], written \in Seq(Packet), Transmit(pkt)
  PROVE  sent' \in [Dirs -> Nat] /\ written' \in Seq(Packet)
BY DEF Transmit, Dirs

LEMMA ThreadInvInit == Init => ThreadInv
<1> SUFFICES ASSUME Init PROVE ThreadInv
  OBVIOUS
<1>1. tokens \in [Dirs -> [Clients -> Nat]] /\ \A d \in Dirs, c \in Clients : tokens[d][c] \in 0..Rate[d]
  BY RateAssumption DEF Init, FullBuckets
<1>2. cache \in [Dirs -> [Clients -> Seq(Packet)]]
  BY DEF Init, EmptyCaches
<1>3. {recv, processed, sent, passed} \subseteq [Dirs -> Nat]
  BY DEF Init, Nothing
<1>4. report \in [dir : Dirs \cup {"none"}, sent : Nat, recv : Nat]
  BY DEF Init, NoReport
<1>5. window \in Seq(Packet) /\ written \in Seq(Packet)
  BY DEF Init
<1>6. reads \in 0..MaxPackets /\ runs \in 0..MaxRuns
  BY BoundsAssumption DEF Init
<1>7. TypeOK
  BY <1>1, <1>2, <1>3, <1>4, <1>5, <1>6 DEF Init, TypeOK
<1> QED
  BY <1>7 DEF Init, ThreadInv, ThreadsKnown, Exclusive

\* One step of the receiving thread.
LEMMA ReceivingThreadInv ==
  ASSUME ThreadInv, ReceivingThread
  PROVE  ThreadInv'
<1> USE DEF netVars, statVars
<1>1. CASE RecvTop
  BY <1>1 DEF RecvTop, ThreadInv, ThreadsKnown, Exclusive, TypeOK
<1>2. CASE ReadTimeout
  BY <1>2 DEF ReadTimeout, ThreadInv, ThreadsKnown, Exclusive, TypeOK
<1>3. ASSUME NEW flow \in Flows, Read(flow) PROVE ThreadInv'
  <2>1. window' \in Seq(Packet)
    <3>1. [n |-> reads, flow |-> flow, age |-> 0] \in Packet
      BY <1>3, Types DEF ThreadInv, Packet
    <3>2. window \in Seq(Packet)
      BY Types DEF ThreadInv
    <3> QED
      BY <1>3, <3>1, <3>2 DEF Read
  <2>2. reads' \in 0..MaxPackets
    BY <1>3, BoundsAssumption DEF Read, ThreadInv, TypeOK
  <2> QED
    BY <1>3, <2>1, <2>2 DEF Read, ThreadInv, ThreadsKnown, Exclusive, TypeOK
<1> QED
  BY <1>1, <1>2, <1>3 DEF ReceivingThread

\* One step of the sending thread.
LEMMA SendingThreadInv ==
  ASSUME ThreadInv, SendingThread
  PROVE  ThreadInv'
<1> USE DEF netVars, statVars, sendFrame
<1>1. CASE SendTop
  BY <1>1 DEF SendTop, ThreadInv, ThreadsKnown, Exclusive, TypeOK
<1>2. CASE ProcessPacket
  <2> DEFINE pkt  == Head(window)
             lane == Lane(pkt.flow)
  <2>1. pkt \in Packet
    BY <1>2, Types, HeadTail DEF ProcessPacket, Peeked, ThreadInv
  <2>2. /\ cache' \in [Dirs -> [Clients -> Seq(Packet)]] /\ written' \in Seq(Packet)
        /\ {recv', processed', sent', passed'} \subseteq [Dirs -> Nat]
    <3>1. CASE lane = <<"nowhere">> /\ UNCHANGED <<cache, statVars, written>>
      BY <3>1 DEF ThreadInv, TypeOK
    <3>2. CASE Transmit(pkt) /\ UNCHANGED <<cache, recv, processed, passed>>
      BY <2>1, <3>2, TransmitTyped DEF ThreadInv, TypeOK
    <3>3. CASE /\ lane \in Dirs \X Clients
               /\ recv' = [recv EXCEPT ![lane[1]] = @ + 1]
               /\ cache' = [cache EXCEPT ![lane[1]][lane[2]] = Append(@, pkt)]
               /\ UNCHANGED <<processed, sent, passed, written>>
      <4>1. lane[1] \in Dirs /\ lane[2] \in Clients
        BY <3>3
      <4> HIDE DEF lane, pkt
      <4>2. cache' \in [Dirs -> [Clients -> Seq(Packet)]]
        <5>1. cache \in [Dirs -> [Clients -> Seq(Packet)]]
          BY Types DEF ThreadInv
        <5>2. cache[lane[1]][lane[2]] \in Seq(Packet)
          BY <4>1, <5>1
        <5>3. Append(cache[lane[1]][lane[2]], pkt) \in Seq(Packet)
          BY <2>1, <5>2
        <5> QED
          BY <3>3, <4>1, <5>1, <5>3
      <4>3. recv' \in [Dirs -> Nat]
        <5>1. recv \in [Dirs -> Nat]
          BY Types DEF ThreadInv
        <5> QED
          BY <3>3, <4>1, <5>1
      <4> QED
        BY <3>3, <4>2, <4>3 DEF ThreadInv, TypeOK
    <3> QED
      BY <1>2, <3>1, <3>2, <3>3 DEF ProcessPacket
  <2>3. sendPc' = "pop" /\ UNCHANGED <<sendFrame, window, tokens, left>> /\ window # <<>>
    BY <1>2 DEF ProcessPacket, Peeked
  <2>4. TypeOK'
    BY <2>2, <2>3 DEF ThreadInv, TypeOK
  <2>5. sendPc = "window" /\ UNCHANGED <<recvPc, mainPc, interrupted, report>>
    BY <1>2 DEF ProcessPacket
  <2>6. ThreadsKnown
    BY DEF ThreadInv
  <2>7. ThreadsKnown'
    BY <2>3, <2>5, <2>6 DEF ThreadsKnown, Exclusive
  <2> QED
    BY <2>4, <2>7 DEF ThreadInv
<1>3. CASE Pop
  <2>1. window' \in Seq(Packet)
    BY <1>3, Types, HeadTail DEF Pop, ThreadInv, ThreadsKnown
  <2> QED
    BY <1>3, <2>1 DEF Pop, ThreadInv, ThreadsKnown, Exclusive, TypeOK
<1>4. CASE WindowDone
  BY <1>4 DEF WindowDone, ThreadInv, ThreadsKnown, Exclusive, TypeOK
<1>5. ASSUME NEW d \in Dirs, Forward(d) PROVE ThreadInv'
  <2> DEFINE c == Visited
             pkt == Head(cache[d][c])
  <2>1. c \in Clients /\ pkt \in Packet /\ cache[d][c] # <<>> /\ pkt.flow.len <= tokens[d][c]
    <3>1. c \in Clients /\ cache[d][c] # <<>> /\ pkt.flow.len <= tokens[d][c]
      BY <1>5, Types, VisitedIsClient DEF Forward, MayForward, ThreadInv
    <3>2. cache[d][c] \in Seq(Packet)
      BY <3>1, Types DEF ThreadInv
    <3> QED
      BY <3>1, <3>2, HeadTail
  <2>2. pkt.flow.len \in Nat
    BY <2>1, FlowsAssumption DEF Packet
  <2>3. /\ tokens' = [tokens EXCEPT ![d][c] = @ - pkt.flow.len]
        /\ processed' = [processed EXCEPT ![d] = @ + 1]
        /\ cache' = [cache EXCEPT ![d][c] = Tail(@)]
    BY <1>5 DEF Forward
  <2>4. /\ \/ UNCHANGED <<sent, written>> \/ Transmit(pkt)
        /\ passed' = passed \/ passed' = [passed EXCEPT ![d] = @ + 1]
    BY <1>5 DEF Forward
  <2>5. sent' \in [Dirs -> Nat] /\ written' \in Seq(Packet) /\ passed' \in [Dirs -> Nat]
    <3>1. sent \in [Dirs -> Nat] /\ written \in Seq(Packet) /\ passed \in [Dirs -> Nat]
      BY Types DEF ThreadInv
    <3>2. passed' \in [Dirs -> Nat]
      BY <2>4, <3>1
    <3> QED
      BY <2>1, <2>4, <3>1, <3>2, TransmitTyped
  <2> HIDE DEF c, pkt
  <2>6. cache' \in [Dirs -> [Clients -> Seq(Packet)]] /\ processed' \in [Dirs -> Nat]
    <3>1. cache \in [Dirs -> [Clients -> Seq(Packet)]] /\ processed \in [Dirs -> Nat]
      BY Types DEF ThreadInv
    <3>2. Tail(cache[d][c]) \in Seq(Packet)
      BY <2>1, <3>1, HeadTail
    <3> QED
      BY <2>1, <2>3, <3>1, <3>2
  <2>7. tokens' \in [Dirs -> [Clients -> Nat]]
    <3>1. tokens \in [Dirs -> [Clients -> Nat]] /\ tokens[d][c] - pkt.flow.len \in Nat
      BY <2>1, <2>2, Types DEF ThreadInv
    <3> QED
      BY <2>1, <2>3, <3>1
  <2>8. \A e \in Dirs, b \in Clients : tokens'[e][b] \in 0..Rate[e]
    <3>1. tokens \in [Dirs -> [Clients -> Nat]] /\ tokens[d][c] \in 0..Rate[d]
      BY <2>1, Types DEF ThreadInv
    <3>2. tokens[d][c] - pkt.flow.len \in 0..Rate[d]
      BY <2>1, <2>2, <3>1, RateTypes
    <3> QED
      BY <2>1, <2>3, <3>1, <3>2, Types DEF ThreadInv
  <2>9. UNCHANGED <<sendFrame, window, recv, sendPc, left>> /\ sendPc = d
    BY <1>5 DEF Forward, MayForward
  <2>10. TypeOK'
    <3>1. {recv', processed', sent', passed'} \subseteq [Dirs -> Nat]
      BY <2>5, <2>6, <2>9, Types DEF ThreadInv
    <3> QED
      BY <2>5, <2>6, <2>7, <2>8, <2>9, <3>1 DEF ThreadInv, TypeOK
  <2> QED
    BY <2>9, <2>10 DEF ThreadInv, ThreadsKnown, Exclusive
<1>6. ASSUME NEW d \in Dirs, NextCache(d) PROVE ThreadInv'
  BY <1>6 DEF NextCache, ThreadInv, ThreadsKnown, Exclusive, TypeOK
<1>7. ASSUME NEW d \in Dirs, RoundDone(d) PROVE ThreadInv'
  BY <1>7 DEF RoundDone, ThreadInv, ThreadsKnown, Exclusive, TypeOK, Dirs
<1> QED
  BY <1>1, <1>2, <1>3, <1>4, <1>5, <1>6, <1>7 DEF SendingThread

\* One step of the main thread.
LEMMA MainThreadInv ==
  ASSUME ThreadInv, MainThread
  PROVE  ThreadInv'
<1> USE DEF netVars, statVars, mainFrame
<1>1. CASE Start
  <2>1. tokens' \in [Dirs -> [Clients -> Nat]] /\ \A d \in Dirs, c \in Clients : tokens'[d][c] \in 0..Rate[d]
    BY <1>1, RateAssumption DEF Start, FullBuckets
  <2>2. cache' \in [Dirs -> [Clients -> Seq(Packet)]]
    BY <1>1 DEF Start, EmptyCaches
  <2>3. {recv', processed', sent', passed'} \subseteq [Dirs -> Nat]
    BY <1>1 DEF Start, Nothing
  <2>4. report' \in [dir : Dirs \cup {"none"}, sent : Nat, recv : Nat]
    BY <1>1 DEF Start, NoReport
  <2>5. runs' \in 0..MaxRuns
    BY <1>1, BoundsAssumption DEF Start, ThreadInv, TypeOK
  <2> QED
    BY <1>1, <2>1, <2>2, <2>3, <2>4, <2>5 DEF Start, ThreadInv, ThreadsKnown, Exclusive, TypeOK
<1>2. CASE ReadRecv
  <2>1. report' \in [dir : Dirs \cup {"none"}, sent : Nat, recv : Nat]
    <3>1. recv[report.dir] \in Nat
      BY <1>2, Types DEF ReadRecv, ThreadInv, ThreadsKnown
    <3> QED
      BY <1>2, <3>1, Types DEF ReadRecv, ThreadInv
  <2> QED
    BY <1>2, <2>1 DEF ReadRecv, ThreadInv, ThreadsKnown, Exclusive, TypeOK
<1>3. CASE FlushStat
  <2>1. ASSUME NEW counter \in [Dirs -> Nat], NEW counting \in SUBSET Dirs
        PROVE  Cleared(counter, counting) \subseteq [Dirs -> Nat]
    BY DEF Cleared, Nothing
  <2>2. {recv', processed', sent'} \subseteq [Dirs -> Nat]
    BY <1>3, <2>1 DEF FlushStat, ThreadInv, TypeOK
  <2>3. passed' \in [Dirs -> Nat] /\ report' \in [dir : Dirs \cup {"none"}, sent : Nat, recv : Nat]
    BY <1>3 DEF FlushStat, Nothing, NoReport
  <2> QED
    BY <1>3, <2>2, <2>3 DEF FlushStat, ThreadInv, ThreadsKnown, Exclusive, TypeOK
<1>4. CASE Stop
  BY <1>4 DEF Stop, ThreadInv, ThreadsKnown, Exclusive, TypeOK
<1>5. CASE Joined
  BY <1>5 DEF Joined, ThreadInv, ThreadsKnown, Exclusive, TypeOK
<1>6. ASSUME NEW d \in Dirs, ReadSent(d) PROVE ThreadInv'
  <2>1. report' \in [dir : Dirs \cup {"none"}, sent : Nat, recv : Nat]
    BY <1>6 DEF ReadSent, ThreadInv, TypeOK
  <2> QED
    BY <1>6, <2>1 DEF ReadSent, ThreadInv, ThreadsKnown, Exclusive, TypeOK
<1> QED
  BY <1>1, <1>2, <1>3, <1>4, <1>5, <1>6 DEF MainThread

\* The clock.
LEMMA TickThreadInv ==
  ASSUME ThreadInv, Tick
  PROVE  ThreadInv'
<1>1. window' \in Seq(Packet)
  <2>1. window \in Seq(Packet) /\ \A i \in DOMAIN window : Older(window[i]) \in Packet
    BY Types, OlderIs DEF ThreadInv
  <2> QED
    BY <2>1 DEF Tick
<1>2. tokens' \in [Dirs -> [Clients -> Nat]] /\ \A d \in Dirs, c \in Clients : tokens'[d][c] \in 0..Rate[d]
  <2>1. \A d \in Dirs, c \in Clients : Min({Rate[d], tokens[d][c] + Refill}) \in 0..Rate[d]
    <3> SUFFICES ASSUME NEW d \in Dirs, NEW c \in Clients
                 PROVE  Min({Rate[d], tokens[d][c] + Refill}) \in 0..Rate[d]
      OBVIOUS
    <3>1. tokens[d][c] \in Nat
      BY Types DEF ThreadInv
    <3>2. Rate[d] \in Nat /\ tokens[d][c] + Refill \in Nat
      BY <3>1, RateTypes
    <3> QED
      BY <3>2, MinOfTwo
  <2> QED
    BY <2>1, RateAssumption DEF Tick
<1>3. UNCHANGED <<lossParams, cache, statVars, recvPc, sendPc, left, mainPc, interrupted, report,
                  written, reads, runs>>
  BY DEF Tick
<1>4. TypeOK'
  BY <1>1, <1>2, <1>3 DEF ThreadInv, TypeOK, statVars
<1>5. window # <<>> => window' # <<>>
  BY Types DEF Tick, ThreadInv
<1>6. ThreadsKnown'
  BY <1>3, <1>5 DEF ThreadInv, ThreadsKnown, Exclusive
<1> QED
  BY <1>4, <1>6 DEF ThreadInv

LEMMA NextThreadInv == ThreadInv /\ [Next]_vars => ThreadInv'
<1> SUFFICES ASSUME ThreadInv, [Next]_vars PROVE ThreadInv'
  OBVIOUS
<1>1. CASE UNCHANGED vars
  BY <1>1 DEF vars, netVars, statVars, ThreadInv, ThreadsKnown, Exclusive, TypeOK
<1> QED
  BY <1>1, ReceivingThreadInv, SendingThreadInv, MainThreadInv, TickThreadInv DEF Next

LEMMA AlwaysThreadInv == Spec => []ThreadInv
BY ThreadInvInit, NextThreadInv, PTL DEF Spec

(***************************************************************************)
(* The variables have their types; the tokens of a bucket never become     *)
(* negative, nor more than the bucket holds.                               *)
(***************************************************************************)
THEOREM TypeCorrect == Spec => []TypeOK
<1>1. ThreadInv => TypeOK
  BY DEF ThreadInv
<1> QED
  BY <1>1, AlwaysThreadInv, PTL

(***************************************************************************)
(* The threads of a run are gone before the next one starts, and are there *)
(* while it lasts.                                                         *)
(***************************************************************************)
THEOREM ExclusiveHolds == Spec => []Exclusive
<1>1. ThreadInv => Exclusive
  BY DEF ThreadInv, ThreadsKnown
<1> QED
  BY <1>1, AlwaysThreadInv, PTL


---------------------------------------------------------------------------
(* The order of the packets. *)

Ordered(s) == \A i, j \in DOMAIN s : i < j => s[i].n < s[j].n

WindowOrdered == Ordered(window) /\ \A i \in DOMAIN window : window[i].n < reads

\* A cache holds ripe packets of its lane, in order, which were all read
\* before those that wait in the window.
CacheOrdered(d, c) ==
  /\ Ordered(cache[d][c])
  /\ \A i \in DOMAIN cache[d][c] :
       /\ Ripe(cache[d][c][i])
       /\ Lane(cache[d][c][i].flow) = <<d, c>>
       /\ cache[d][c][i].n < reads
       /\ \A j \in Waiting : cache[d][c][i].n < window[j].n

OrderInv == WindowOrdered /\ \A d \in Dirs, c \in Clients : CacheOrdered(d, c)

LEMMA AppendIs ==
  ASSUME NEW s \in Seq(Packet), NEW e \in Packet
  PROVE  /\ Append(s, e) \in Seq(Packet)
         /\ DOMAIN s = 1..Len(s) /\ Len(s) \in Nat
         /\ DOMAIN Append(s, e) = 1..(Len(s) + 1)
         /\ \A i \in DOMAIN s : Append(s, e)[i] = s[i] /\ s[i] \in Packet
         /\ Append(s, e)[Len(s) + 1] = e
OBVIOUS

LEMMA TailIs ==
  ASSUME NEW s \in Seq(Packet), s # <<>>
  PROVE  /\ Tail(s) \in Seq(Packet)
         /\ DOMAIN s = 1..Len(s) /\ Len(s) \in Nat \ {0}
         /\ DOMAIN Tail(s) = 1..(Len(s) - 1)
         /\ \A i \in 1..(Len(s) - 1) : Tail(s)[i] = s[i + 1] /\ i + 1 \in DOMAIN s
         /\ \A i \in DOMAIN s : s[i] \in Packet
         /\ Head(s) = s[1] /\ 1 \in DOMAIN s
OBVIOUS

LEMMA ElementIsPacket ==
  ASSUME NEW s \in Seq(Packet)
  PROVE  \A i \in DOMAIN s : s[i] \in Packet
OBVIOUS

LEMMA NumberType ==
  ASSUME NEW pkt \in Packet
  PROVE  pkt.n \in Nat /\ pkt.flow \in Flows /\ pkt.age \in Nat
BY DEF Packet

LEMMA OrderedAppend ==
  ASSUME NEW s \in Seq(Packet), NEW e \in Packet, Ordered(s),
         \A i \in DOMAIN s : s[i].n < e.n
  PROVE  Ordered(Append(s, e))
<1> DEFINE t == Append(s, e)
<1> SUFFICES ASSUME NEW i \in DOMAIN t, NEW j \in DOMAIN t, i < j PROVE t[i].n < t[j].n
  BY DEF Ordered
<1>1. i \in DOMAIN s /\ t[i] = s[i]
  BY AppendIs
<1>2. CASE j \in DOMAIN s
  BY <1>1, <1>2, AppendIs DEF Ordered
<1>3. CASE j = Len(s) + 1
  BY <1>1, <1>3, AppendIs
<1> QED
  BY <1>2, <1>3, AppendIs

LEMMA OrderedTail ==
  ASSUME NEW s \in Seq(Packet), s # <<>>, Ordered(s)
  PROVE  Ordered(Tail(s))
BY TailIs DEF Ordered

\* Steps that move no packet.
LEMMA OrderFrame ==
  ASSUME OrderInv, UNCHANGED <<window, cache, reads>>, sendPc = "pop" <=> sendPc' = "pop"
  PROVE  OrderInv'
<1>1. WindowOrdered'
  BY DEF OrderInv, WindowOrdered, Ordered
<1>2. ASSUME NEW d \in Dirs, NEW c \in Clients PROVE CacheOrdered(d, c)'
  BY DEF OrderInv, CacheOrdered, Ordered, Waiting
<1> QED
  BY <1>1, <1>2 DEF OrderInv

LEMMA NextOrderInv == ThreadInv /\ OrderInv /\ [Next]_vars => OrderInv'
<1> SUFFICES ASSUME ThreadInv, OrderInv, [Next]_vars PROVE OrderInv'
  OBVIOUS
<1> USE DEF netVars, statVars
<1>0. /\ window \in Seq(Packet) /\ cache \in [Dirs -> [Clients -> Seq(Packet)]]
      /\ reads \in Nat /\ left \subseteq Clients
  BY Types DEF ThreadInv
<1>1. CASE UNCHANGED vars
  BY <1>1, OrderFrame DEF vars
<1>2. CASE RecvTop \/ ReadTimeout
  BY <1>2, OrderFrame DEF RecvTop, ReadTimeout
<1>3. ASSUME NEW flow \in Flows, Read(flow) PROVE OrderInv'
  <2> DEFINE pkt == [n |-> reads, flow |-> flow, age |-> 0]
  <2>1. pkt \in Packet /\ pkt.n = reads
    BY <1>0 DEF Packet
  <2>2. reads' = reads + 1 /\ UNCHANGED <<cache, sendPc>>
    BY <1>3 DEF Read
  <2>3. CASE window' = Append(window, pkt)
    <3>1. \A i \in DOMAIN window : window[i] \in Packet /\ window[i].n < reads
      BY <1>0, <2>1, AppendIs DEF OrderInv, WindowOrdered
    <3>2. Ordered(window')
      BY <1>0, <2>1, <2>3, <3>1, OrderedAppend DEF OrderInv, WindowOrdered
    <3> HIDE DEF pkt
    <3>3. /\ DOMAIN window' = 1..(Len(window) + 1) /\ Len(window) \in Nat
          /\ \A i \in DOMAIN window : window'[i] = window[i]
          /\ window'[Len(window) + 1] = pkt /\ DOMAIN window = 1..Len(window)
      BY <1>0, <2>1, <2>3, AppendIs
    <3>4. \A i \in DOMAIN window' : i \in DOMAIN window \/ i = Len(window) + 1
      BY <3>3
    <3>5. \A i \in DOMAIN window' : window'[i].n < reads'
      <4>1. \A i \in DOMAIN window : window[i].n \in Nat /\ window[i].n < reads + 1
        BY <1>0, <3>1, NumberType
      <4> QED
        BY <1>0, <2>1, <2>2, <3>3, <3>4, <4>1
    <3>6. ASSUME NEW d \in Dirs, NEW c \in Clients PROVE CacheOrdered(d, c)'
      <4>1. CacheOrdered(d, c) /\ cache' = cache /\ cache[d][c] \in Seq(Packet)
        BY <1>0, <2>2 DEF OrderInv
      <4>2. ASSUME NEW i \in DOMAIN cache[d][c]
            PROVE  cache[d][c][i].n < reads' /\ \A j \in Waiting' : cache[d][c][i].n < window'[j].n
        <5>1. cache[d][c][i].n \in Nat /\ cache[d][c][i].n < reads
          BY <4>1, NumberType DEF CacheOrdered
        <5>2. ASSUME NEW j \in Waiting' PROVE cache[d][c][i].n < window'[j].n
          <6>1. CASE j \in DOMAIN window
            BY <2>2, <3>3, <4>1, <6>1 DEF CacheOrdered, Waiting
          <6>2. CASE j = Len(window) + 1
            BY <2>1, <3>3, <5>1, <6>2
          <6> QED
            BY <3>4, <6>1, <6>2 DEF Waiting
        <5> QED
          BY <1>0, <2>2, <5>1, <5>2
      <4> QED
        BY <4>1, <4>2 DEF CacheOrdered, Ordered
    <3> QED
      BY <3>2, <3>5, <3>6 DEF OrderInv, WindowOrdered
  <2>4. CASE UNCHANGED window
    <3>1. WindowOrdered'
      <4>1. \A i \in DOMAIN window : window[i].n \in Nat /\ window[i].n < reads
        BY <1>0, NumberType, ElementIsPacket DEF OrderInv, WindowOrdered
      <4> QED
        BY <1>0, <2>2, <2>4, <4>1 DEF OrderInv, WindowOrdered, Ordered
    <3>2. ASSUME NEW d \in Dirs, NEW c \in Clients PROVE CacheOrdered(d, c)'
      <4>1. CacheOrdered(d, c) /\ cache' = cache /\ Waiting' = Waiting
        BY <2>2, <2>4 DEF OrderInv, Waiting
      <4>2. \A i \in DOMAIN cache[d][c] : cache[d][c][i].n \in Nat
        BY <1>0, NumberType, ElementIsPacket
      <4> QED
        BY <1>0, <2>2, <2>4, <4>1, <4>2 DEF CacheOrdered, Ordered
    <3> QED
      BY <3>1, <3>2 DEF OrderInv
  <2> QED
    BY <1>3, <2>3, <2>4 DEF Read
<1>4. CASE SendTop \/ WindowDone
  BY <1>4, OrderFrame DEF SendTop, WindowDone, sendFrame
<1>5. CASE ProcessPacket
  <2> DEFINE pkt  == Head(window)
             lane == Lane(pkt.flow)
  <2>1. /\ window # <<>> /\ Ripe(pkt) /\ sendPc = "window" /\ sendPc' = "pop"
        /\ UNCHANGED <<window, reads>>
    BY <1>5 DEF ProcessPacket, Peeked, sendFrame
  <2>2. pkt = window[1] /\ pkt \in Packet /\ 1 \in Waiting /\ DOMAIN window = 1..Len(window)
    BY <1>0, <2>1, TailIs DEF Waiting
  <2>3. WindowOrdered'
    BY <2>1 DEF OrderInv, WindowOrdered, Ordered
  <2>4. Waiting' \subseteq Waiting /\ \A j \in Waiting' : j > 1
    BY <2>1 DEF Waiting
  <2>5. ASSUME NEW d \in Dirs, NEW c \in Clients, cache'[d][c] = cache[d][c] PROVE CacheOrdered(d, c)'
    BY <2>1, <2>4, <2>5 DEF OrderInv, CacheOrdered, Ordered
  <2>6. CASE cache' = cache
    BY <2>3, <2>5, <2>6 DEF OrderInv
  <2>7. CASE lane \in Dirs \X Clients /\ cache' = [cache EXCEPT ![lane[1]][lane[2]] = Append(@, pkt)]
    <3>1. PICK d \in Dirs, c \in Clients : lane = <<d, c>>
      BY <2>7
    <3> DEFINE old == cache[d][c]
    <3>2. Lane(pkt.flow) = <<d, c>>
      BY <3>1
    <3> HIDE DEF pkt, lane
    <3>3. cache' = [cache EXCEPT ![d][c] = Append(@, pkt)]
      <4>1. lane[1] = d /\ lane[2] = c
        BY <3>1
      <4> QED
        BY <2>7, <4>1
    <3>4. /\ old \in Seq(Packet) /\ cache'[d][c] = Append(old, pkt)
          /\ \A e \in Dirs, b \in Clients : e # d \/ b # c => cache'[e][b] = cache[e][b]
      BY <1>0, <3>3
    <3>5. CacheOrdered(d, c) /\ WindowOrdered
      BY DEF OrderInv
    <3>6. \A i \in DOMAIN old : old[i].n < pkt.n
      BY <2>2, <3>5 DEF CacheOrdered
    <3>7. Ordered(cache'[d][c])
      BY <2>2, <3>4, <3>5, <3>6, OrderedAppend DEF CacheOrdered
    <3>8. ASSUME NEW i \in DOMAIN cache'[d][c]
          PROVE  /\ Ripe(cache'[d][c][i])
                 /\ Lane(cache'[d][c][i].flow) = <<d, c>>
                 /\ cache'[d][c][i].n < reads
                 /\ \A j \in Waiting' : cache'[d][c][i].n < window[j].n
      <4>1. CASE i \in DOMAIN old
        <5>1. cache'[d][c][i] = old[i]
          BY <2>2, <3>4, <4>1, AppendIs
        <5> QED
          BY <2>4, <3>5, <4>1, <5>1 DEF CacheOrdered
      <4>2. CASE i = Len(old) + 1
        <5>1. cache'[d][c][i] = pkt
          BY <2>2, <3>4, <4>2, AppendIs
        <5>2. pkt.n < reads
          BY <2>2, <3>5 DEF WindowOrdered, Waiting
        <5>3. \A j \in Waiting' : pkt.n < window[j].n
          BY <2>2, <2>4, <3>5 DEF WindowOrdered, Waiting, Ordered
        <5> QED
          BY <2>1, <3>2, <5>1, <5>2, <5>3 DEF pkt
      <4> QED
        BY <2>2, <3>4, <4>1, <4>2, AppendIs
    <3>9. CacheOrdered(d, c)'
      BY <2>1, <3>7, <3>8 DEF CacheOrdered, Ordered
    <3> QED
      BY <2>3, <2>5, <3>4, <3>9 DEF OrderInv
  <2> QED
    BY <1>5, <2>6, <2>7 DEF ProcessPacket
<1>6. CASE Pop
  <2>1. /\ window # <<>> /\ sendPc = "pop" /\ sendPc' = "window"
        /\ window' = Tail(window) /\ UNCHANGED <<cache, reads>>
    BY <1>6 DEF Pop, sendFrame, ThreadInv, ThreadsKnown
  <2>2. /\ DOMAIN window = 1..Len(window) /\ Len(window) \in Nat \ {0}
        /\ DOMAIN window' = 1..(Len(window) - 1)
        /\ \A i \in 1..(Len(window) - 1) : window'[i] = window[i + 1] /\ i + 1 \in DOMAIN window
    BY <1>0, <2>1, TailIs
  <2>3. WindowOrdered'
    <3>1. Ordered(window')
      BY <1>0, <2>1, OrderedTail DEF OrderInv, WindowOrdered
    <3> QED
      BY <2>1, <2>2, <3>1 DEF OrderInv, WindowOrdered
  <2>4. \A j \in Waiting' : j + 1 \in Waiting /\ window'[j] = window[j + 1]
    BY <2>1, <2>2 DEF Waiting
  <2>5. ASSUME NEW d \in Dirs, NEW c \in Clients PROVE CacheOrdered(d, c)'
    BY <2>1, <2>4 DEF OrderInv, CacheOrdered, Ordered
  <2> QED
    BY <2>3, <2>5 DEF OrderInv
<1>7. ASSUME NEW d \in Dirs, Forward(d) PROVE OrderInv'
  <2>0. PICK v \in Clients : v = Visited
    BY <1>0, <1>7, VisitedIsClient DEF Forward, MayForward
  <2> DEFINE old == cache[d][v]
  <2>1. old # <<>> /\ old \in Seq(Packet)
    BY <1>0, <1>7, <2>0 DEF Forward, MayForward
  <2>2. cache' = [cache EXCEPT ![d][v] = Tail(@)] /\ UNCHANGED <<window, reads, sendPc>>
    BY <1>7, <2>0 DEF Forward, sendFrame
  <2>3. /\ cache'[d][v] = Tail(old)
        /\ \A e \in Dirs, b \in Clients : e # d \/ b # v => cache'[e][b] = cache[e][b]
    BY <1>0, <2>1, <2>2
  <2>4. WindowOrdered' /\ Waiting' = Waiting
    BY <2>2 DEF OrderInv, WindowOrdered, Ordered, Waiting
  <2>5. ASSUME NEW e \in Dirs, NEW b \in Clients, e # d \/ b # v PROVE CacheOrdered(e, b)'
    BY <2>2, <2>3, <2>4, <2>5 DEF OrderInv, CacheOrdered, Ordered
  <2>6. CacheOrdered(d, v)'
    <3>1. CacheOrdered(d, v)
      BY <2>1 DEF OrderInv
    <3>2. Ordered(cache'[d][v])
      BY <2>1, <2>3, <3>1, OrderedTail DEF CacheOrdered
    <3>3. \A i \in DOMAIN cache'[d][v] : i + 1 \in DOMAIN old /\ cache'[d][v][i] = old[i + 1]
      BY <2>1, <2>3, TailIs
    <3>4. ASSUME NEW i \in DOMAIN cache'[d][v]
          PROVE  /\ Ripe(cache'[d][v][i])
                 /\ Lane(cache'[d][v][i].flow) = <<d, v>>
                 /\ cache'[d][v][i].n < reads
                 /\ \A j \in Waiting : cache'[d][v][i].n < window[j].n
      BY <3>1, <3>3 DEF CacheOrdered
    <3> QED
      BY <2>2, <2>4, <3>2, <3>4 DEF CacheOrdered, Ordered
  <2>7. ASSUME NEW e \in Dirs, NEW b \in Clients PROVE CacheOrdered(e, b)'
    <3>1. CASE e = d /\ b = v
      BY <2>6, <3>1
    <3> QED
      BY <2>5, <3>1
  <2> QED
    BY <2>4, <2>7 DEF OrderInv
<1>8. ASSUME NEW d \in Dirs, NextCache(d) \/ RoundDone(d) PROVE OrderInv'
  BY <1>8, OrderFrame DEF NextCache, RoundDone, sendFrame, Dirs
<1>9. CASE Start
  <2>1. /\ cache' = EmptyCaches /\ UNCHANGED <<window, reads>>
        /\ sendPc = "dead" /\ sendPc' = "top"
    BY <1>9 DEF Start, ThreadInv, ThreadsKnown, Exclusive
  <2>2. WindowOrdered'
    BY <2>1 DEF OrderInv, WindowOrdered, Ordered
  <2>3. ASSUME NEW d \in Dirs, NEW c \in Clients PROVE CacheOrdered(d, c)'
    <3>1. cache'[d][c] = <<>>
      BY <2>1 DEF EmptyCaches
    <3> QED
      BY <3>1 DEF CacheOrdered, Ordered
  <2> QED
    BY <2>2, <2>3 DEF OrderInv
<1>10. CASE ReadRecv \/ FlushStat \/ Stop \/ Joined \/ \E d \in Dirs : ReadSent(d)
  BY <1>10, OrderFrame DEF ReadRecv, FlushStat, Stop, Joined, ReadSent, mainFrame
<1>11. CASE Tick
  <2>1. /\ window' = [i \in DOMAIN window |-> Older(window[i])]
        /\ UNCHANGED <<cache, reads, sendPc>>
    BY <1>11 DEF Tick
  <2>2. DOMAIN window' = DOMAIN window /\ \A i \in DOMAIN window : window'[i].n = window[i].n
    BY <1>0, <2>1, OlderIs, ElementIsPacket
  <2>3. WindowOrdered' /\ Waiting' = Waiting
    BY <2>1, <2>2 DEF OrderInv, WindowOrdered, Ordered, Waiting
  <2>4. ASSUME NEW d \in Dirs, NEW c \in Clients PROVE CacheOrdered(d, c)'
    BY <2>1, <2>2, <2>3 DEF OrderInv, CacheOrdered, Ordered, Waiting
  <2> QED
    BY <2>3, <2>4 DEF OrderInv
<1> QED
  BY <1>1, <1>2, <1>3, <1>4, <1>5, <1>6, <1>7, <1>8, <1>9, <1>10, <1>11
     DEF Next, ReceivingThread, SendingThread, MainThread

LEMMA AlwaysOrderInv == Spec => [](ThreadInv /\ OrderInv)
<1>1. Init => OrderInv
  BY DEF Init, EmptyCaches, OrderInv, WindowOrdered, CacheOrdered, Ordered
<1> QED
  BY <1>1, AlwaysThreadInv, NextOrderInv, PTL DEF Spec

---------------------------------------------------------------------------
(* The refinement. *)

Transit == InTheWindow \cup InTheCaches

\* Membership in what the link has in transit, now and after a step.
LEMMA TransitIs ==
  /\ \A pkt : pkt \in InTheWindow <=> \E i \in Waiting : pkt = window[i]
  /\ \A pkt : pkt \in InTheCaches <=>
        \E d \in Dirs, c \in Clients : \E i \in DOMAIN cache[d][c] : pkt = cache[d][c][i]
  /\ (\A pkt : pkt \in InTheWindow <=> \E i \in Waiting : pkt = window[i])'
  /\ (\A pkt : pkt \in InTheCaches <=>
        \E d \in Dirs, c \in Clients : \E i \in DOMAIN cache[d][c] : pkt = cache[d][c][i])'
<1>1. /\ \A pkt : pkt \in InTheWindow <=> \E i \in Waiting : pkt = window[i]
      /\ (\A pkt : pkt \in InTheWindow <=> \E i \in Waiting : pkt = window[i])'
  BY DEF InTheWindow
<1>2. /\ \A pkt : pkt \in InTheCaches <=>
            \E d \in Dirs, c \in Clients : pkt \in InTheCache(d, c)
      /\ (\A pkt : pkt \in InTheCaches <=>
            \E d \in Dirs, c \in Clients : pkt \in InTheCache(d, c))'
  BY DEF InTheCaches
<1>3. /\ \A d, c, pkt : pkt \in InTheCache(d, c) <=>
            \E i \in DOMAIN cache[d][c] : pkt = cache[d][c][i]
      /\ (\A d, c, pkt : pkt \in InTheCache(d, c) <=>
            \E i \in DOMAIN cache[d][c] : pkt = cache[d][c][i])'
  BY DEF InTheCache
<1> QED
  BY <1>1, <1>2, <1>3

\* The link is made of the same traffic.
LEMMA LinkTraffic ==
  /\ \A pkt : Link!Ripe(pkt) <=> Ripe(pkt)
  /\ \A pkt : Link!Older(pkt) = Older(pkt)
  /\ \A flow : Link!Lane(flow) = Lane(flow)
BY DEF Link!Ripe, Ripe, Link!Older, Older, Link!Lane, Lane, Link!Devices, Devices

\* The steps that the link does not see.
LEMMA LinkFrame ==
  ASSUME UNCHANGED <<window, cache, reads, written>>, sendPc = "pop" <=> sendPc' = "pop"
  PROVE  UNCHANGED Link!linkVars
BY DEF Link!linkVars, InTheWindow, InTheCaches, InTheCache, Waiting

(***************************************************************************)
(* A packet that leaves the path is delivered, if it is the first of its   *)
(* lane and Transmit writes it, or is lost.                                *)
(***************************************************************************)
LEMMA LinkDeparture ==
  ASSUME NEW pkt \in Transit, Transit' = Transit \ {pkt}, reads' = reads,
         UNCHANGED written \/ Transmit(pkt),
         Ripe(pkt), Lane(pkt.flow) # <<"nowhere">>,
         \A other \in Transit : Lane(other.flow) = Lane(pkt.flow) => pkt.n <= other.n
  PROVE  Link!Next
<1>1. CASE UNCHANGED written
  BY <1>1 DEF Link!Next, Link!Lose, Transit
<1>2. CASE Transmit(pkt) /\ pkt.flow.transport
  <2>1. Link!Deliver(pkt)
    <3>1. written' = Append(written, pkt)
      BY <1>2 DEF Transmit
    <3>2. Link!FirstOfLane(pkt)
      BY LinkTraffic DEF Link!FirstOfLane, Transit
    <3> QED
      BY <1>2, <3>1, <3>2, LinkTraffic DEF Link!Deliver, Transit
  <2> QED
    BY <2>1 DEF Link!Next, Transit
<1> QED
  BY <1>1, <1>2 DEF Transmit

LEMMA LinkStep ==
  ASSUME ThreadInv, OrderInv, [Next]_vars
  PROVE  [Link!Next]_(Link!linkVars)
<1> USE DEF netVars, statVars
<1>0. /\ window \in Seq(Packet) /\ cache \in [Dirs -> [Clients -> Seq(Packet)]]
      /\ reads \in Nat /\ left \subseteq Clients
  BY Types DEF ThreadInv
<1>1. CASE UNCHANGED vars
  BY <1>1, LinkFrame DEF vars
<1>2. CASE RecvTop \/ ReadTimeout
  BY <1>2, LinkFrame DEF RecvTop, ReadTimeout
<1>3. ASSUME NEW flow \in Flows, Read(flow) PROVE [Link!Next]_(Link!linkVars)
  <2> DEFINE pkt == [n |-> reads, flow |-> flow, age |-> 0]
  <2>1. pkt \in Packet
    BY <1>0 DEF Packet
  <2>2. reads' = reads + 1 /\ UNCHANGED <<cache, sendPc, written>>
    BY <1>3 DEF Read
  <2>3. InTheCaches' = InTheCaches
    BY <2>2 DEF InTheCaches, InTheCache
  <2>4. CASE window' = Append(window, pkt)
    <3>1. /\ DOMAIN window' = DOMAIN window \cup {Len(window) + 1}
          /\ Len(window) \in Nat /\ sendPc = "pop" => Len(window) > 0
          /\ \A i \in DOMAIN window : window'[i] = window[i]
          /\ window'[Len(window) + 1] = pkt /\ Len(window) + 1 \notin DOMAIN window
      <4>1. sendPc = "pop" => window # <<>>
        BY DEF ThreadInv, ThreadsKnown
      <4> QED
        BY <1>0, <2>1, <2>4, <4>1, AppendIs
    <3>2. Waiting' = Waiting \cup {Len(window) + 1}
      BY <2>2, <3>1 DEF Waiting
    <3> HIDE DEF pkt
    <3>3. InTheWindow' = InTheWindow \cup {pkt}
      BY <3>1, <3>2 DEF InTheWindow, Waiting
    <3> QED
      BY <2>2, <2>3, <3>3 DEF pkt, Link!Next, Link!Accept
  <2>5. CASE UNCHANGED window
    <3>1. InTheWindow' = InTheWindow
      BY <2>2, <2>5 DEF InTheWindow, Waiting
    <3> QED
      BY <2>2, <2>3, <3>1 DEF Link!Next, Link!Accept
  <2> QED
    BY <1>3, <2>4, <2>5 DEF Read
<1>4. CASE SendTop \/ WindowDone
  BY <1>4, LinkFrame DEF SendTop, WindowDone, sendFrame
<1>5. CASE ProcessPacket
  <2> DEFINE pkt  == Head(window)
             lane == Lane(pkt.flow)
  <2>1. /\ window # <<>> /\ Ripe(pkt) /\ sendPc = "window" /\ sendPc' = "pop"
        /\ UNCHANGED <<window, reads>>
    BY <1>5 DEF ProcessPacket, Peeked, sendFrame
  <2>2. pkt = window[1] /\ pkt \in Packet /\ 1 \in Waiting /\ DOMAIN window = 1..Len(window)
    BY <1>0, <2>1, TailIs DEF Waiting
  <2>3. Waiting = Waiting' \cup {1} /\ \A j \in Waiting' : j > 1
    BY <2>1, <2>2 DEF Waiting
  <2>4. \A j \in Waiting' : pkt.n < window[j].n
    BY <2>2, <2>3 DEF OrderInv, WindowOrdered, Ordered, Waiting
  <2>5. InTheWindow = InTheWindow' \cup {pkt}
    BY <2>1, <2>2, <2>3 DEF InTheWindow
  <2>6. \A other \in InTheCaches :
          other.n < pkt.n /\ \E d \in Dirs, c \in Clients : Lane(other.flow) = <<d, c>>
    BY <2>2, TransitIs DEF OrderInv, CacheOrdered
  <2>7. pkt.n \in Nat
    BY <2>2, NumberType
  <2>8. pkt \notin InTheWindow' /\ pkt \notin InTheCaches
    BY <2>1, <2>4, <2>6, <2>7, TransitIs
  <2> HIDE DEF pkt
  <2>9. CASE lane = <<"nowhere">> /\ UNCHANGED <<cache, statVars, written>>
    <3>1. InTheCaches' = InTheCaches
      BY <2>9 DEF InTheCaches, InTheCache
    <3> QED
      BY <2>1, <2>5, <2>9, <3>1 DEF Link!Next, Link!Lose
  <2>10. CASE lane = <<"between">> /\ Transmit(pkt) /\ UNCHANGED <<cache, recv, processed, passed>>
    <3>1. InTheCaches' = InTheCaches
      BY <2>10 DEF InTheCaches, InTheCache
    <3>2. pkt \in Transit /\ Transit' = Transit \ {pkt}
      BY <2>5, <2>8, <3>1 DEF Transit
    <3>3. ASSUME NEW other \in Transit, Lane(other.flow) = lane PROVE pkt.n <= other.n
      <4>1. other \notin InTheCaches
        BY <2>6, <2>10, <3>3
      <4>2. CASE other \in InTheWindow'
        <5>1. PICK j \in Waiting' : other = window[j]
          BY <2>1, <4>2, TransitIs
        <5>2. window[j].n \in Nat
          BY <1>0, <2>1, ElementIsPacket, NumberType DEF Waiting
        <5> QED
          BY <2>4, <2>7, <5>1, <5>2
      <4>3. CASE other = pkt
        BY <2>7, <4>3
      <4> QED
        BY <2>5, <4>1, <4>2, <4>3 DEF Transit
    <3> QED
      BY <2>1, <2>10, <3>2, <3>3, LinkDeparture
  <2>11. CASE /\ lane \in Dirs \X Clients
              /\ cache' = [cache EXCEPT ![lane[1]][lane[2]] = Append(@, pkt)]
              /\ UNCHANGED written
    <3>1. PICK d \in Dirs, c \in Clients : lane = <<d, c>>
      BY <2>11
    <3> DEFINE old == cache[d][c]
    <3> HIDE DEF lane
    <3>2. cache' = [cache EXCEPT ![d][c] = Append(@, pkt)]
      <4>1. lane[1] = d /\ lane[2] = c
        BY <3>1
      <4> QED
        BY <2>11, <4>1
    <3>3. /\ old \in Seq(Packet) /\ cache'[d][c] = Append(old, pkt)
          /\ \A e \in Dirs, b \in Clients : e # d \/ b # c => cache'[e][b] = cache[e][b]
      BY <1>0, <3>2
    <3>4. InTheCache(d, c)' = InTheCache(d, c) \cup {pkt}
      <4>1. /\ DOMAIN old = 1..Len(old) /\ DOMAIN cache'[d][c] = DOMAIN old \cup {Len(old) + 1}
            /\ \A i \in DOMAIN old : cache'[d][c][i] = old[i]
            /\ cache'[d][c][Len(old) + 1] = pkt
        BY <2>2, <3>3, AppendIs
      <4> QED
        BY <4>1 DEF InTheCache
    <3>5. \A e \in Dirs, b \in Clients : e # d \/ b # c => InTheCache(e, b)' = InTheCache(e, b)
      BY <3>3 DEF InTheCache
    <3>6. InTheCaches' = InTheCaches \cup {pkt}
      BY <3>4, <3>5 DEF InTheCaches
    <3>7. Transit' = Transit
      BY <2>5, <3>6 DEF Transit
    <3> QED
      BY <2>1, <2>11, <3>7 DEF Link!linkVars, Transit
  <2> QED
    BY <1>5, <2>9, <2>10, <2>11 DEF ProcessPacket, pkt
<1>6. CASE Pop
  <2>1. /\ window # <<>> /\ sendPc = "pop" /\ sendPc' = "window"
        /\ window' = Tail(window) /\ UNCHANGED <<cache, reads, written>>
    BY <1>6 DEF Pop, sendFrame, ThreadInv, ThreadsKnown
  <2>2. /\ DOMAIN window = 1..Len(window) /\ Len(window) \in Nat \ {0}
        /\ DOMAIN window' = 1..(Len(window) - 1)
        /\ \A i \in 1..(Len(window) - 1) : window'[i] = window[i + 1] /\ i + 1 \in DOMAIN window
    BY <1>0, <2>1, TailIs
  <2>3. Waiting' = 1..(Len(window) - 1) /\ Waiting = 2..Len(window)
    BY <2>1, <2>2 DEF Waiting
  <2>4. InTheWindow' = InTheWindow
    <3>1. ASSUME NEW j \in Waiting PROVE j - 1 \in Waiting' /\ window'[j - 1] = window[j]
      BY <2>2, <2>3
    <3>2. ASSUME NEW j \in Waiting' PROVE j + 1 \in Waiting /\ window'[j] = window[j + 1]
      BY <2>2, <2>3
    <3> QED
      BY <3>1, <3>2 DEF InTheWindow
  <2>5. InTheCaches' = InTheCaches
    BY <2>1 DEF InTheCaches, InTheCache
  <2> QED
    BY <2>1, <2>4, <2>5 DEF Link!linkVars
<1>7. ASSUME NEW d \in Dirs, Forward(d) PROVE [Link!Next]_(Link!linkVars)
  <2>0. PICK v \in Clients : v = Visited
    BY <1>0, <1>7, VisitedIsClient DEF Forward, MayForward
  <2> DEFINE old == cache[d][v]
             pkt == Head(old)
  <2>1. old # <<>> /\ old \in Seq(Packet) /\ CacheOrdered(d, v)
    BY <1>0, <1>7, <2>0 DEF Forward, MayForward, OrderInv
  <2>2. /\ cache' = [cache EXCEPT ![d][v] = Tail(@)] /\ UNCHANGED <<window, reads, sendPc>>
        /\ UNCHANGED written \/ Transmit(pkt)
    BY <1>7, <2>0 DEF Forward, sendFrame
  <2>3. /\ cache'[d][v] = Tail(old)
        /\ \A e \in Dirs, b \in Clients : e # d \/ b # v => cache'[e][b] = cache[e][b]
    BY <1>0, <2>1, <2>2
  <2>4. /\ DOMAIN old = 1..Len(old) /\ Len(old) \in Nat \ {0}
        /\ DOMAIN Tail(old) = 1..(Len(old) - 1)
        /\ \A i \in 1..(Len(old) - 1) : Tail(old)[i] = old[i + 1]
        /\ pkt = old[1] /\ pkt \in Packet /\ 1 \in DOMAIN old
    BY <2>1, TailIs
  <2>5. Ripe(pkt) /\ Lane(pkt.flow) = <<d, v>> /\ pkt.n \in Nat /\ \A j \in Waiting : pkt.n < window[j].n
    BY <2>1, <2>4, NumberType DEF CacheOrdered
  <2>6. \A i \in DOMAIN old : i > 1 => pkt.n < old[i].n
    BY <2>1, <2>4 DEF CacheOrdered, Ordered
  <2> HIDE DEF pkt
  <2>7. InTheWindow' = InTheWindow /\ \A other \in InTheWindow : pkt.n < other.n
    BY <2>2, <2>5 DEF InTheWindow, Waiting
  <2>8. \A e \in Dirs, b \in Clients :
          \A other \in InTheCache(e, b) : Lane(other.flow) = <<e, b>>
    BY DEF InTheCache, OrderInv, CacheOrdered
  <2>9. InTheCache(d, v) = InTheCache(d, v)' \cup {pkt} /\ \A other \in InTheCache(d, v)' : pkt.n < other.n
    <3>1. InTheCache(d, v)' = {old[i + 1] : i \in 1..(Len(old) - 1)}
      <4>1. InTheCache(d, v)' = {Tail(old)[i] : i \in 1..(Len(old) - 1)}
        BY <2>3, <2>4 DEF InTheCache
      <4> QED
        BY <2>4, <4>1
    <3>2. ASSUME NEW i \in DOMAIN old, i # 1 PROVE old[i] \in InTheCache(d, v)'
      <4>1. i - 1 \in 1..(Len(old) - 1) /\ (i - 1) + 1 = i
        BY <2>4, <3>2
      <4> QED
        BY <3>1, <4>1
    <3>3. \A i \in 1..(Len(old) - 1) : i + 1 \in DOMAIN old /\ i + 1 > 1
      BY <2>4
    <3>4. InTheCache(d, v) = {old[i] : i \in DOMAIN old}
      BY DEF InTheCache
    <3>5. InTheCache(d, v) \subseteq InTheCache(d, v)' \cup {pkt}
      BY <2>4, <3>2, <3>4
    <3>6. ASSUME NEW other \in InTheCache(d, v)'
          PROVE  other \in InTheCache(d, v) /\ pkt.n < other.n
      <4>1. PICK i \in 1..(Len(old) - 1) : other = old[i + 1]
        BY <3>1, <3>6
      <4> QED
        BY <2>6, <3>3, <3>4, <4>1
    <3>7. pkt \in InTheCache(d, v)
      BY <2>4, <3>4
    <3> QED
      BY <3>5, <3>6, <3>7
  <2>10. \A e \in Dirs, b \in Clients : e # d \/ b # v => InTheCache(e, b)' = InTheCache(e, b)
    BY <2>3 DEF InTheCache
  <2>11. pkt \in Transit
    BY <2>9 DEF Transit, InTheCaches
  <2>12. ASSUME NEW other \in Transit, Lane(other.flow) = Lane(pkt.flow) PROVE pkt.n <= other.n
    <3>1. CASE other \in InTheWindow
      <4>1. other.n \in Nat
        BY <1>0, <3>1, ElementIsPacket, NumberType DEF InTheWindow, Waiting
      <4> QED
        BY <2>5, <2>7, <3>1, <4>1
    <3>2. ASSUME NEW e \in Dirs, NEW b \in Clients, other \in InTheCache(e, b) PROVE pkt.n <= other.n
      <4>1. e = d /\ b = v
        BY <2>5, <2>8, <2>12, <3>2
      <4>2. other.n \in Nat
        BY <2>1, <3>2, <4>1, ElementIsPacket, NumberType DEF InTheCache
      <4> QED
        BY <2>5, <2>9, <3>2, <4>1, <4>2
    <3> QED
      BY <3>1, <3>2 DEF Transit, InTheCaches
  <2>13. Transit' = Transit \ {pkt}
    <3>1. pkt \notin InTheWindow
      BY <2>5, <2>7
    <3>2. pkt \notin InTheCache(d, v)'
      BY <2>5, <2>9
    <3>3. \A e \in Dirs, b \in Clients : e # d \/ b # v => pkt \notin InTheCache(e, b)
      BY <2>5, <2>8
    <3>4. \A e \in Dirs, b \in Clients : InTheCache(e, b)' = InTheCache(e, b) \ {pkt}
      <4> SUFFICES ASSUME NEW e \in Dirs, NEW b \in Clients
                   PROVE  InTheCache(e, b)' = InTheCache(e, b) \ {pkt}
        OBVIOUS
      <4>1. CASE e = d /\ b = v
        BY <2>9, <3>2, <4>1
      <4>2. CASE e # d \/ b # v
        BY <2>10, <3>3, <4>2
      <4> QED
        BY <4>1, <4>2
    <3>5. InTheCaches' = InTheCaches \ {pkt}
      BY <3>4 DEF InTheCaches
    <3> QED
      BY <2>7, <3>1, <3>5 DEF Transit
  <2>14. Lane(pkt.flow) # <<"nowhere">>
    BY <2>5
  <2> QED
    BY <2>2, <2>5, <2>11, <2>12, <2>13, <2>14, LinkDeparture
<1>8. ASSUME NEW d \in Dirs, NextCache(d) \/ RoundDone(d) PROVE [Link!Next]_(Link!linkVars)
  BY <1>8, LinkFrame DEF NextCache, RoundDone, sendFrame, Dirs
<1>9. CASE Start
  <2>1. /\ cache' = EmptyCaches /\ UNCHANGED <<window, reads, written>>
        /\ sendPc = "dead" /\ sendPc' = "top"
    BY <1>9 DEF Start, ThreadInv, ThreadsKnown, Exclusive
  <2>2. InTheWindow' = InTheWindow
    BY <2>1 DEF InTheWindow, Waiting
  <2>3. InTheCaches' = {}
    BY <2>1 DEF InTheCaches, InTheCache, EmptyCaches
  <2> QED
    BY <2>1, <2>2, <2>3 DEF Link!Next, Link!Lose
<1>10. CASE ReadRecv \/ FlushStat \/ Stop \/ Joined \/ \E d \in Dirs : ReadSent(d)
  BY <1>10, LinkFrame DEF ReadRecv, FlushStat, Stop, Joined, ReadSent, mainFrame
<1>11. CASE Tick
  <2>1. /\ window' = [i \in DOMAIN window |-> Older(window[i])]
        /\ UNCHANGED <<cache, reads, sendPc, written>>
    BY <1>11 DEF Tick
  <2>2. InTheWindow' = {Older(pkt) : pkt \in InTheWindow}
    BY <2>1 DEF InTheWindow, Waiting
  <2>3. InTheCaches' = InTheCaches
    BY <2>1 DEF InTheCaches, InTheCache
  <2>4. \A pkt \in InTheCaches : Older(pkt) = pkt
    BY <1>0, TransitIs DEF OrderInv, CacheOrdered, Older
  <2>5. Transit' = {Older(pkt) : pkt \in Transit}
    BY <2>2, <2>3, <2>4 DEF Transit
  <2>6. Link!Time
    BY <2>1, <2>5, LinkTraffic DEF Link!Time, Transit
  <2> QED
    BY <2>6 DEF Link!Next
<1> QED
  BY <1>1, <1>2, <1>3, <1>4, <1>5, <1>6, <1>7, <1>8, <1>9, <1>10, <1>11
     DEF Next, ReceivingThread, SendingThread, MainThread

(***************************************************************************)
(* The packet path, with its window and its caches, its threads and its    *)
(* restarts, is a link that may lose packets but neither reorders those of *)
(* a lane nor delivers one twice or too early (LossyLink).                 *)
(***************************************************************************)
THEOREM ImplementsLinkHolds == Spec => ImplementsLink
<1>1. Init => Link!Init
  BY DEF Init, EmptyCaches, Link!Init, InTheWindow, Waiting, InTheCaches, InTheCache
<1> QED
  BY <1>1, AlwaysOrderInv, LinkStep, PTL DEF Spec, ImplementsLink, Link!Spec

---------------------------------------------------------------------------
(* What the link delivers. *)

\* The packets of a lane have different numbers, and those on the way have
\* higher ones than those that were delivered.
DeliveredInv ==
  /\ Link!WellDelivered
  /\ \A pkt \in Transit : pkt.n < reads
  /\ \A i \in DOMAIN written : written[i].n < reads
  /\ \A i \in DOMAIN written, pkt \in Transit :
       Lane(written[i].flow) = Lane(pkt.flow) => written[i].n < pkt.n
  /\ \A p, q \in Transit : p.n = q.n /\ Lane(p.flow) = Lane(q.flow) => p = q

LEMMA TransitTyped ==
  ASSUME TypeOK
  PROVE  Transit \subseteq Packet
BY Types, TransitIs, ElementIsPacket DEF Transit, Waiting

LEMMA DeliveredStep ==
  ASSUME ThreadInv, DeliveredInv, [Link!Next]_(Link!linkVars)
  PROVE  DeliveredInv'
<1>0. /\ written \in Seq(Packet) /\ reads \in Nat /\ Transit \subseteq Packet
      /\ \A pkt \in Packet : pkt.n \in Nat
      /\ \A i \in DOMAIN written : written[i] \in Packet
  BY Types, TransitTyped, NumberType, ElementIsPacket DEF ThreadInv
<1>1. CASE UNCHANGED Link!linkVars
  BY <1>1 DEF Link!linkVars, DeliveredInv, Link!WellDelivered, Transit
<1>2. ASSUME NEW flow \in Flows, Link!Accept(flow) PROVE DeliveredInv'
  <2> DEFINE pkt == [n |-> reads, flow |-> flow, age |-> 0]
  <2>1. /\ reads' = reads + 1 /\ UNCHANGED written
        /\ Transit' \subseteq Transit \cup {pkt}
    BY <1>2 DEF Link!Accept, Transit
  <2>2. pkt.n = reads
    OBVIOUS
  <2> HIDE DEF pkt
  <2>3. \A p \in Transit : p.n < reads /\ p.n < reads + 1 /\ p.n # reads
    BY <1>0 DEF DeliveredInv
  <2>4. \A i \in DOMAIN written : written[i].n < reads /\ written[i].n < reads + 1
    BY <1>0 DEF DeliveredInv
  <2>5. Link!WellDelivered'
    BY <2>1 DEF DeliveredInv, Link!WellDelivered
  <2>6. \A p \in Transit' : p.n < reads'
    BY <1>0, <2>1, <2>2, <2>3
  <2>7. \A i \in DOMAIN written', p \in Transit' :
          Lane(written'[i].flow) = Lane(p.flow) => written'[i].n < p.n
    BY <2>1, <2>2, <2>4 DEF DeliveredInv
  <2>8. \A p, q \in Transit' : p.n = q.n /\ Lane(p.flow) = Lane(q.flow) => p = q
    BY <2>1, <2>2, <2>3 DEF DeliveredInv
  <2> QED
    BY <2>1, <2>4, <2>5, <2>6, <2>7, <2>8 DEF DeliveredInv
<1>3. CASE Link!Time
  <2>1. Transit' = {Older(pkt) : pkt \in Transit} /\ UNCHANGED <<reads, written>>
    BY <1>3, LinkTraffic DEF Link!Time, Transit
  <2>2. \A p \in Transit' : \E q \in Transit : p = Older(q) /\ p.n = q.n /\ p.flow = q.flow
    BY <1>0, <2>1, OlderIs
  <2> QED
    BY <2>1, <2>2 DEF DeliveredInv, Link!WellDelivered
<1>4. ASSUME NEW pkt \in Transit, Link!Deliver(pkt) PROVE DeliveredInv'
  <2>1. /\ Ripe(pkt) /\ pkt.flow.transport /\ Lane(pkt.flow) # <<"nowhere">>
        /\ written' = Append(written, pkt) /\ reads' = reads /\ Transit' = Transit \ {pkt}
    BY <1>4, LinkTraffic DEF Link!Deliver, Transit
  <2>2. \A p \in Transit : Lane(p.flow) = Lane(pkt.flow) => pkt.n <= p.n
    BY <1>4, LinkTraffic DEF Link!Deliver, Link!FirstOfLane, Transit
  <2>3. \A p \in Transit' : Lane(p.flow) = Lane(pkt.flow) => pkt.n < p.n
    BY <1>0, <2>1, <2>2 DEF DeliveredInv
  <2>4. /\ DOMAIN written = 1..Len(written) /\ Len(written) \in Nat
        /\ DOMAIN written' = 1..(Len(written) + 1)
        /\ \A i \in DOMAIN written : written'[i] = written[i]
        /\ written'[Len(written) + 1] = pkt
    BY <1>0, <2>1, AppendIs
  <2>5. \A i \in DOMAIN written' : i \in DOMAIN written \/ i = Len(written) + 1
    BY <2>4
  <2>6. Link!WellDelivered'
    <3>1. \A i \in DOMAIN written' :
            Ripe(written'[i]) /\ written'[i].flow.transport /\ Lane(written'[i].flow) # <<"nowhere">>
      BY <2>1, <2>4, <2>5, LinkTraffic DEF DeliveredInv, Link!WellDelivered
    <3>2. ASSUME NEW i \in DOMAIN written', NEW j \in DOMAIN written', i < j,
                 Lane(written'[i].flow) = Lane(written'[j].flow)
          PROVE  written'[i].n < written'[j].n
      <4>1. i \in DOMAIN written
        BY <2>4, <3>2
      <4>2. CASE j \in DOMAIN written
        BY <2>4, <3>2, <4>1, <4>2, LinkTraffic DEF DeliveredInv, Link!WellDelivered
      <4>3. CASE j = Len(written) + 1
        BY <2>4, <3>2, <4>1, <4>3 DEF DeliveredInv
      <4> QED
        BY <2>5, <4>2, <4>3
    <3> QED
      BY <3>1, <3>2, LinkTraffic DEF Link!WellDelivered
  <2>7. \A i \in DOMAIN written' : written'[i].n < reads'
    BY <2>1, <2>4, <2>5 DEF DeliveredInv
  <2>8. \A i \in DOMAIN written', p \in Transit' :
          Lane(written'[i].flow) = Lane(p.flow) => written'[i].n < p.n
    BY <2>1, <2>3, <2>4, <2>5 DEF DeliveredInv
  <2> QED
    BY <2>1, <2>6, <2>7, <2>8 DEF DeliveredInv
<1>5. CASE Link!Lose
  BY <1>5 DEF Link!Lose, DeliveredInv, Link!WellDelivered, Transit
<1> QED
  BY <1>1, <1>2, <1>3, <1>4, <1>5 DEF Link!Next, Transit

(***************************************************************************)
(* What the programs under test may rely on: every packet that is written  *)
(* to the device is ripe and between known devices, and in its lane comes  *)
(* after those that were read before it, and only once.                    *)
(***************************************************************************)
THEOREM WellDeliveredHolds == Spec => []Link!WellDelivered
<1>1. Init => DeliveredInv
  BY DEF Init, EmptyCaches, DeliveredInv, Link!WellDelivered, Transit, InTheWindow, Waiting,
         InTheCaches, InTheCache
<1>2. DeliveredInv => Link!WellDelivered
  BY DEF DeliveredInv
<1> QED
  BY <1>1, <1>2, AlwaysOrderInv, LinkStep, DeliveredStep, PTL DEF Spec

---------------------------------------------------------------------------
(* The counters. *)

CountInv == Conservation /\ \A d \in Dirs : IsFiniteSet(Places(d))

\* A packet more or less in a cache is a place more or less.
LEMMA PlacesAre ==
  /\ \A d, p : p \in Places(d) <=> \E c \in Clients : p \in {c} \X DOMAIN cache[d][c]
  /\ (\A d, p : p \in Places(d) <=> \E c \in Clients : p \in {c} \X DOMAIN cache[d][c])'
BY DEF Places

LEMMA OnePlaceMore ==
  ASSUME NEW d \in Dirs, IsFiniteSet(Places(d)), NEW c \in Clients,
         cache \in [Dirs -> [Clients -> Seq(Packet)]], NEW pkt \in Packet,
         cache' = [cache EXCEPT ![d][c] = Append(@, pkt)]
  PROVE  /\ IsFiniteSet(Places(d)') /\ Pending(d) \in Nat /\ Pending(d)' = Pending(d) + 1
         /\ \A e \in Dirs : e # d => Places(e)' = Places(e)
<1> DEFINE old == cache[d][c]
<1>1. /\ cache'[d][c] = Append(old, pkt) /\ old \in Seq(Packet)
      /\ \A e \in Dirs, b \in Clients : e # d \/ b # c => cache'[e][b] = cache[e][b]
  OBVIOUS
<1>2. /\ DOMAIN cache'[d][c] = DOMAIN old \cup {Len(old) + 1} /\ Len(old) + 1 \notin DOMAIN old
  BY <1>1, AppendIs
<1>3. Places(d)' = Places(d) \cup {<<c, Len(old) + 1>>}
  BY <1>1, <1>2, PlacesAre
<1>4. <<c, Len(old) + 1>> \notin Places(d)
  BY <1>2, PlacesAre
<1>5. \A e \in Dirs : e # d => Places(e)' = Places(e)
  BY <1>1 DEF Places
<1>6. /\ IsFiniteSet(Places(d) \cup {<<c, Len(old) + 1>>}) /\ Cardinality(Places(d)) \in Nat
      /\ Cardinality(Places(d) \cup {<<c, Len(old) + 1>>}) = Cardinality(Places(d)) + 1
  BY <1>4, FS_AddElement, FS_CardinalityType
<1> QED
  BY <1>3, <1>5, <1>6 DEF Pending

LEMMA OnePlaceLess ==
  ASSUME NEW d \in Dirs, IsFiniteSet(Places(d)), NEW c \in Clients,
         cache \in [Dirs -> [Clients -> Seq(Packet)]], cache[d][c] # <<>>,
         cache' = [cache EXCEPT ![d][c] = Tail(@)]
  PROVE  /\ IsFiniteSet(Places(d)') /\ Pending(d) \in Nat /\ Pending(d)' = Pending(d) - 1
         /\ \A e \in Dirs : e # d => Places(e)' = Places(e)
<1> DEFINE old == cache[d][c]
<1>1. /\ cache'[d][c] = Tail(old) /\ old \in Seq(Packet)
      /\ \A e \in Dirs, b \in Clients : e # d \/ b # c => cache'[e][b] = cache[e][b]
  OBVIOUS
<1>2. DOMAIN cache'[d][c] = DOMAIN old \ {Len(old)} /\ Len(old) \in DOMAIN old
  BY <1>1, TailIs
<1>3. Places(d)' = Places(d) \ {<<c, Len(old)>>}
  BY <1>1, <1>2, PlacesAre
<1>4. <<c, Len(old)>> \in Places(d)
  BY <1>2, PlacesAre
<1>5. \A e \in Dirs : e # d => Places(e)' = Places(e)
  BY <1>1 DEF Places
<1>6. /\ IsFiniteSet(Places(d) \ {<<c, Len(old)>>}) /\ Cardinality(Places(d)) \in Nat
      /\ Cardinality(Places(d) \ {<<c, Len(old)>>}) = Cardinality(Places(d)) - 1
  <2>1. Cardinality(Places(d)) \in Nat
    BY FS_CardinalityType
  <2>2. /\ IsFiniteSet(Places(d) \ {<<c, Len(old)>>})
        /\ Cardinality(Places(d) \ {<<c, Len(old)>>}) =
             IF <<c, Len(old)>> \in Places(d) THEN Cardinality(Places(d)) - 1 ELSE Cardinality(Places(d))
    BY FS_RemoveElement
  <2> QED
    BY <1>4, <2>1, <2>2
<1> QED
  BY <1>3, <1>5, <1>6 DEF Pending

\* Steps that neither count nor move a packet to or from a cache.
LEMMA CountFrame ==
  ASSUME CountInv, UNCHANGED <<cache, recv, processed>>, Running' => Running
  PROVE  CountInv'
BY DEF CountInv, Conservation, Pending, Places

LEMMA NextCountInv == ThreadInv /\ CountInv /\ [Next]_vars => CountInv'
<1> SUFFICES ASSUME ThreadInv, CountInv, [Next]_vars PROVE CountInv'
  OBVIOUS
<1> USE DEF netVars, statVars, Running
<1>0. /\ window \in Seq(Packet) /\ cache \in [Dirs -> [Clients -> Seq(Packet)]]
      /\ recv \in [Dirs -> Nat] /\ processed \in [Dirs -> Nat] /\ left \subseteq Clients
  BY Types DEF ThreadInv
<1>1. CASE UNCHANGED vars
  BY <1>1, CountFrame DEF vars
<1>2. CASE ReceivingThread \/ Tick
  BY <1>2, CountFrame DEF ReceivingThread, RecvTop, ReadTimeout, Read, Tick
<1>3. CASE SendTop \/ WindowDone \/ Pop
  BY <1>3, CountFrame DEF SendTop, WindowDone, Pop, sendFrame
<1>4. CASE ProcessPacket
  <2> DEFINE pkt  == Head(window)
             lane == Lane(pkt.flow)
  <2>1. pkt \in Packet /\ UNCHANGED <<mainPc, processed>>
    BY <1>0, <1>4, HeadTail DEF ProcessPacket, Peeked, sendFrame
  <2>2. CASE UNCHANGED <<cache, recv>>
    BY <2>1, <2>2, CountFrame
  <2>3. CASE /\ lane \in Dirs \X Clients
             /\ recv' = [recv EXCEPT ![lane[1]] = @ + 1]
             /\ cache' = [cache EXCEPT ![lane[1]][lane[2]] = Append(@, pkt)]
    <3>1. PICK d \in Dirs, c \in Clients : d = lane[1] /\ c = lane[2]
      BY <2>3
    <3> HIDE DEF pkt, lane
    <3>2. /\ IsFiniteSet(Places(d)') /\ Pending(d) \in Nat /\ Pending(d)' = Pending(d) + 1
          /\ \A e \in Dirs : e # d => Places(e)' = Places(e)
      BY <1>0, <2>1, <2>3, <3>1, OnePlaceMore DEF CountInv
    <3>3. recv'[d] = recv[d] + 1 /\ \A e \in Dirs : e # d => recv'[e] = recv[e]
      BY <1>0, <2>3, <3>1
    <3>4. \A e \in Dirs : e # d => Pending(e)' = Pending(e)
      BY <3>2 DEF Pending
    <3>5. Running => recv'[d] = processed[d] + Pending(d)'
      BY <1>0, <3>2, <3>3 DEF CountInv, Conservation
    <3>6. Conservation'
      BY <2>1, <3>3, <3>4, <3>5 DEF CountInv, Conservation
    <3>7. \A e \in Dirs : IsFiniteSet(Places(e)')
      BY <3>2 DEF CountInv
    <3> QED
      BY <3>6, <3>7 DEF CountInv
  <2> QED
    BY <1>4, <2>2, <2>3 DEF ProcessPacket
<1>5. ASSUME NEW d \in Dirs, Forward(d) PROVE CountInv'
  <2>1. PICK c \in Clients : c = Visited
    BY <1>0, <1>5, VisitedIsClient DEF Forward, MayForward
  <2>2. /\ cache[d][c] # <<>> /\ cache' = [cache EXCEPT ![d][c] = Tail(@)]
        /\ processed' = [processed EXCEPT ![d] = @ + 1] /\ UNCHANGED <<mainPc, recv>>
    BY <1>5, <2>1 DEF Forward, MayForward, sendFrame
  <2>3. /\ IsFiniteSet(Places(d)') /\ Pending(d) \in Nat /\ Pending(d)' = Pending(d) - 1
        /\ \A e \in Dirs : e # d => Places(e)' = Places(e)
    BY <1>0, <2>2, OnePlaceLess DEF CountInv
  <2>4. processed'[d] = processed[d] + 1 /\ \A e \in Dirs : e # d => processed'[e] = processed[e]
    BY <1>0, <2>2
  <2>5. \A e \in Dirs : e # d => Pending(e)' = Pending(e)
    BY <2>3 DEF Pending
  <2>6. Running => recv[d] = processed'[d] + Pending(d)'
    BY <1>0, <2>3, <2>4 DEF CountInv, Conservation
  <2>7. Conservation'
    BY <2>2, <2>4, <2>5, <2>6 DEF CountInv, Conservation
  <2>8. \A e \in Dirs : IsFiniteSet(Places(e)')
    BY <2>3 DEF CountInv
  <2> QED
    BY <2>7, <2>8 DEF CountInv
<1>6. ASSUME NEW d \in Dirs, NextCache(d) \/ RoundDone(d) PROVE CountInv'
  BY <1>6, CountFrame DEF NextCache, RoundDone, sendFrame
<1>7. CASE Start
  <2>1. \A d \in Dirs : Places(d)' = {}
    <3>1. \A d \in Dirs, c \in Clients : cache'[d][c] = <<>>
      BY <1>7 DEF Start, EmptyCaches
    <3> QED
      BY <3>1, PlacesAre
  <2>2. \A d \in Dirs : recv'[d] = 0 /\ processed'[d] = 0
    BY <1>7 DEF Start, Nothing
  <2> QED
    BY <2>1, <2>2, FS_EmptySet DEF CountInv, Conservation, Pending
<1>8. CASE FlushStat
  BY <1>8 DEF FlushStat, mainFrame, CountInv, Conservation, Places
<1>9. CASE ReadRecv \/ Stop \/ Joined \/ \E d \in Dirs : ReadSent(d)
  BY <1>9, CountFrame DEF ReadRecv, Stop, Joined, ReadSent, mainFrame
<1> QED
  BY <1>1, <1>2, <1>3, <1>4, <1>5, <1>6, <1>7, <1>8, <1>9
     DEF Next, SendingThread, MainThread

LEMMA AlwaysCountInv == Spec => [](ThreadInv /\ OrderInv /\ CountInv)
<1>1. Init => CountInv
  <2>1. ASSUME Init, NEW d \in Dirs PROVE Places(d) = {}
    BY <2>1 DEF Init, EmptyCaches, Places
  <2> QED
    BY <2>1, FS_EmptySet DEF Init, CountInv, Conservation, Running
<1> QED
  BY <1>1, AlwaysOrderInv, NextCountInv, PTL DEF Spec

(***************************************************************************)
(* While a test runs, whatever the traffic, every packet that was received *)
(* has been processed or is in one place of a cache.                       *)
(***************************************************************************)
THEOREM ConservationHolds == Spec => []Conservation
<1>1. CountInv => Conservation
  BY DEF CountInv
<1> QED
  BY <1>1, AlwaysCountInv, PTL

---------------------------------------------------------------------------
(* The statistic of the traffic of the tests. *)

\* The numbers of a profile up to n that are in a gap.
Gap(i) == lossParams.enabled /\ CheckLossGap(lossParams, i)

Gaps(n) == {i \in 1..n : Gap(i)}

\* Of what was received some was processed, of that some sent, of that
\* some read by getPacketLoss.
StatInv ==
  /\ Running => \A d \in Dirs : sent[d] <= processed[d]
  /\ LossIsTheProfile
  /\ mainPc = "reading" => report.sent <= sent[report.dir]
  /\ ReportInRange

LEMMA GapsGrow ==
  ASSUME NEW n \in Nat
  PROVE  /\ Cardinality(Gaps(n)) \in Nat
         /\ Gap(n + 1) => Cardinality(Gaps(n + 1)) = Cardinality(Gaps(n)) + 1
         /\ ~Gap(n + 1) => Cardinality(Gaps(n + 1)) = Cardinality(Gaps(n))
<1>1. IsFiniteSet(Gaps(n)) /\ n + 1 \notin Gaps(n)
  <2>1. Gaps(n) \in SUBSET (1..n) /\ n + 1 \notin Gaps(n)
    BY DEF Gaps
  <2>2. IsFiniteSet(1..n)
    BY FS_Interval
  <2> QED
    BY <2>1, <2>2, FS_Subset
<1>2. Cardinality(Gaps(n)) \in Nat
  BY <1>1, FS_CardinalityType
<1>3. Cardinality(Gaps(n) \cup {n + 1}) = Cardinality(Gaps(n)) + 1
  BY <1>1, FS_AddElement
<1>4. Gaps(n + 1) = IF Gap(n + 1) THEN Gaps(n) \cup {n + 1} ELSE Gaps(n)
  BY DEF Gaps
<1> QED
  BY <1>2, <1>3, <1>4

\* A packet of a lane goes the way of the lane.
LEMMA LaneOfTest ==
  ASSUME TestTraffic, NEW flow \in Flows
  PROVE  /\ flow.transport /\ Lane(flow) # <<"between">>
         /\ \A d \in Dirs, c \in Clients : Lane(flow) = <<d, c>> =>
              d = IF flow.dst \in Clients THEN "down" ELSE "up"
BY DEF TestTraffic, Lane, Dirs

\* LossIsTheProfile, said with Gaps.
LEMMA LossIs ==
  /\ LossIsTheProfile <=>
       (Running => \A d \in Dirs : processed[d] - sent[d] + passed[d] = Cardinality(Gaps(processed[d])))
  /\ (LossIsTheProfile <=>
       (Running => \A d \in Dirs : processed[d] - sent[d] + passed[d] = Cardinality(Gaps(processed[d]))))'
BY DEF LossIsTheProfile, Gaps, Gap

\* Steps that count nothing and report nothing.
LEMMA StatFrame ==
  ASSUME StatInv, UNCHANGED <<lossParams, processed, sent, passed, mainPc, report>>
  PROVE  StatInv'
BY DEF StatInv, LossIsTheProfile, ReportInRange, Running

LEMMA NextStatInv ==
  ASSUME TestTraffic, ThreadInv, OrderInv, CountInv, StatInv, [Next]_vars
  PROVE  StatInv'
<1> USE DEF netVars, statVars
<1>0. /\ window \in Seq(Packet) /\ cache \in [Dirs -> [Clients -> Seq(Packet)]]
      /\ recv \in [Dirs -> Nat] /\ processed \in [Dirs -> Nat]
      /\ sent \in [Dirs -> Nat] /\ passed \in [Dirs -> Nat] /\ left \subseteq Clients
      /\ report \in [dir : Dirs \cup {"none"}, sent : Nat, recv : Nat]
  BY Types DEF ThreadInv
<1>1. CASE UNCHANGED vars
  BY <1>1, StatFrame DEF vars
<1>2. CASE ReceivingThread \/ Tick
  BY <1>2, StatFrame DEF ReceivingThread, RecvTop, ReadTimeout, Read, Tick
<1>3. CASE SendTop \/ WindowDone \/ Pop
  BY <1>3, StatFrame DEF SendTop, WindowDone, Pop, sendFrame
<1>4. CASE ProcessPacket
  <2>1. Lane(Head(window).flow) # <<"between">>
    BY <1>0, <1>4, HeadTail, NumberType, LaneOfTest DEF ProcessPacket, Peeked
  <2> QED
    BY <1>4, <2>1, StatFrame DEF ProcessPacket, sendFrame
<1>5. ASSUME NEW d \in Dirs, Forward(d) PROVE StatInv'
  <2>1. PICK c \in Clients : c = Visited
    BY <1>0, <1>5, VisitedIsClient DEF Forward, MayForward
  <2> DEFINE pkt == Head(cache[d][c])
             gap == Gap(processed[d] + 1)
  <2>2. /\ cache[d][c] # <<>> /\ processed' = [processed EXCEPT ![d] = @ + 1]
        /\ UNCHANGED <<lossParams, mainPc, report>>
        /\ \/ gap /\ UNCHANGED <<sent, passed>>
           \/ ~gap /\ Transmit(pkt) /\ UNCHANGED passed
           \/ gap /\ Transmit(pkt) /\ passed' = [passed EXCEPT ![d] = @ + 1]
    BY <1>5, <2>1 DEF Forward, MayForward, sendFrame, Gap
  <2>3. Transmit(pkt) => sent' = [sent EXCEPT ![d] = @ + 1]
    <3>1. pkt = cache[d][c][1] /\ pkt \in Packet /\ 1 \in DOMAIN cache[d][c]
      BY <1>0, <2>2, TailIs
    <3>2. Lane(pkt.flow) = <<d, c>> /\ pkt.flow \in Flows
      BY <3>1, NumberType DEF OrderInv, CacheOrdered
    <3> QED
      BY <3>2, LaneOfTest DEF Transmit
  <2> HIDE DEF pkt
  <2>4. /\ processed'[d] = processed[d] + 1
        /\ \/ gap /\ sent'[d] = sent[d] /\ passed'[d] = passed[d]
           \/ ~gap /\ sent'[d] = sent[d] + 1 /\ passed'[d] = passed[d]
           \/ gap /\ sent'[d] = sent[d] + 1 /\ passed'[d] = passed[d] + 1
    BY <1>0, <2>2, <2>3
  <2>5. \A e \in Dirs : e # d =>
          processed'[e] = processed[e] /\ sent'[e] = sent[e] /\ passed'[e] = passed[e]
    BY <1>0, <2>2, <2>3
  <2> HIDE DEF gap
  <2>6. Running' <=> Running
    BY <2>2 DEF Running
  <2>7. (Running => \A e \in Dirs : sent[e] <= processed[e])'
    <3>1. Running => sent'[d] <= processed'[d]
      BY <1>0, <2>4 DEF StatInv
    <3> QED
      BY <2>5, <2>6, <3>1 DEF StatInv
  <2>8. LossIsTheProfile'
    <3>1. ASSUME NEW n PROVE Gaps(n)' = Gaps(n)
      BY <2>2 DEF Gaps, Gap
    <3>2. ASSUME Running PROVE processed'[d] - sent'[d] + passed'[d] = Cardinality(Gaps(processed'[d]))
      <4>1. processed[d] - sent[d] + passed[d] = Cardinality(Gaps(processed[d]))
        BY <3>2, LossIs DEF StatInv
      <4>2. /\ Cardinality(Gaps(processed[d])) \in Nat
            /\ gap => Cardinality(Gaps(processed'[d])) = Cardinality(Gaps(processed[d])) + 1
            /\ ~gap => Cardinality(Gaps(processed'[d])) = Cardinality(Gaps(processed[d]))
        BY <1>0, <2>4, GapsGrow DEF gap
      <4>3. processed[d] \in Nat /\ sent[d] \in Nat /\ passed[d] \in Nat
        BY <1>0
      <4> QED
        BY <2>4, <4>1, <4>2, <4>3
    <3>3. ASSUME Running, NEW e \in Dirs
          PROVE  processed'[e] - sent'[e] + passed'[e] = Cardinality(Gaps(processed'[e]))
      <4>1. CASE e = d
        BY <3>2, <3>3, <4>1
      <4>2. CASE e # d
        BY <2>5, <3>3, <4>2, LossIs DEF StatInv
      <4> QED
        BY <4>1, <4>2
    <3> QED
      BY <2>2, <2>6, <3>3 DEF LossIsTheProfile, Gaps, Gap
  <2>9. (mainPc = "reading" => report.sent <= sent[report.dir])'
    <3>1. ASSUME mainPc = "reading" PROVE report.sent <= sent'[report.dir]
      <4>1. report.dir \in Dirs /\ report.sent \in Nat /\ report.sent <= sent[report.dir]
        BY <1>0, <3>1 DEF StatInv, ThreadInv, ThreadsKnown
      <4>2. sent'[report.dir] \in {sent[report.dir], sent[report.dir] + 1} /\ sent[report.dir] \in Nat
        BY <1>0, <2>4, <2>5, <4>1
      <4> QED
        BY <4>1, <4>2
    <3> QED
      BY <2>2, <3>1
  <2>10. ReportInRange'
    BY <2>2 DEF StatInv, ReportInRange
  <2> QED
    BY <2>7, <2>8, <2>9, <2>10 DEF StatInv
<1>6. ASSUME NEW d \in Dirs, NextCache(d) \/ RoundDone(d) PROVE StatInv'
  BY <1>6, StatFrame DEF NextCache, RoundDone, sendFrame
<1>7. CASE Start
  <2>1. /\ \A d \in Dirs : sent'[d] = 0 /\ processed'[d] = 0 /\ passed'[d] = 0
        /\ report'.sent = 0 /\ report'.recv = 0 /\ mainPc' = "testing"
    BY <1>7 DEF Start, Nothing, NoReport
  <2>2. Gaps(0)' = {}
    BY DEF Gaps
  <2>3. LossIsTheProfile'
    BY <2>1, <2>2, FS_EmptySet, LossIs
  <2> QED
    BY <2>1, <2>3 DEF StatInv, ReportInRange
<1>8. ASSUME NEW d \in Dirs, ReadSent(d) PROVE StatInv'
  <2>1. /\ mainPc = "testing" /\ mainPc' = "reading" /\ UNCHANGED <<lossParams, statVars>>
        /\ report' = [dir |-> d, sent |-> sent[d], recv |-> 0]
    BY <1>8 DEF ReadSent
  <2>2. report'.sent <= sent'[report'.dir]
    BY <1>0, <2>1
  <2> QED
    BY <2>1, <2>2 DEF StatInv, LossIsTheProfile, ReportInRange, Running
<1>9. CASE ReadRecv
  <2>1. /\ mainPc = "reading" /\ mainPc' = "testing" /\ UNCHANGED <<lossParams, statVars>>
        /\ report' = [report EXCEPT !.recv = recv[report.dir]] /\ report.dir \in Dirs
    BY <1>9 DEF ReadRecv, ThreadInv, ThreadsKnown
  <2>2. report'.sent = report.sent /\ report'.recv = recv[report.dir]
    BY <1>0, <2>1
  <2>3. /\ report.sent <= sent[report.dir] /\ sent[report.dir] <= processed[report.dir]
        /\ recv[report.dir] = processed[report.dir] + Pending(report.dir)
    BY <2>1 DEF StatInv, Running, CountInv, Conservation
  <2>4. /\ Pending(report.dir) \in Nat /\ report.sent \in Nat /\ sent[report.dir] \in Nat
        /\ processed[report.dir] \in Nat
    BY <1>0, <2>1, FS_CardinalityType DEF CountInv, Pending
  <2>5. report'.sent <= report'.recv
    BY <2>2, <2>3, <2>4
  <2> QED
    BY <2>1, <2>5 DEF StatInv, LossIsTheProfile, ReportInRange, Running
<1>10. CASE FlushStat \/ Stop \/ Joined
  BY <1>10 DEF FlushStat, Stop, Joined, StatInv, LossIsTheProfile, ReportInRange, Running
<1> QED
  BY <1>1, <1>2, <1>3, <1>4, <1>5, <1>6, <1>7, <1>8, <1>9, <1>10
     DEF Next, SendingThread, MainThread

LEMMA AlwaysStatInv ==
  ASSUME TestTraffic
  PROVE  Spec => []StatInv
<1>1. Init => StatInv
  BY DEF Init, StatInv, LossIsTheProfile, ReportInRange, Running
<1> QED
  BY <1>1, AlwaysCountInv, NextStatInv, PTL DEF Spec

(***************************************************************************)
(* With the traffic of the tests the loss in the statistic is that of the  *)
(* profile, for every profile and any number of packets.                   *)
(***************************************************************************)
THEOREM LossIsTheProfileHolds ==
  ASSUME TestTraffic
  PROVE  Spec => []LossIsTheProfile
<1>1. StatInv => LossIsTheProfile
  BY DEF StatInv
<1> QED
  BY <1>1, AlwaysStatInv, PTL

(***************************************************************************)
(* With the traffic of the tests getPacketLoss never computes a negative   *)
(* loss, whatever the sending thread counts between its two reads.         *)
(***************************************************************************)
THEOREM ReportInRangeHolds ==
  ASSUME TestTraffic
  PROVE  Spec => []ReportInRange
<1>1. StatInv => ReportInRange
  BY DEF StatInv
<1> QED
  BY <1>1, AlwaysStatInv, PTL

===========================================================================
