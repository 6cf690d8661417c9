-------------------------- MODULE TunnelInterface --------------------------
(***************************************************************************)
(* The packet path of TunnelInterface.  The receiving thread reads packets *)
(* from the TUN device into the congestion window; the sending thread      *)
(* delays them there for half the round trip time, sorts them into one     *)
(* cache per client and direction, and empties the caches as the token     *)
(* buckets allow, dropping what the loss profile says.  The main thread    *)
(* starts and stops the two, and reads and flushes the statistic while     *)
(* they run.                                                               *)
(*                                                                         *)
(* The window is a FIFO that may refuse any packet: that is what its racy  *)
(* byte count amounts to (module CongestionWindow).  Of the back-off rule  *)
(* of PacketLoss only its outcome is kept: it may let a packet of a gap    *)
(* through (module PacketLoss).                                            *)
(***************************************************************************)
EXTENDS Traffic, LossParams, FiniteSets, FiniteSetsExt

CONSTANTS
  Rate,         \* Rate[dir]: size of a bucket of that direction, in bytes
  Refill,       \* bytes a bucket gains while time passes by one unit
  MaxPackets,   \* bound of the model: packets read from the device
  MaxRuns       \* bound of the model: calls of start

Dirs == {"up", "down"}

\* A packet longer than the bucket could never be sent.
ASSUME RateAssumption ==
  /\ Rate \in [Dirs -> Nat]
  /\ Refill \in Nat \ {0}
  /\ \A d \in Dirs, c \in Clients, f \in Flows : Lane(f) = <<d, c>> => f.len <= Rate[d]

ASSUME BoundsAssumption == MaxPackets \in Nat /\ MaxRuns \in Nat

VARIABLES
  window,        \* congestionControlWindow
  lossParams,
  cache,         \* pendingPackets: recvFromClientsCaches ("up"), recvFromServersCaches ("down")
  tokens,        \* the buckets of the caches
  recv,          \* clients.recvFromClients ("up"), servers.recvFromServers ("down")
  processed,     \* clients.processedFromClients, servers.processedFromServers
  sent,          \* clients.sentToServers, servers.sentToClients
  recvPc,        \* the receiving thread
  sendPc,        \* the sending thread ...
  left,          \* ... and the clients it has still to visit in its round
  mainPc,        \* the main thread
  interrupted,   \* the interrupt flag of both threads
  report,        \* what getPacketLoss has read
  passed,        \* auxiliary: packets of a gap that the back-off rule let through
  written,       \* auxiliary: what went to tunnel.writePacket
  reads, runs    \* counters for the bounds

statVars == <<recv, processed, sent, passed>>
netVars == <<window, cache, tokens, written>>
vars == <<netVars, lossParams, statVars, recvPc, sendPc, left, mainPc, interrupted,
          report, reads, runs>>

Nothing == [d \in Dirs |-> 0]
NoReport == [dir |-> "none", sent |-> 0, recv |-> 0]

TypeOK ==
  /\ window \in Seq(Packet)
  /\ lossParams \in Profiles
  /\ cache \in [Dirs -> [Clients -> Seq(Packet)]]
  /\ tokens \in [Dirs -> [Clients -> Nat]]
  /\ \A d \in Dirs, c \in Clients : tokens[d][c] \in 0..Rate[d]
  /\ {recv, processed, sent, passed} \subseteq [Dirs -> Nat]
  /\ recvPc \in {"dead", "top", "read"}
  /\ sendPc \in {"dead", "top", "window", "pop", "up", "down"}
  /\ left \subseteq Clients
  /\ mainPc \in {"stopped", "testing", "reading", "flushed", "joining"}
  /\ interrupted \in BOOLEAN
  /\ report \in [dir : Dirs \cup {"none"}, sent : Nat, recv : Nat]
  /\ written \in Seq(Packet)
  /\ reads \in 0..MaxPackets
  /\ runs \in 0..MaxRuns

EmptyCaches == [d \in Dirs |-> [c \in Clients |-> <<>>]]
FullBuckets == [d \in Dirs |-> [c \in Clients |-> Rate[d]]]

Init ==
  /\ window = <<>>
  /\ lossParams \in Profiles
  /\ cache = EmptyCaches
  /\ tokens = FullBuckets
  /\ recv = Nothing
  /\ processed = Nothing
  /\ sent = Nothing
  /\ passed = Nothing
  /\ recvPc = "dead"
  /\ sendPc = "dead"
  /\ left = {}
  /\ mainPc = "stopped"
  /\ interrupted = FALSE
  /\ report = NoReport
  /\ written = <<>>
  /\ reads = 0
  /\ runs = 0

---------------------------------------------------------------------------
(***************************************************************************)
(* ReceivingThread.  The interrupt is seen only at the top of the loop: a  *)
(* packet that the read returns after it still goes into the window.       *)
(***************************************************************************)
\* Mutant: the loop does not end.
RecvTopForever ==
  /\ recvPc = "top"
  /\ recvPc' = "read"
  /\ UNCHANGED <<netVars, lossParams, statVars, sendPc, left, mainPc, interrupted, report,
                 reads, runs>>

RecvTop ==
  /\ recvPc = "top"
  /\ recvPc' = IF interrupted THEN "dead" ELSE "read"
  /\ UNCHANGED <<netVars, lossParams, statVars, sendPc, left, mainPc, interrupted, report,
                 reads, runs>>

Read(flow) ==
  /\ recvPc = "read"
  /\ reads < MaxPackets
  /\ reads' = reads + 1
  /\ \/ window' = Append(window, [n |-> reads, flow |-> flow, age |-> 0])
     \/ UNCHANGED window
  /\ recvPc' = "top"
  /\ UNCHANGED <<cache, tokens, written, lossParams, statVars, sendPc, left, mainPc,
                 interrupted, report, runs>>

\* readPacket gives up after a second
ReadTimeout ==
  /\ recvPc = "read"
  /\ recvPc' = "top"
  /\ UNCHANGED <<netVars, lossParams, statVars, sendPc, left, mainPc, interrupted, report,
                 reads, runs>>

---------------------------------------------------------------------------
(***************************************************************************)
(* SendingThread: a round goes through the window, the caches of packets   *)
(* from clients and the caches of packets from servers.                    *)
(***************************************************************************)
sendFrame == <<lossParams, recvPc, mainPc, interrupted, report, reads, runs>>

SendTop ==
  /\ sendPc = "top"
  /\ sendPc' = IF interrupted THEN "dead" ELSE "window"
  /\ UNCHANGED <<sendFrame, netVars, statVars, left>>

\* trySendPacketToDst: apply, count by the type of the destination, write
Transmit(pkt) ==
  IF pkt.flow.transport
  THEN LET d == IF pkt.flow.dst \in Clients THEN "down" ELSE "up"
       IN  /\ sent' = [sent EXCEPT ![d] = @ + 1]
           /\ written' = Append(written, pkt)
  ELSE UNCHANGED <<sent, written>>

\* Mutant: how long the packet has waited is not looked at.
PeekedAny == window # <<>>

\* The packet that peek returns is ripe.
Peeked == window # <<>> /\ Ripe(Head(window))

\* processPacket on what peek returned; the packet stays in the window
ProcessPacket ==
  /\ sendPc = "window"
  /\ Peeked
  /\ sendPc' = "pop"
  /\ LET pkt  == Head(window)
         lane == Lane(pkt.flow)
     IN  \/ /\ lane = <<"nowhere">>
            /\ UNCHANGED <<cache, statVars, written>>
         \/ /\ lane = <<"between">>
            /\ Transmit(pkt)
            /\ UNCHANGED <<cache, recv, processed, passed>>
         \/ /\ lane \in Dirs \X Clients
            /\ recv' = [recv EXCEPT ![lane[1]] = @ + 1]
            /\ cache' = [cache EXCEPT ![lane[1]][lane[2]] = Append(@, pkt)]
            /\ UNCHANGED <<processed, sent, passed, written>>
  /\ UNCHANGED <<sendFrame, window, tokens, left>>

Pop ==
  /\ sendPc = "pop"
  /\ window' = Tail(window)
  /\ sendPc' = "window"
  /\ UNCHANGED <<sendFrame, cache, tokens, written, statVars, left>>

\* Mutant: with nothing more to process, the round is over.
WindowDoneRoundOver ==
  /\ sendPc = "window"
  /\ ~Peeked
  /\ sendPc' = "top"
  /\ UNCHANGED <<sendFrame, netVars, statVars, left>>

WindowDone ==
  /\ sendPc = "window"
  /\ ~Peeked
  /\ sendPc' = "up"
  /\ left' = Clients
  /\ UNCHANGED <<sendFrame, netVars, statVars>>

\* The maps iterate by hashCode, which is hostAddr.
Visited == Min(left)

\* Mutant: the answer of tryConsume is ignored.
MayForwardFreely(d) ==
  /\ sendPc = d
  /\ left # {}
  /\ cache[d][Visited] # <<>>

MayForward(d) ==
  /\ sendPc = d
  /\ left # {}
  /\ cache[d][Visited] # <<>>
  /\ Head(cache[d][Visited]).flow.len <= tokens[d][Visited]

\* Mutant: the packet is counted after the loss was decided.
ForwardCountsLate(d) ==
  /\ MayForward(d)
  /\ LET pkt == Head(cache[d][Visited])
         gap == lossParams.enabled /\ CheckLossGap(lossParams, processed[d])
     IN  /\ tokens' = [tokens EXCEPT ![d][Visited] = @ - pkt.flow.len]
         /\ processed' = [processed EXCEPT ![d] = @ + 1]
         /\ cache' = [cache EXCEPT ![d][Visited] = Tail(@)]
         /\ \/ gap /\ UNCHANGED <<sent, passed, written>>
            \/ ~gap /\ Transmit(pkt) /\ UNCHANGED passed
            \/ /\ gap /\ lossParams.intervals
               /\ Transmit(pkt)
               /\ passed' = [passed EXCEPT ![d] = @ + 1]
  /\ UNCHANGED <<sendFrame, window, recv, sendPc, left>>

\* tryConsume succeeds; the packet is counted, then lost or sent
Forward(d) ==
  /\ MayForward(d)
  /\ LET pkt == Head(cache[d][Visited])
         gap == lossParams.enabled /\ CheckLossGap(lossParams, processed[d] + 1)
     IN  /\ tokens' = [tokens EXCEPT ![d][Visited] = @ - pkt.flow.len]
         /\ processed' = [processed EXCEPT ![d] = @ + 1]
         /\ cache' = [cache EXCEPT ![d][Visited] = Tail(@)]
         /\ \/ gap /\ UNCHANGED <<sent, passed, written>>
            \/ ~gap /\ Transmit(pkt) /\ UNCHANGED passed
            \/ /\ gap /\ lossParams.intervals
               /\ Transmit(pkt)
               /\ passed' = [passed EXCEPT ![d] = @ + 1]
  /\ UNCHANGED <<sendFrame, window, recv, sendPc, left>>

NextCache(d) ==
  /\ sendPc = d
  /\ left # {}
  /\ ~MayForward(d)
  /\ left' = left \ {Visited}
  /\ UNCHANGED <<sendFrame, netVars, statVars, sendPc>>

RoundDone(d) ==
  /\ sendPc = d
  /\ left = {}
  /\ sendPc' = IF d = "up" THEN "down" ELSE "top"
  /\ left' = IF d = "up" THEN Clients ELSE {}
  /\ UNCHANGED <<sendFrame, netVars, statVars>>

---------------------------------------------------------------------------
(***************************************************************************)
(* The main thread: start, getPacketLoss, flushStat and stop, in the order *)
(* TestStand and its tests call them.                                      *)
(***************************************************************************)
mainFrame == <<recvPc, sendPc, left, reads>>

\* Mutant: the caches are made only once.
StartKeepsCaches ==
  /\ mainPc = "stopped"
  /\ runs < MaxRuns
  /\ runs' = runs + 1
  /\ mainPc' = "testing"
  /\ lossParams' \in Profiles
  /\ tokens' = FullBuckets
  /\ recv' = Nothing
  /\ processed' = Nothing
  /\ sent' = Nothing
  /\ passed' = Nothing
  /\ recvPc' = "top"
  /\ sendPc' = "top"
  /\ interrupted' = FALSE
  /\ report' = NoReport
  /\ UNCHANGED <<cache, window, written, left, reads>>

\* New statistic, new caches, new threads; the window is the old one.
Start ==
  /\ mainPc = "stopped"
  /\ runs < MaxRuns
  /\ runs' = runs + 1
  /\ mainPc' = "testing"
  /\ lossParams' \in Profiles
  /\ cache' = EmptyCaches
  /\ tokens' = FullBuckets
  /\ recv' = Nothing
  /\ processed' = Nothing
  /\ sent' = Nothing
  /\ passed' = Nothing
  /\ recvPc' = "top"
  /\ sendPc' = "top"
  /\ interrupted' = FALSE
  /\ report' = NoReport
  /\ UNCHANGED <<window, written, left, reads>>

\* getPacketLoss reads the packets sent, and then ...
ReadSent(d) ==
  /\ mainPc = "testing"
  /\ mainPc' = "reading"
  /\ report' = [dir |-> d, sent |-> sent[d], recv |-> 0]
  /\ UNCHANGED <<mainFrame, netVars, lossParams, statVars, interrupted, runs>>

\* Mutant: copied from the other direction.
ReadRecvOfOther ==
  /\ mainPc = "reading"
  /\ mainPc' = "testing"
  /\ report' = [report EXCEPT !.recv = recv[IF report.dir = "up" THEN "down" ELSE "up"]]
  /\ UNCHANGED <<mainFrame, netVars, lossParams, statVars, interrupted, runs>>

\* ... the packets received, to divide by.
ReadRecv ==
  /\ mainPc = "reading"
  /\ mainPc' = "testing"
  /\ report' = [report EXCEPT !.recv = recv[report.dir]]
  /\ UNCHANGED <<mainFrame, netVars, lossParams, statVars, interrupted, runs>>

(***************************************************************************)
(* flushStat clears the counters under the feet of the sending thread,     *)
(* whose ++ is a read and a write: if it is just counting one up, the      *)
(* clearing of that one may be undone.                                     *)
(***************************************************************************)
CountingRecv(d) ==
  /\ sendPc = "window"
  /\ Peeked
  /\ \E c \in Clients : Lane(Head(window).flow) = <<d, c>>

Cleared(counter, counting) ==
  {Nothing} \cup {[Nothing EXCEPT ![d] = counter[d]] : d \in counting}

FlushStat ==
  /\ mainPc = "testing"
  /\ mainPc' = "flushed"
  /\ recv' \in Cleared(recv, {d \in Dirs : CountingRecv(d)})
  /\ processed' \in Cleared(processed, {d \in Dirs : MayForward(d)})
  /\ sent' \in Cleared(sent, {d \in Dirs : MayForward(d)})
  /\ passed' = Nothing
  /\ report' = NoReport
  /\ UNCHANGED <<mainFrame, netVars, lossParams, interrupted, runs>>

\* stop: interrupt both threads ...
Stop ==
  /\ mainPc = "flushed"
  /\ mainPc' = "joining"
  /\ interrupted' = TRUE
  /\ UNCHANGED <<mainFrame, netVars, lossParams, statVars, report, runs>>

\* Mutant: only the receiving thread is joined.
JoinedReceiving ==
  /\ mainPc = "joining"
  /\ recvPc = "dead"
  /\ mainPc' = "stopped"
  /\ UNCHANGED <<mainFrame, netVars, lossParams, statVars, interrupted, report, runs>>

\* ... and join them.
Joined ==
  /\ mainPc = "joining"
  /\ recvPc = "dead"
  /\ sendPc = "dead"
  /\ mainPc' = "stopped"
  /\ UNCHANGED <<mainFrame, netVars, lossParams, statVars, interrupted, report, runs>>

---------------------------------------------------------------------------
\* The clock: packets age in the window, buckets fill.
Tick ==
  /\ window' = [i \in DOMAIN window |-> Older(window[i])]
  /\ tokens' = [d \in Dirs |-> [c \in Clients |-> Min({Rate[d], tokens[d][c] + Refill})]]
  /\ UNCHANGED <<cache, written, lossParams, statVars, recvPc, sendPc, left, mainPc,
                 interrupted, report, reads, runs>>

ReceivingThread == RecvTop \/ ReadTimeout \/ \E flow \in Flows : Read(flow)

SendingThread ==
  \/ SendTop \/ ProcessPacket \/ Pop \/ WindowDone
  \/ \E d \in Dirs : Forward(d) \/ NextCache(d) \/ RoundDone(d)

MainThread ==
  \/ Start \/ ReadRecv \/ FlushStat \/ Stop \/ Joined
  \/ \E d \in Dirs : ReadSent(d)

Next == ReceivingThread \/ SendingThread \/ MainThread \/ Tick

Spec == Init /\ [][Next]_vars

(***************************************************************************)
(* Both threads are always runnable (the receiving thread sleeps for at    *)
(* most a second), time passes, and the main thread does not give up       *)
(* between flushStat and the end of stop.                                  *)
(***************************************************************************)
Fairness ==
  /\ WF_vars(ReceivingThread)
  /\ WF_vars(SendingThread)
  /\ WF_vars(Tick)
  /\ WF_vars(ReadRecv \/ Stop \/ Joined)

FairSpec == Spec /\ Fairness

---------------------------------------------------------------------------
(* Properties. *)

Running == mainPc \in {"testing", "reading"}

\* The places in the caches of a direction that hold a packet.
Places(d) == UNION {{c} \X DOMAIN cache[d][c] : c \in Clients}

Pending(d) == Cardinality(Places(d))

(***************************************************************************)
(* Nothing goes missing between the counters of a run: what was received   *)
(* has been processed or waits in a cache.  It does not hold between       *)
(* flushStat and the next start.                                           *)
(***************************************************************************)
Conservation == Running => \A d \in Dirs : recv[d] = processed[d] + Pending(d)

\* The traffic of the tests: UDP and TCP between clients and servers.
TestTraffic == \A f \in Flows : f.transport /\ (f.src \in Clients <=> f.dst \notin Clients)

(***************************************************************************)
(* The loss in the statistic is the loss of the profile, and no other: of  *)
(* the packets processed in a direction, those in a gap are not sent.      *)
(* Needs the traffic of the tests (TestTraffic).                           *)
(***************************************************************************)
LossIsTheProfile ==
  Running => \A d \in Dirs :
    processed[d] - sent[d] + passed[d]
      = Cardinality({i \in 1..processed[d] : lossParams.enabled /\ CheckLossGap(lossParams, i)})

(***************************************************************************)
(* getPacketLoss reads two counters while the sending thread counts; what  *)
(* it reads never makes the loss negative.                                 *)
(***************************************************************************)
ReportInRange == mainPc = "testing" => report.sent <= report.recv

(***************************************************************************)
(* The threads of a run are gone before the next one starts: at most one   *)
(* receiving and one sending thread share the window and the caches, and   *)
(* they see the interrupt only while stop waits for them.                  *)
(***************************************************************************)
Exclusive ==
  /\ mainPc = "stopped" => recvPc = "dead" /\ sendPc = "dead"
  /\ mainPc \in {"testing", "reading", "flushed"} => recvPc # "dead" /\ sendPc # "dead"

InTransit(n) ==
  \/ \E i \in DOMAIN window : window[i].n = n
  \/ \E d \in Dirs, c \in Clients : \E i \in DOMAIN cache[d][c] : cache[d][c][i].n = n

(***************************************************************************)
(* While a test runs no packet is stuck: not in the window behind a        *)
(* younger one, and not in a cache for want of tokens.                     *)
(***************************************************************************)
EveryPacketLeaves ==
  \A n \in 0..(MaxPackets - 1) : InTransit(n) ~> ~InTransit(n) \/ ~Running

(***************************************************************************)
(* stop returns: no loop of the two threads goes on forever without        *)
(* looking at the interrupt flag.                                          *)
(***************************************************************************)
StopReturns == mainPc = "joining" ~> mainPc = "stopped"

(***************************************************************************)
(* The packet path is a LossyLink.  A packet that was processed but not    *)
(* yet popped from the window is no longer there for the link.             *)
(***************************************************************************)
Waiting == {i \in DOMAIN window : sendPc = "pop" => i > 1}

InTheWindow == {window[i] : i \in Waiting}

InTheCache(d, c) == {cache[d][c][i] : i \in DOMAIN cache[d][c]}

InTheCaches == UNION {InTheCache(d, c) : d \in Dirs, c \in Clients}

Link == INSTANCE LossyLink WITH transit <- InTheWindow \cup InTheCaches, accepted <- reads

ImplementsLink == Link!Spec

===========================================================================
