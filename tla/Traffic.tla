------------------------------ MODULE Traffic ------------------------------
(***************************************************************************)
(* The packets of the simulated network: who sends them to whom, and how   *)
(* long they have been on the way.  Devices are named by hostAddr, the     *)
(* last byte of their addresses, which is all that Device.isSrc, isDst and *)
(* apply compare.                                                          *)
(***************************************************************************)
EXTENDS Integers, Sequences

CONSTANTS
  Clients,   \* hostAddr of the devices of type CLIENT
  Servers,   \* hostAddr of the devices of type SERVER
  Flows,     \* the kinds of packets: [src, dst, transport, len]
  Rtt        \* the round trip time to be simulated

ASSUME DevicesAssumption ==
  /\ Clients \subseteq Nat
  /\ Servers \subseteq Nat
  /\ Clients \cap Servers = {}

\* transport is TRUE for UDP and TCP: Device.apply accepts no other protocol.
ASSUME FlowsAssumption ==
  Flows \subseteq [src : Nat, dst : Nat, transport : BOOLEAN, len : Nat]

ASSUME RttAssumption == Rtt \in Nat

Devices == Clients \cup Servers

\* n is auxiliary: the position of the packet in all that were read.
Packet == [n : Nat, flow : Flows, age : Nat]

\* now - timestamp > rtt / 2, with the division done in floating point
Ripe(pkt) == 2 * pkt.age > Rtt

\* Time passes.  Beyond ripeness the age makes no difference.
Older(pkt) == IF Ripe(pkt) THEN pkt ELSE [pkt EXCEPT !.age = @ + 1]

(***************************************************************************)
(* Packets of one lane wait in line for each other: those of a client      *)
(* ("up"), those of servers for a client ("down"), those between servers.  *)
(***************************************************************************)
Lane(flow) ==
  IF ~ {flow.src, flow.dst} \subseteq Devices THEN <<"nowhere">>
  ELSE IF flow.src \in Clients THEN <<"up", flow.src>>
  ELSE IF flow.dst \in Clients THEN <<"down", flow.dst>>
  ELSE <<"between">>
===========================================================================
