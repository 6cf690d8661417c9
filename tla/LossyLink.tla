----------------------------- MODULE LossyLink -----------------------------
(***************************************************************************)
(* What the simulator promises to the programs under test: a network that  *)
(* may lose any packet, but delivers none twice, none before its time and  *)
(* none out of order with the others of its lane.                          *)
(***************************************************************************)
EXTENDS Traffic

VARIABLES
  transit,   \* the packets on the way
  accepted,  \* how many packets were sent into the link
  written    \* the packets delivered, in order

linkVars == <<transit, accepted, written>>

Init ==
  /\ transit = {}
  /\ accepted = 0
  /\ written = <<>>

\* A packet enters the link, or is lost on the spot.
Accept(flow) ==
  /\ accepted' = accepted + 1
  /\ \/ transit' = transit \cup {[n |-> accepted, flow |-> flow, age |-> 0]}
     \/ UNCHANGED transit
  /\ UNCHANGED written

Time ==
  /\ transit' = {Older(pkt) : pkt \in transit}
  /\ UNCHANGED <<accepted, written>>

FirstOfLane(pkt) ==
  \A other \in transit : Lane(other.flow) = Lane(pkt.flow) => pkt.n <= other.n

Deliver(pkt) ==
  /\ Ripe(pkt)
  /\ pkt.flow.transport
  /\ Lane(pkt.flow) # <<"nowhere">>
  /\ FirstOfLane(pkt)
  /\ written' = Append(written, pkt)
  /\ transit' = transit \ {pkt}
  /\ UNCHANGED accepted

Lose ==
  /\ transit' \subseteq transit
  /\ UNCHANGED <<accepted, written>>

Next ==
  \/ \E flow \in Flows : Accept(flow)
  \/ Time
  \/ \E pkt \in transit : Deliver(pkt)
  \/ Lose

Spec == Init /\ [][Next]_linkVars

(***************************************************************************)
(* What the programs under test may rely on: every packet they get is ripe *)
(* and one that a known device has sent, and in its lane it comes after    *)
(* those that were sent before it, and only once.                          *)
(***************************************************************************)
WellDelivered ==
  /\ \A i \in DOMAIN written :
       /\ Ripe(written[i])
       /\ written[i].flow.transport
       /\ Lane(written[i].flow) # <<"nowhere">>
  /\ \A i, j \in DOMAIN written :
       i < j /\ Lane(written[i].flow) = Lane(written[j].flow) => written[i].n < written[j].n
===========================================================================
