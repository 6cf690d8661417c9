--------------------------- MODULE MCPacketLoss ---------------------------
(* Profiles small enough for TLC: every offset that the assumption allows, *)
(* with and without the back-off rule, and a positive x0 without it, also  *)
(* for a profile that passes nothing.                                      *)
EXTENDS PacketLoss

Profile(x0, up, down, interval, intervals) ==
  [x0 |-> x0, up |-> up, down |-> down, interval |-> interval,
   enabled |-> TRUE, intervals |-> intervals]

MCProfiles ==
  {Profile(x0, 2, 4, 3, TRUE) : x0 \in -2..0}
    \cup {Profile(-1, 1, 3, n, TRUE) : n \in 1..2}
    \cup {Profile(x0, 3, 2, 0, FALSE) : x0 \in -4..4}
    \cup {Profile(0, 4, 0, 0, FALSE), Profile(5, 0, 2, 0, FALSE)}
    \cup {[Profile(0, 0, 2, 0, FALSE) EXCEPT !.enabled = FALSE]}
===========================================================================
