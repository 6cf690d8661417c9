------------------------- MODULE MCTunnelInterface -------------------------
(* The instances of TunnelInterface that TLC checks. *)
EXTENDS TunnelInterface

Flow(src, dst, transport, len) ==
  [src |-> src, dst |-> dst, transport |-> transport, len |-> len]

MCClients == {1, 2}
OneClient == {1}
MCServers == {8, 9}
MCRate == [up |-> 1, down |-> 2]

\* The traffic of the tests: a client asks, a server answers.
TestFlows == {Flow(1, 9, TRUE, 1), Flow(9, 1, TRUE, 2)}

\* Everything else the device may deliver.
OddFlows ==
  {Flow(1, 2, TRUE, 1), Flow(8, 9, TRUE, 1), Flow(1, 9, FALSE, 1), Flow(7, 9, TRUE, 1)}

Profile(enabled, x0, up, down, intervals) ==
  [x0 |-> x0, up |-> up, down |-> down, interval |-> 1, enabled |-> enabled,
   intervals |-> intervals]

MCProfiles == {Profile(TRUE, -1, 2, 1, FALSE), Profile(TRUE, 0, 1, 1, TRUE)}
\* A little of everything.
MixedFlows == OddFlows \cup {Flow(2, 9, TRUE, 1), Flow(9, 1, TRUE, 2)}

NoLoss == {Profile(FALSE, 0, 1, 0, FALSE)}
===========================================================================
