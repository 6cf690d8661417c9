CONSTANTS
  Clients <- MCClients
  Servers <- MCServers
  Flows <- MixedFlows
  Profiles <- NoLoss
  Rate <- MCRate
  Rtt = 1
  Refill = 1
  MaxPackets = 2
  MaxRuns = 1
SPECIFICATION FairSpec
PROPERTIES
  EveryPacketLeaves
  StopReturns
