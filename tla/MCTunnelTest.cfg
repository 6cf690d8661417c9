CONSTANTS
  Clients <- OneClient
  Servers <- MCServers
  Flows <- TestFlows
  Profiles <- MCProfiles
  Rate <- MCRate
  Rtt = 1
  Refill = 1
  MaxPackets = 3
  MaxRuns = 2
SPECIFICATION Spec
INVARIANTS
  TypeOK
  Conservation
  LossIsTheProfile
  ReportInRange
  Exclusive
PROPERTY ImplementsLink
