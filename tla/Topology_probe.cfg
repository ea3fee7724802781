SPECIFICATION FairSpec
CONSTANTS
  S1 = S1
  P1 = P1
  Services <- MCServices
  Peers <- MCPeers
  ZoneOf <- MCZones
  Host = Host
  Nobody = Nobody
  Manual = {m1}
  AutoEnabled = TRUE
  SocketTables <- MCSocketTables
  None = None
  MaxWrites = 3
  MaxFailures = 1
  MaxStarts = 2
  Readers = {r1}
INVARIANTS
  TypeOK
  StoredIsWhole
  StoredIsConsistent
PROPERTIES
  SuccessIsStored
  AnswersAreCurrent
  ProbesEnd
  MissingIsStored
CHECK_DEADLOCK FALSE
