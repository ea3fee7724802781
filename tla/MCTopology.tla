------------------------------ MODULE MCTopology ------------------------------
EXTENDS TopologyCache

CONSTANTS S1, P1

MCServices == {S1}
MCPeers == {P1}
MCZones == [p \in MCPeers |-> "PrivateNetwork"]

\* A listening service, and two connections of it with the same peer.
MCSocketTables ==
  LET Of(listening, peer) == [service |-> S1, listening |-> listening, peer |-> peer, port |-> 80]
  IN  {<<Of(TRUE, Nobody), Of(FALSE, P1), Of(FALSE, P1)>>}

=============================================================================
