---------------------------- MODULE SocketTopology ----------------------------
(***************************************************************************)
(* build_dynamic_topology: the assets, edges and knowledge graph of one    *)
(* host, made of the rows of its socket table in the order in which "ss"   *)
(* or "netstat" prints them.                                               *)
(*                                                                         *)
(* Of a row it matters which service it belongs to (host, local port and   *)
(* process together), whether that is listening, the peer, if the row has  *)
(* one that is specified, and the peer's port. Services and peers stand    *)
(* for the ids that _asset_id gives them, which have different prefixes.   *)
(***************************************************************************)
EXTENDS Integers, Sequences, FiniteSets, Bags

CONSTANTS
  Services,   \* ids of local services
  Peers,      \* ids of peers
  ZoneOf,     \* the zone of each peer
  Host,       \* id of the host
  Nobody      \* the peer of a row without one

Zone == {"Loopback", "PrivateNetwork", "ExternalNetwork"}

ASSUME SocketAssumption ==
  /\ ZoneOf \in [Peers -> Zone]
  /\ Services \cap Peers = {}
  /\ Host \notin Services \cup Peers
  /\ Nobody \notin Peers

Row == [service : Services, listening : BOOLEAN, peer : Peers \cup {Nobody}, port : Nat]

PeerLevel(peer) == IF ZoneOf[peer] = "PrivateNetwork" THEN "MEDIUM" ELSE "LOW"

\* What was entered first stays, but for the ports, which are collected.
Upsert(assets, id, asset) ==
  IF id \in DOMAIN assets
  THEN [assets EXCEPT ![id].ports = @ \cup asset.ports]
  ELSE [a \in DOMAIN assets \cup {id} |-> IF a = id THEN asset ELSE assets[a]]

\* Mutant: an edge that was observed before is not counted again.
AppendNewEdge(edges, edge) ==
  IF BagIn(edge, edges) THEN edges ELSE edges (+) SetToBag({edge})

\* An edge is there as often as it was observed.
AppendEdge(edges, edge) == edges (+) SetToBag({edge})

Edge(from, to, port) == [from |-> from, to |-> to, port |-> port]
Link(from, to) == <<from, to>>

HostOnly ==
  [assets |-> [h \in {Host} |-> [role |-> "observed-host", level |-> "HIGH", ports |-> {}]],
   edges  |-> EmptyBag,
   nodes  |-> {Host},
   links  |-> EmptyBag]

\* From one end to another, which is entered as an asset and as a node.
Connect(t, from, to, asset, port) ==
  [assets |-> Upsert(t.assets, to, asset),
   edges  |-> AppendEdge(t.edges, Edge(from, to, port)),
   nodes  |-> t.nodes \cup {to},
   links  |-> t.links (+) SetToBag({Link(from, to)})]

AddRow(t, row) ==
  LET service == [role  |-> IF row.listening THEN "listening-service" ELSE "local-process",
                  level |-> "MEDIUM", ports |-> {row.port}]
      local   == Connect(t, Host, row.service, service, row.port)
  IN  IF row.peer = Nobody THEN local
      ELSE Connect(local, row.service, row.peer,
                   [role |-> "network-peer", level |-> PeerLevel(row.peer),
                    ports |-> {row.port}], row.port)

\* The topology after each of the rows.
Stages(rows) ==
  LET after[n \in 0 .. Len(rows)] ==
        IF n = 0 THEN HostOnly ELSE AddRow(after[n - 1], rows[n])
  IN  after

\* A socket table that could not be read has no rows.
Build(rows) == Stages(rows)[Len(rows)]

-----------------------------------------------------------------------------

(***************************************************************************)
(* A topology is consistent if edges join assets, the knowledge graph has  *)
(* a node for each asset, and as many links between two nodes as edges     *)
(* were observed between them.                                             *)
(***************************************************************************)
Sightings(t, from, to) ==
  UNION {{e} \X (1 .. t.edges[e]) : e \in {f \in BagToSet(t.edges) : f.from = from /\ f.to = to}}

Links(t, from, to) ==
  IF BagIn(Link(from, to), t.links) THEN t.links[Link(from, to)] ELSE 0

Consistent(t) ==
  /\ t.nodes = DOMAIN t.assets
  /\ \A e \in BagToSet(t.edges) : {e.from, e.to} \subseteq DOMAIN t.assets
  /\ \A from, to \in t.nodes : Links(t, from, to) = Cardinality(Sightings(t, from, to))

=============================================================================
