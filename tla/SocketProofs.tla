----------------------------- MODULE SocketProofs -----------------------------
(***************************************************************************)
(* Proofs about SocketTopology: whatever the rows of a socket table are,   *)
(* and however often they repeat each other, the topology is consistent.   *)
(***************************************************************************)
EXTENDS SocketTopology, TLAPS, FiniteSetTheorems

-----------------------------------------------------------------------------
(* Induction over the rows *)

\* Induction over the natural numbers, stated for a set.
LEMMA SetInduction ==
  ASSUME NEW S, 0 \in S, \A n \in Nat : n \in S => n + 1 \in S
  PROVE  Nat \subseteq S
<1> DEFINE R == {pair \in Nat \X Nat : pair[1] < pair[2]}
           T == Nat \ S
<1>1. SUFFICES ASSUME T # {} PROVE FALSE
  OBVIOUS
<1>2. IsWellFoundedOn(R, Nat)
  BY NatLessThanWellFounded DEF OpToRel
<1>3. \E x \in T : \A y \in T : <<y, x>> \notin R
  <2>1. T \subseteq Nat
    OBVIOUS
  <2> HIDE DEF R, T
  <2> QED
    BY <1>1, <1>2, <2>1, WFMin
<1>4. PICK x \in T : \A y \in T : <<y, x>> \notin R
  BY <1>3
<1>5. x \in Nat /\ x \notin S /\ x # 0
  BY <1>4
<1>6. x - 1 \in Nat /\ x - 1 \notin S
  BY <1>5
<1>7. <<x - 1, x>> \in R
  BY <1>5, <1>6
<1> QED
  BY <1>4, <1>6, <1>7

\* The recursion over the rows defines a function.
LEMMA StagesAreDefined ==
  ASSUME NEW rows, Len(rows) \in Nat
  PROVE  Stages(rows) = [n \in 0 .. Len(rows) |->
           IF n = 0 THEN HostOnly ELSE AddRow(Stages(rows)[n - 1], rows[n])]
<1> DEFINE After(g, m) ==
             [n \in 0 .. m |-> IF n = 0 THEN HostOnly ELSE AddRow(g[n - 1], rows[n])]
           S == {m \in Nat : \E g : g = After(g, m)}
<1>1. 0 \in S
  <2> DEFINE g == [n \in 0 .. 0 |-> HostOnly]
  <2>1. g = After(g, 0)
    OBVIOUS
  <2> QED
    BY <2>1
<1>2. ASSUME NEW m \in Nat, m \in S
      PROVE  m + 1 \in S
  <2>1. PICK g : g = After(g, m)
    BY <1>2
  <2> DEFINE h == [n \in 0 .. m + 1 |->
                     IF n <= m THEN g[n] ELSE AddRow(g[m], rows[m + 1])]
  <2>2. ASSUME NEW n \in 0 .. m + 1
        PROVE  h[n] = IF n = 0 THEN HostOnly ELSE AddRow(h[n - 1], rows[n])
    <3>1. CASE n = 0
      BY <3>1, <2>1
    <3>2. CASE n # 0 /\ n <= m
      <4>1. n \in 0 .. m /\ n - 1 \in 0 .. m /\ n - 1 \in 0 .. m + 1 /\ n - 1 <= m
        BY <3>2
      <4>2. g[n] = AddRow(g[n - 1], rows[n])
        BY <2>1, <3>2, <4>1
      <4>3. h[n] = g[n] /\ h[n - 1] = g[n - 1]
        BY <3>2, <4>1
      <4> QED
        BY <3>2, <4>2, <4>3
    <3>3. CASE n = m + 1
      <4>1. h[n] = AddRow(g[m], rows[n]) /\ h[m] = g[m] /\ n - 1 = m
        BY <3>3
      <4> QED
        BY <3>3, <4>1
    <3> QED
      BY <3>1, <3>2, <3>3
  <2>3. h = After(h, m + 1)
    BY <2>2
  <2>4. \E f : f = After(f, m + 1)
    <3> HIDE DEF h, After
    <3> QED
      BY <2>3
  <2> QED
    BY <2>4
<1>3. Len(rows) \in S
  BY <1>1, <1>2, SetInduction
<1>4. PICK g : g = After(g, Len(rows))
  BY <1>3
<1>5. Stages(rows) = CHOOSE f : f = After(f, Len(rows))
  BY DEF Stages
<1> QED
  BY <1>4, <1>5

-----------------------------------------------------------------------------
(* What a row adds *)

LEMMA UpsertEnters ==
  ASSUME NEW assets, NEW id, NEW asset
  PROVE  DOMAIN Upsert(assets, id, asset) = DOMAIN assets \cup {id}
<1>1. CASE id \in DOMAIN assets
  BY <1>1 DEF Upsert
<1>2. CASE id \notin DOMAIN assets
  BY <1>2 DEF Upsert
<1> QED
  BY <1>1, <1>2

\* A bag with one more copy of an element.
LEMMA OneMore ==
  ASSUME NEW bag, IsABag(bag), NEW x
  PROVE  /\ IsABag(bag (+) SetToBag({x}))
         /\ DOMAIN (bag (+) SetToBag({x})) = DOMAIN bag \cup {x}
         /\ (bag (+) SetToBag({x}))[x] = (IF x \in DOMAIN bag THEN bag[x] ELSE 0) + 1
         /\ \A y \in DOMAIN bag : y # x => (bag (+) SetToBag({x}))[y] = bag[y]
<1> DEFINE more == bag (+) SetToBag({x})
<1>1. SetToBag({x}) = [e \in {x} |-> 1]
  BY DEF SetToBag
<1>2. more = [e \in DOMAIN bag \cup {x} |->
                (IF e \in DOMAIN bag THEN bag[e] ELSE 0) + (IF e \in {x} THEN 1 ELSE 0)]
  BY <1>1 DEF (+)
<1>3. \A e \in DOMAIN bag : bag[e] \in Nat /\ bag[e] > 0
  BY DEF IsABag
<1>4. DOMAIN more = DOMAIN bag \cup {x}
  BY <1>2
<1>5. more[x] = (IF x \in DOMAIN bag THEN bag[x] ELSE 0) + 1
  BY <1>2
<1>6. \A y \in DOMAIN bag : y # x => more[y] = bag[y]
  BY <1>2, <1>3
<1>7. \A e \in DOMAIN more : more[e] \in {n \in Nat : n > 0}
  BY <1>3, <1>4, <1>5, <1>6
<1>8. more = [e \in DOMAIN more |-> more[e]]
  BY <1>2
<1>9. IsABag(more)
  BY <1>7, <1>8 DEF IsABag
<1> QED
  BY <1>4, <1>5, <1>6, <1>9

(***************************************************************************)
(* What each row preserves: a consistent topology that has the host, and   *)
(* in which no edge and no link joins what is not there.                   *)
(***************************************************************************)
Sound(t) ==
  /\ Host \in t.nodes
  /\ t.nodes = DOMAIN t.assets
  /\ IsABag(t.edges) /\ IsABag(t.links)
  /\ \A e \in BagToSet(t.edges) : e.from \in t.nodes /\ e.to \in t.nodes
  /\ \A from, to :
       /\ IsFiniteSet(Sightings(t, from, to))
       /\ Links(t, from, to) = Cardinality(Sightings(t, from, to))

LEMMA SightingsAre ==
  ASSUME NEW t, NEW from, NEW to, NEW s
  PROVE  s \in Sightings(t, from, to) <=>
           \E e \in BagToSet(t.edges) : \E k \in 1 .. t.edges[e] :
             e.from = from /\ e.to = to /\ s = <<e, k>>
BY DEF Sightings

LEMMA ConnectKeepsSound ==
  ASSUME NEW t, Sound(t), NEW from \in t.nodes, NEW to, NEW asset, NEW port
  PROVE  Sound(Connect(t, from, to, asset, port)) /\ to \in Connect(t, from, to, asset, port).nodes
<1> DEFINE new == Connect(t, from, to, asset, port)
           edge == Edge(from, to, port)
           link == Link(from, to)
           count == IF edge \in DOMAIN t.edges THEN t.edges[edge] ELSE 0
<1>1. /\ new.assets = Upsert(t.assets, to, asset)
      /\ new.edges = t.edges (+) SetToBag({edge})
      /\ new.nodes = t.nodes \cup {to}
      /\ new.links = t.links (+) SetToBag({link})
  BY DEF Connect, AppendEdge
<1>2. edge.from = from /\ edge.to = to
  BY DEF Edge
<1>3. /\ IsABag(new.edges) /\ DOMAIN new.edges = DOMAIN t.edges \cup {edge}
      /\ new.edges[edge] = count + 1
      /\ \A e \in DOMAIN t.edges : e # edge => new.edges[e] = t.edges[e]
  <2> DEFINE more == t.edges (+) SetToBag({edge})
  <2>1. /\ IsABag(more) /\ DOMAIN more = DOMAIN t.edges \cup {edge}
        /\ more[edge] = count + 1
        /\ \A e \in DOMAIN t.edges : e # edge => more[e] = t.edges[e]
    <3> HIDE DEF edge
    <3> QED
      BY OneMore DEF Sound, count
  <2> QED
    BY <1>1, <2>1
<1>4. /\ IsABag(new.links) /\ DOMAIN new.links = DOMAIN t.links \cup {link}
      /\ new.links[link] = Links(t, from, to) + 1
      /\ \A l \in DOMAIN t.links : l # link => new.links[l] = t.links[l]
  <2> DEFINE more == t.links (+) SetToBag({link})
             copies == IF link \in DOMAIN t.links THEN t.links[link] ELSE 0
  <2>1. /\ IsABag(more) /\ DOMAIN more = DOMAIN t.links \cup {link}
        /\ more[link] = copies + 1
        /\ \A l \in DOMAIN t.links : l # link => more[l] = t.links[l]
    <3> HIDE DEF link
    <3> QED
      BY OneMore DEF Sound, copies
  <2>2. copies = Links(t, from, to)
    BY DEF Links, BagIn, BagToSet
  <2> QED
    BY <1>1, <2>1, <2>2
<1> HIDE DEF new
<1>5. count \in Nat
  BY DEF Sound, IsABag
<1> HIDE DEF edge, count
<1>6. \A f, g, s : s \in Sightings(new, f, g) <=>
        s \in Sightings(t, f, g) \/ (f = from /\ g = to /\ s = <<edge, count + 1>>)
  <2> SUFFICES ASSUME NEW f, NEW g, NEW s
               PROVE  s \in Sightings(new, f, g) <=>
                        s \in Sightings(t, f, g) \/ (f = from /\ g = to /\ s = <<edge, count + 1>>)
    OBVIOUS
  <2>1. s \in Sightings(new, f, g) <=>
          \E e \in DOMAIN new.edges : \E k \in 1 .. new.edges[e] :
            e.from = f /\ e.to = g /\ s = <<e, k>>
    BY SightingsAre DEF BagToSet
  <2>2. s \in Sightings(t, f, g) <=>
          \E e \in DOMAIN t.edges : \E k \in 1 .. t.edges[e] :
            e.from = f /\ e.to = g /\ s = <<e, k>>
    BY SightingsAre DEF BagToSet
  <2>3. \A k : k \in 1 .. count + 1 <=> k \in 1 .. count \/ k = count + 1
    BY <1>5
  <2>4. edge \in DOMAIN t.edges => count = t.edges[edge]
    BY DEF count
  <2>5. edge \notin DOMAIN t.edges => \A k : k \notin 1 .. count
    BY DEF count
  <2>6. ASSUME NEW e \in DOMAIN new.edges, NEW k \in 1 .. new.edges[e],
               e.from = f, e.to = g, s = <<e, k>>
        PROVE  s \in Sightings(t, f, g) \/ (f = from /\ g = to /\ s = <<edge, count + 1>>)
    BY <2>2, <2>3, <2>4, <2>5, <2>6, <1>2, <1>3
  <2>7. ASSUME NEW e \in DOMAIN t.edges, NEW k \in 1 .. t.edges[e],
               e.from = f, e.to = g, s = <<e, k>>
        PROVE  s \in Sightings(new, f, g)
    BY <2>1, <2>3, <2>4, <2>7, <1>2, <1>3
  <2>8. ASSUME f = from, g = to, s = <<edge, count + 1>>
        PROVE  s \in Sightings(new, f, g)
    BY <2>1, <2>3, <2>8, <1>2, <1>3
  <2> QED
    BY <2>1, <2>2, <2>6, <2>7, <2>8
<1>7. <<edge, count + 1>> \notin Sightings(t, from, to)
  <2>1. \A e, k : <<edge, count + 1>> = <<e, k>> => e = edge /\ k = count + 1
    OBVIOUS
  <2>2. edge \in DOMAIN t.edges => count + 1 \notin 1 .. t.edges[edge]
    BY <1>5 DEF count
  <2> QED
    BY <2>1, <2>2, SightingsAre DEF BagToSet
<1>8. ASSUME NEW f, NEW g
      PROVE  /\ IsFiniteSet(Sightings(new, f, g))
             /\ Links(new, f, g) = Cardinality(Sightings(new, f, g))
  <2>1. /\ IsFiniteSet(Sightings(t, f, g))
        /\ Links(t, f, g) = Cardinality(Sightings(t, f, g))
    BY DEF Sound
  <2>2. CASE f = from /\ g = to
    <3>1. Sightings(new, f, g) = Sightings(t, f, g) \cup {<<edge, count + 1>>}
      BY <1>6, <2>2
    <3>2. /\ IsFiniteSet(Sightings(new, f, g))
          /\ Cardinality(Sightings(new, f, g)) = Cardinality(Sightings(t, f, g)) + 1
      BY <3>1, <2>1, <2>2, <1>7, FS_AddElement
    <3>3. Links(new, f, g) = Links(t, f, g) + 1
      BY <1>4, <2>2 DEF Links, BagIn, BagToSet
    <3> QED
      BY <3>2, <3>3, <2>1
  <2>3. CASE ~(f = from /\ g = to)
    <3>1. Sightings(new, f, g) = Sightings(t, f, g)
      <4>1. \A s : s \in Sightings(new, f, g) <=> s \in Sightings(t, f, g)
        BY <1>6, <2>3
      <4> QED
        BY <4>1
    <3>2. Link(f, g) # link
      BY <2>3 DEF Link
    <3>3. Links(new, f, g) = Links(t, f, g)
      BY <1>4, <3>2 DEF Links, BagIn, BagToSet
    <3> QED
      BY <2>1, <3>1, <3>3
  <2> QED
    BY <2>2, <2>3
<1>9. new.nodes = DOMAIN new.assets
  <2>1. DOMAIN new.assets = DOMAIN t.assets \cup {to}
    <3>1. DOMAIN Upsert(t.assets, to, asset) = DOMAIN t.assets \cup {to}
      BY UpsertEnters
    <3> QED
      BY <1>1, <3>1
  <2> QED
    BY <1>1, <2>1 DEF Sound
<1>10. \A e \in BagToSet(new.edges) : e.from \in new.nodes /\ e.to \in new.nodes
  BY <1>1, <1>2, <1>3 DEF Sound, BagToSet
<1>11. Sound(new) /\ to \in new.nodes
  BY <1>1, <1>3, <1>4, <1>8, <1>9, <1>10 DEF Sound
<1> QED
  BY <1>11 DEF new

LEMMA AddRowKeepsSound ==
  ASSUME NEW t, Sound(t), NEW row
  PROVE  Sound(AddRow(t, row))
<1> DEFINE service == [role  |-> IF row.listening THEN "listening-service" ELSE "local-process",
                       level |-> "MEDIUM", ports |-> {row.port}]
           local == Connect(t, Host, row.service, service, row.port)
           peer == [role |-> "network-peer", level |-> PeerLevel(row.peer), ports |-> {row.port}]
<1>1. Sound(local) /\ row.service \in local.nodes
  <2> HIDE DEF service
  <2> QED
    BY ConnectKeepsSound DEF Sound
<1>2. Sound(Connect(local, row.service, row.peer, peer, row.port))
  <2> HIDE DEF local, peer
  <2> QED
    BY <1>1, ConnectKeepsSound
<1> QED
  BY <1>1, <1>2 DEF AddRow

LEMMA HostOnlyIsSound == Sound(HostOnly)
<1>1. DOMAIN HostOnly.edges = {} /\ DOMAIN HostOnly.links = {}
  BY DEF HostOnly, EmptyBag, SetToBag
<1>2. IsABag(HostOnly.edges) /\ IsABag(HostOnly.links)
  BY DEF HostOnly, EmptyBag, SetToBag, IsABag
<1>3. ASSUME NEW from, NEW to
      PROVE  /\ IsFiniteSet(Sightings(HostOnly, from, to))
             /\ Links(HostOnly, from, to) = Cardinality(Sightings(HostOnly, from, to))
  <2>1. Sightings(HostOnly, from, to) = {}
    BY <1>1, SightingsAre DEF BagToSet
  <2>2. Links(HostOnly, from, to) = 0
    BY <1>1 DEF Links, BagIn, BagToSet
  <2> QED
    BY <2>1, <2>2, FS_EmptySet
<1>4. Host \in HostOnly.nodes /\ HostOnly.nodes = DOMAIN HostOnly.assets
  BY DEF HostOnly
<1> QED
  BY <1>1, <1>2, <1>3, <1>4 DEF Sound, BagToSet

(***************************************************************************)
(* Whatever a socket table has in it, and however often: the topology that *)
(* is built of it is consistent. By induction over its rows.               *)
(***************************************************************************)
THEOREM BuiltIsConsistent ==
  ASSUME NEW rows, Len(rows) \in Nat
  PROVE  Consistent(Build(rows))
<1> DEFINE S == {n \in Nat : n <= Len(rows) => Sound(Stages(rows)[n])}
<1>1. \A n \in 0 .. Len(rows) :
        Stages(rows)[n] = IF n = 0 THEN HostOnly ELSE AddRow(Stages(rows)[n - 1], rows[n])
  BY StagesAreDefined
<1>2. 0 \in S
  BY <1>1, HostOnlyIsSound
<1>3. ASSUME NEW n \in Nat, n \in S
      PROVE  n + 1 \in S
  <2> SUFFICES ASSUME n + 1 <= Len(rows)
               PROVE  Sound(Stages(rows)[n + 1])
    OBVIOUS
  <2>1. n + 1 \in 0 .. Len(rows) /\ n + 1 # 0 /\ (n + 1) - 1 = n /\ n <= Len(rows)
    OBVIOUS
  <2>2. Stages(rows)[n + 1] = AddRow(Stages(rows)[n], rows[n + 1])
    BY <1>1, <2>1
  <2> QED
    BY <1>3, <2>1, <2>2, AddRowKeepsSound
<1>4. Len(rows) \in S
  BY <1>2, <1>3, SetInduction
<1>5. Sound(Build(rows))
  BY <1>4 DEF Build
<1> QED
  BY <1>5 DEF Sound, Consistent

=============================================================================
