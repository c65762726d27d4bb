-------------------------- MODULE UccnLinksProofs --------------------------
(***************************************************************************)
(* The links between the endpoints of a node and its peers: their counts,  *)
(* and whom a provider is linked to, for any number of addresses, slots    *)
(* and resources.                                                          *)
(***************************************************************************)
EXTENDS UccnNodeProofs

(* The invariant that counts.                                              *)
CountInv == ~moved => Counted(node)

(* The invariant implies the property.                                     *)
LEMMA CountInvIsLinksCounted ==
    ASSUME node \in Node
    PROVE  CountInv => LinksCounted
<1> SUFFICES ASSUME ~moved, Counted(node)
             PROVE  /\ \A s \in Registered(node) :
                          node.peers[s].num_links = Cardinality(LinksOf(s))
                    /\ \A s \in Slot \ Registered(node) : LinksOf(s) = {}
  BY DEF CountInv, LinksCounted
<1>1. \A s : Cardinality(LinksOf(s)) = Count(node, s)
  BY CountIsCardinality DEF LinksOf
<1>2. ASSUME NEW s \in Slot \ Registered(node) PROVE LinksOf(s) = {}
  <2>1. \A side \in Side : Linked(node, side, s) = {}
    BY <1>2 DEF Counted
  <2>2. \A e \in Side \X Resource : e[1] \in Side /\ e[2] \in Resource
    OBVIOUS
  <2> QED
    BY <2>1, <2>2 DEF LinksOf, Linked
<1> QED
  BY <1>1, <1>2 DEF Counted

(* Every step keeps it.                                                    *)
LEMMA CountStep ==
    ASSUME IndInv, CountInv, [Next]_vars, IndInv'
    PROVE  CountInv'
<1>1. /\ node \in Node /\ node' \in Node /\ Unique(node) /\ now \in Nat
      /\ moved \in BOOLEAN /\ moved' \in BOOLEAN
  BY ClockAssumption DEF IndInv, TypeOK, UniquePeers, Unique
<1>2. ASSUME node'.num_peers = node.num_peers, SameLinks(node, node'), moved' = moved
      PROVE  CountInv'
  BY <1>1, <1>2, SameLinksCounted DEF CountInv
<1>3. ASSUME NEW side \in Side, NEW r \in Resource, AddEndpoint(side, r)
      PROVE  CountInv'
  <2>1. SameLinks(node, node') /\ node'.num_peers = node.num_peers
    BY <1>1, <1>3 DEF AddEndpoint, uccn_add_endpoint, SameLinks, Node
  <2> QED
    BY <1>2, <1>3, <2>1 DEF AddEndpoint
<1>4. ASSUME NEW r \in Resource, BeginPost(r) PROVE CountInv'
  BY <1>4 DEF BeginPost, CountInv
<1>5. ASSUME NEW r \in Resource, NEW reached \in SUBSET Slot, Post(r, reached)
      PROVE  CountInv'
  BY <1>1, <1>2, <1>5, PostType DEF Post, SameOccupants
<1>6. ASSUME NEW r \in Resource, PostFailed(r) PROVE CountInv'
  BY <1>1, <1>2, <1>6, PostFailedType DEF PostFailed, SameTable
<1>7. ASSUME NEW a \in Address, NEW p \in Incoming, NEW blob, Receive(a, p, blob)
      PROVE  CountInv'
  BY <1>1, <1>7, IncomingPackets, IncomingCounted DEF Receive, CountInv
<1>8. ASSUME NEW reached \in SUBSET Slot, AssertLiveliness(reached) PROVE CountInv'
  BY <1>1, <1>2, <1>8, AssertLivelinessType DEF AssertLiveliness, SameOccupants
<1>9. CASE DiscoverPeers
  BY <1>1, <1>2, <1>9, DiscoverType DEF DiscoverPeers, SameTable
<1>10. CASE ProbeEndpoints
  <2>1. node' \in uccn_probe_endpoints(node, now) /\ (~moved' => ~moved /\ ~Moves(node, node'))
    BY <1>10 DEF ProbeEndpoints
  <2> QED
    BY <1>1, <2>1, ProbeCounted DEF CountInv
<1>11. CASE Tick
  BY <1>11 DEF Tick, CountInv
<1>12. CASE UNCHANGED vars
  BY <1>12 DEF vars, CountInv
<1> QED
  BY <1>3, <1>4, <1>5, <1>6, <1>7, <1>8, <1>9, <1>10, <1>11, <1>12 DEF Next

(* Counts agree with lists until a compaction moves a peer.                *)
LEMMA CountInvariance == Spec => []CountInv
<1>1. Init => CountInv
  <2> SUFFICES ASSUME Init PROVE Counted(node)
    BY DEF CountInv
  <2>1. Registered(node) = {}
    BY DEF Init, uccn_node_init, Registered
  <2>2. \A s \in Slot : \A side \in Side : Linked(node, side, s) = {}
    BY DEF Init, uccn_node_init, Linked
  <2> QED
    BY <2>1, <2>2 DEF Counted
<1>2. IndInv /\ IndInv' /\ CountInv /\ [Next]_vars => CountInv'
  BY CountStep
<1> QED
  BY <1>1, <1>2, Invariance, PTL DEF Spec

(* What uccn_link and uccn_unlink count is how many endpoints point to the *)
(* peer, and no endpoint points to a slot without a peer, until a probe    *)
(* moves a peer to another slot.                                           *)
THEOREM LinksAlwaysCounted == Spec => []LinksCounted
<1>1. IndInv /\ CountInv => LinksCounted
  BY CountInvIsLinksCounted DEF IndInv, TypeOK
<1> QED
  BY <1>1, Invariance, CountInvariance, PTL

-----------------------------------------------------------------------------
(* What LivePeersKept says of one step.                                    *)
KeepsLive ==
    \A s \in Registered(node) :
        /\ ~moved
        /\ LinksOf(s) # {}
        /\ node.peers[s].next_remote_deadline >= now
        => \E t \in Registered(node') :
               /\ node'.peers[t].address = node.peers[s].address
               /\ node'.num_peers < node.num_peers =>
                      \A side \in Side, r \in Resource :
                          s \in node.links[side][r] => s \in node'.links[side][r]

(* No step drops a peer that is alive and linked.                          *)
LEMMA KeepsLiveStep ==
    ASSUME IndInv, CountInv, [Next]_vars
    PROVE  KeepsLive
<1> SUFFICES ASSUME NEW s \in Registered(node), ~moved, LinksOf(s) # {},
                    node.peers[s].next_remote_deadline >= now
             PROVE  \E t \in Registered(node') :
                        /\ node'.peers[t].address = node.peers[s].address
                        /\ node'.num_peers < node.num_peers =>
                               \A side \in Side, r \in Resource :
                                   s \in node.links[side][r] => s \in node'.links[side][r]
  BY DEF KeepsLive
<1>1. /\ node \in Node /\ Unique(node) /\ now \in Nat /\ node' \in Node /\ s \in Slot
      /\ node.num_peers \in Nat /\ node'.num_peers \in Nat
  <2>1. /\ node \in Node /\ Unique(node) /\ now \in Nat /\ node' \in Node
    BY ClockAssumption, NextTableStep DEF IndInv, TypeOK, UniquePeers, Unique, TableStep
  <2> QED
    BY <2>1, SlotsRegistered, BoundAssumption DEF Node
<1>2. ASSUME s \in Registered(node'), node'.peers[s].address = node.peers[s].address,
             node'.num_peers >= node.num_peers
      PROVE  \E t \in Registered(node') :
                 /\ node'.peers[t].address = node.peers[s].address
                 /\ ~(node'.num_peers < node.num_peers)
  BY <1>1, <1>2
<1>3. CASE SamePeers(node, node')
  BY <1>1, <1>2, <1>3 DEF SamePeers, Registered
<1>4. ASSUME NEW a \in Address, NEW w \in Node, NEW slot \in Slot,
             Registers(node, w, slot, a, now + LivelinessTimeout),
             SamePeers(w, node')
      PROVE  /\ s \in Registered(node')
             /\ node'.peers[s].address = node.peers[s].address
             /\ node'.num_peers >= node.num_peers
  <2>1. /\ Registered(w) = Registered(node) \cup {slot}
        /\ slot \in Registered(node) => node.peers[slot].address = a
    BY <1>1, <1>4, RegistersSlots
  <2>2. w.peers[s].address = node.peers[s].address
    BY <1>1, <1>4, <2>1 DEF Registers
  <2>3. w.num_peers >= node.num_peers
    BY <1>1, <1>4 DEF Registers
  <2> QED
    BY <1>1, <1>4, <2>1, <2>2, <2>3 DEF SamePeers, Registered
<1>5. CASE node' \in uccn_probe_endpoints(node, now)
  <2>1. PICK k \in 0 .. MaxPeers : \E q \in [1 .. k -> Registered(node)] :
            Renumbered(node, node', k, q, now)
    BY <1>1, <1>5, ProbeEffect
  <2>2. PICK q \in [1 .. k -> Registered(node)] : Renumbered(node, node', k, q, now)
    BY <2>1
  <2>3. Live(node, s, now)
    BY DEF Live
  <2>4. node.peers[s].num_links # 0
    <3>1. node.peers[s].num_links = Count(node, s)
      BY DEF CountInv, Counted
    <3>2. Count(node, s) = Cardinality(LinksOf(s))
      BY CountIsCardinality DEF LinksOf
    <3>3. IsFiniteSet(LinksOf(s))
      <4>1. IsFiniteSet(Side)
        <5>1. IsFiniteSet({"provider"}) /\ Side = {"provider"} \cup {"tracker"}
          BY FS_Singleton DEF Side
        <5> QED
          BY <5>1, FS_AddElement
      <4>2. IsFiniteSet(Side \X Resource)
        BY <4>1, ResourceAssumption, FS_Product
      <4>3. LinksOf(s) \in SUBSET (Side \X Resource)
        BY DEF LinksOf
      <4> QED
        BY <4>2, <4>3, FS_Subset
    <3> QED
      BY <3>1, <3>2, <3>3, FS_EmptySet
  <2>5. PICK i \in 1 .. k : q[i] = s
    BY <2>2, <2>3, <2>4 DEF Renumbered, Survives
  <2>6. i \in Registered(node') /\ node'.peers[i].address = node.peers[s].address
    <3>1. Registered(node') = 1 .. k
      BY <2>2 DEF Registered, Renumbered
    <3>2. \A j \in 1 .. k : node'.peers[j].address = node.peers[q[j]].address
      BY <1>1, <2>2, RenumberedPeers, SMTT(20)
    <3> QED
      BY <2>5, <3>1, <3>2
  <2>7. \A side \in Side, r \in Resource :
            s \in node.links[side][r] => s \in node'.links[side][r]
    <3>1. Kept(node, s, now)
      BY <2>3 DEF Kept
    <3>2. TAKE side \in Side, r \in Resource
    <3>3. node'.links[side][r] = {t \in node.links[side][r] : Kept(node, t, now)}
      BY <2>2 DEF Renumbered
    <3> QED
      BY <3>1, <3>3
  <2> QED
    BY <2>6, <2>7
<1>6. CASE node' = node
  BY <1>1, <1>2, <1>6
<1> QED
  BY <1>2, <1>3, <1>4, <1>5, <1>6, NextTableStep DEF TableStep

(* No step drops a live peer that an endpoint points to, or takes a link   *)
(* from it because another peer is dropped, until a probe moves a peer.    *)
THEOREM LivePeersAlwaysKept == Spec => LivePeersKept
<1>1. IndInv /\ CountInv /\ [Next]_vars => [KeepsLive]_vars
  BY KeepsLiveStep
<1> QED
  BY <1>1, Invariance, CountInvariance, PTL DEF Spec, LivePeersKept, KeepsLive

-----------------------------------------------------------------------------
(* Checksums tell arrays apart: what the node takes for granted when it    *)
(* skips an array whose checksum it knows.                                 *)
ChecksumsDistinct == \A G, H \in SUBSET Hash : Crc32(G) = Crc32(H) => G = H

(* The node keeps the checksum of H for slot s, and its providers point to *)
(* s only where H lists them.                                              *)
Knows(n, s, H) ==
    /\ n.peers[s].content_hash["tracker"] = Crc32(H)
    /\ \A r \in Linked(n, "provider", s) : ResourceHash[r] \in H

(* What the node knows of the trackers of slot s is the same in m.         *)
SameKnown(n, m, s) ==
    /\ m.peers[s].content_hash["tracker"] = n.peers[s].content_hash["tracker"]
    /\ Linked(m, "provider", s) = Linked(n, "provider", s)

(* What is known of a peer is in its links and hashes.                     *)
LEMMA SameLinksKnown ==
    ASSUME NEW n, NEW m, SameLinks(n, m)
    PROVE  \A s \in Slot : SameKnown(n, m, s)
BY DEF SameLinks, SameKnown, Linked

(* An array of one side leaves what is known of all others alone.          *)
LEMMA ProvidedArrayKnown ==
    ASSUME NEW n \in Node, NEW s \in Slot, NEW H \in SUBSET Hash, NEW t \in Slot
    PROVE  SameKnown(n, ProcessArray(n, s, "provider", H).node, t)
<1> DEFINE m == ProcessArray(n, s, "provider", H).node
<1>1. Other("provider") = "tracker" /\ Other("tracker") = "provider" /\ "provider" \in Side
  BY DEF Other, Side
<1>2. ArrayEffect(n, m, s, "provider", H)
  BY <1>1, ProcessArrayEffect
<1> HIDE DEF m
<1>3. CASE m = n
  BY <1>3 DEF SameKnown, m
<1>4. CASE m # n
  <2>1. /\ m.links["provider"] = n.links["provider"]
        /\ \A u \in Slot \ {s} : m.peers[u] = n.peers[u]
        /\ m.peers[s].content_hash = [n.peers[s].content_hash EXCEPT !["provider"] = Crc32(H)]
    BY <1>1, <1>2, <1>4 DEF ArrayEffect, Relinks
  <2>2. Linked(m, "provider", t) = Linked(n, "provider", t)
    BY <2>1 DEF Linked
  <2>3. n.peers[s].content_hash \in [Side -> Nat] /\ "tracker" \in Side
    BY DEF Node, Peer, Side
  <2>4. m.peers[s].content_hash["tracker"] = n.peers[s].content_hash["tracker"]
    BY <2>1, <2>3
  <2>5. m.peers[t].content_hash["tracker"] = n.peers[t].content_hash["tracker"]
    BY <2>1, <2>4
  <2> QED
    BY <2>2, <2>5 DEF SameKnown, m
<1> QED
  BY <1>3, <1>4

(* After an array of tracked hashes exactly what it lists is linked,       *)
(* although one with a known checksum is skipped.                          *)
LEMMA TrackedArrayKnown ==
    ASSUME ChecksumsDistinct,
           NEW n \in Node, NEW s \in Slot, NEW H \in SUBSET Hash,
           NEW G \in SUBSET Hash, Knows(n, s, G)
    PROVE  LET m == ProcessArray(n, s, "tracker", H).node
           IN  /\ Knows(m, s, H)
               /\ \A t \in Slot \ {s} : SameKnown(n, m, t)
<1> DEFINE m == ProcessArray(n, s, "tracker", H).node
<1>1. Other("tracker") = "provider" /\ "tracker" \in Side /\ "provider" \in Side
  BY DEF Other, Side
<1>2. ArrayEffect(n, m, s, "tracker", H)
  BY <1>1, ProcessArrayEffect
<1> HIDE DEF m
<1>3. CASE n.peers[s].content_hash["tracker"] = Crc32(H) /\ m = n
  <2>1. G = H
    BY <1>3 DEF Knows, ChecksumsDistinct
  <2>2. \A t \in Slot \ {s} : SameKnown(n, m, t)
    BY <1>3 DEF SameKnown
  <2> QED
    BY <1>3, <2>1, <2>2 DEF m
<1>4. CASE ~(n.peers[s].content_hash["tracker"] = Crc32(H) /\ m = n)
  <2>1. /\ \A r \in Resource :
              m.links["provider"][r] = IF r \in Matching(n, "provider", H)
                                       THEN n.links["provider"][r] \cup {s}
                                       ELSE n.links["provider"][r] \ {s}
        /\ \A t \in Slot \ {s} : m.peers[t] = n.peers[t]
        /\ m.peers[s].content_hash = [n.peers[s].content_hash EXCEPT !["tracker"] = Crc32(H)]
    BY <1>1, <1>2, <1>4 DEF ArrayEffect, Relinks
  <2>2. n.peers[s].content_hash \in [Side -> Nat]
    BY DEF Node, Peer
  <2>3. m.peers[s].content_hash["tracker"] = Crc32(H)
    BY <1>1, <2>1, <2>2
  <2>4. \A r \in Linked(m, "provider", s) : ResourceHash[r] \in H
    BY <2>1 DEF Linked, Matching
  <2>5. ASSUME NEW t \in Slot \ {s} PROVE SameKnown(n, m, t)
    <3>1. Linked(m, "provider", t) = Linked(n, "provider", t)
      BY <2>1 DEF Linked
    <3> QED
      BY <2>1, <3>1 DEF SameKnown
  <2> QED
    BY <2>3, <2>4, <2>5 DEF Knows, m
<1> QED
  BY <1>3, <1>4

(* The tracked array of slot s, as it stands after packet p.               *)
AskedAfter(G, p) ==
    IF /\ p.kind = "link"
       /\ "tracker" \in DOMAIN p.arrays
       /\ 0 \notin p.arrays["tracker"]
    THEN p.arrays["tracker"]
    ELSE G

(* Any packet leaves the links of its sender in accord with the last array *)
(* of tracked hashes taken from it.                                        *)
LEMMA PacketKnown ==
    ASSUME ChecksumsDistinct,
           NEW n \in Node, NEW s \in Slot, NEW p \in Packet, NEW blob,
           NEW G \in SUBSET Hash, Knows(n, s, G)
    PROVE  LET m == uccn_process_packet(n, s, p, blob).node
           IN  /\ Knows(m, s, AskedAfter(G, p))
               /\ \A t \in Slot \ {s} : SameKnown(n, m, t)
<1> DEFINE m == uccn_process_packet(n, s, p, blob).node
<1>1. PacketEffect(n, m, s, p)
  BY ProcessPacketEffect
<1>2. "tracker" \in DOMAIN p.arrays => p.arrays["tracker"] \in SUBSET Hash
  <2>1. PICK D \in SUBSET Side : p.arrays \in [D -> SUBSET Hash]
    BY DEF Packet, Arrays
  <2> QED
    BY <2>1
<1> HIDE DEF m
<1>3. CASE p.kind = "link"
  <2>1. PICK f \in Node : TrackedEffect(n, f, s, p.arrays) /\ ProvidedEffect(f, m, s, p.arrays)
    BY <1>1, <1>3 DEF PacketEffect, GroupEffect
  <2>2. Knows(f, s, AskedAfter(G, p)) /\ \A t \in Slot \ {s} : SameKnown(n, f, t)
    <3>1. CASE "tracker" \in DOMAIN p.arrays /\ 0 \notin p.arrays["tracker"]
      BY <1>2, <1>3, <2>1, <3>1, TrackedArrayKnown DEF TrackedEffect, AskedAfter
    <3>2. CASE ~("tracker" \in DOMAIN p.arrays /\ 0 \notin p.arrays["tracker"])
      BY <2>1, <3>2 DEF TrackedEffect, AskedAfter, SameKnown
    <3> QED
      BY <3>1, <3>2
  <2>3. ASSUME NEW t \in Slot PROVE SameKnown(f, m, t)
    <3>1. CASE SameLinks(f, m)
      BY <3>1, SameLinksKnown
    <3>2. ASSUME NEW H \in SUBSET Hash, SameLinks(ProcessArray(f, s, "provider", H).node, m)
          PROVE  SameKnown(f, m, t)
      <4>1. SameKnown(f, ProcessArray(f, s, "provider", H).node, t)
        BY ProvidedArrayKnown
      <4>2. SameKnown(ProcessArray(f, s, "provider", H).node, m, t)
        BY <3>2, SameLinksKnown
      <4> QED
        BY <4>1, <4>2 DEF SameKnown
    <3> QED
      BY <2>1, <3>1, <3>2 DEF ProvidedEffect
  <2> QED
    BY <2>2, <2>3 DEF Knows, SameKnown, m
<1>4. CASE p.kind # "link"
  <2>1. PICK w \in Node :
          /\ SameLinks(n, w)
          /\ m = w \/ \E r \in Resource : m = uccn_link(w, "tracker", r, s).node
    BY <1>1, <1>4 DEF PacketEffect, ContentEffect
  <2>2. ASSUME NEW t \in Slot PROVE SameKnown(n, m, t)
    <3>1. SameKnown(n, w, t)
      BY <2>1, SameLinksKnown
    <3>2. ASSUME NEW r \in Resource, m = uccn_link(w, "tracker", r, s).node
          PROVE  SameKnown(w, m, t)
      <4>1. Other("tracker") = "provider" /\ "tracker" \in Side
        BY DEF Other, Side
      <4>2. \/ m = w
            \/ /\ Relinks(w, m, s, "tracker", Linked(w, "tracker", s) \cup {r})
               /\ m.peers[s].content_hash = w.peers[s].content_hash
        BY <3>2, <4>1, LinkEffect
      <4>3. m.links["provider"] = w.links["provider"]
            /\ m.peers[t].content_hash = w.peers[t].content_hash
        BY <4>1, <4>2 DEF Relinks
      <4> QED
        BY <4>3 DEF SameKnown, Linked
    <3> QED
      BY <2>1, <3>1, <3>2 DEF SameKnown
  <2>3. AskedAfter(G, p) = G
    BY <1>4 DEF AskedAfter
  <2> QED
    BY <2>2, <2>3 DEF Knows, SameKnown, m
<1> QED
  BY <1>3, <1>4

(* A is what the peers of n asked for: the node knows it of each of them,  *)
(* and nothing is on record of anybody else.                               *)
Informed(n, A) ==
    /\ \A s \in Registered(n) : Knows(n, s, A[n.peers[s].address])
    /\ \A a \in Address \ Known(n) : A[a] = {}

(* A step that touches neither links nor addresses keeps that accord.      *)
LEMMA SameLinksInformed ==
    ASSUME NEW n \in Node, NEW m \in Node, NEW A, Informed(n, A),
           SameLinks(n, m), m.num_peers = n.num_peers,
           \A s \in Slot : m.peers[s].address = n.peers[s].address
    PROVE  Informed(m, A)
<1>1. Registered(m) = Registered(n) /\ Registered(n) \subseteq Slot
  BY SlotsRegistered DEF Registered
<1>2. Known(m) = Known(n)
  BY <1>1 DEF Known
<1>3. ASSUME NEW s \in Registered(m) PROVE Knows(m, s, A[m.peers[s].address])
  BY <1>1, SameLinksKnown DEF Informed, Knows, SameKnown
<1> QED
  BY <1>2, <1>3 DEF Informed

(* A new peer has asked for nothing, and nothing points to its slot.       *)
LEMMA RegistersInformed ==
    ASSUME NEW n \in Node, NEW m \in Node, NEW A, Counted(n), Informed(n, A),
           NEW slot, NEW a \in Address, NEW d, Registers(n, m, slot, a, d)
    PROVE  Informed(m, A)
<1>1. /\ Registered(m) = Registered(n) \cup {slot} /\ slot \in Slot
      /\ Registered(n) \subseteq Slot
      /\ slot \in Registered(n) => n.peers[slot].address = a
      /\ slot \notin Registered(n) => \A s \in Registered(n) : n.peers[s].address # a
  <2>1. slot \in Slot
    BY DEF Registers
  <2> QED
    BY <2>1, RegistersSlots
<1>2. \A s : Linked(m, "provider", s) = Linked(n, "provider", s)
  BY DEF Registers, Linked
<1>3. ASSUME NEW s \in Registered(m), s # slot PROVE Knows(m, s, A[m.peers[s].address])
  <2>1. s \in Registered(n) /\ m.peers[s] = n.peers[s]
    BY <1>1, <1>3 DEF Registers
  <2> QED
    BY <1>2, <2>1 DEF Informed, Knows
<1>4. Knows(m, slot, A[a])
  <2>1. CASE slot \in Registered(n)
    <3>1. m.peers[slot].content_hash = n.peers[slot].content_hash
      <4>1. n.num_peers \in Nat
        BY BoundAssumption DEF Node
      <4> QED
        BY <2>1, <4>1 DEF Registers, Registered
    <3> QED
      BY <1>1, <1>2, <2>1, <3>1 DEF Informed, Knows
  <2>2. CASE slot \notin Registered(n)
    <3>1. m.peers[slot].content_hash["tracker"] = 0
      BY <2>2 DEF Registers, Side
    <3>2. Linked(n, "provider", slot) = {}
      BY <1>1, <2>2 DEF Counted, Side
    <3>3. a \notin Known(n)
      BY <1>1, <2>2 DEF Known
    <3>4. A[a] = {}
      BY <3>3 DEF Informed
    <3> QED
      BY <1>2, <3>1, <3>2, <3>4, Crc32Assumption DEF Knows
  <2> QED
    BY <2>1, <2>2
<1>5. Known(n) \subseteq Known(m)
  BY <1>1 DEF Known, Registers
<1>6. m.peers[slot].address = a
  BY DEF Registers
<1> QED
  BY <1>3, <1>4, <1>5, <1>6 DEF Informed

(* A datagram: its sender's array is known, and nothing else changes.      *)
LEMMA IncomingInformed ==
    ASSUME ChecksumsDistinct,
           NEW n \in Node, Unique(n), Counted(n),
           NEW A \in [Address -> SUBSET Hash], Informed(n, A), Known(n) \subseteq Address,
           NEW a \in Address, NEW p \in Packet, NEW blob, NEW now_ \in Nat,
           n.num_peers # MaxPeers
    PROVE  Informed(uccn_process_incoming(n, a, p, blob, now_).node,
                    [A EXCEPT ![a] = AskedAfter(A[a], p)])
<1> DEFINE m == uccn_process_incoming(n, a, p, blob, now_).node
           B == [A EXCEPT ![a] = AskedAfter(A[a], p)]
<1>1. m \in Node
  BY IncomingEffect
<1>2. PICK w \in Node, slot \in Slot : Serves(n, m, w, slot, a, p, blob, now_)
  BY IncomingEffect
<1> HIDE DEF m
<1>3. /\ Registers(n, w, slot, a, now_ + LivelinessTimeout)
      /\ m = uccn_process_packet(w, slot, p, blob).node /\ SameTable(w, m)
  BY <1>2 DEF Serves
<1>4. Informed(w, A) /\ Unique(w)
  BY <1>3, RegistersInformed, RegistersUnique
<1>5. slot \in Registered(w) /\ w.peers[slot].address = a /\ Known(w) \subseteq Address
  <2>1. Registered(w) = Registered(n) \cup {slot}
    BY <1>3, RegistersSlots
  <2>2. slot \in Registered(w) /\ w.peers[slot].address = a
    BY <1>3 DEF Registers
  <2>3. ASSUME NEW s \in Registered(w), s # slot PROVE w.peers[s].address \in Address
    <3>1. s \in Registered(n) /\ s \in Slot
      BY <2>1, <2>3, SlotsRegistered
    <3>2. w.peers[s] = n.peers[s]
      BY <1>3, <2>3, <3>1 DEF Registers
    <3> QED
      BY <3>1, <3>2 DEF Known
  <2> QED
    BY <2>2, <2>3 DEF Known
<1>6. Knows(w, slot, A[a])
  BY <1>4, <1>5 DEF Informed
<1>7. /\ Knows(m, slot, AskedAfter(A[a], p))
      /\ \A t \in Slot \ {slot} : SameKnown(w, m, t)
  BY <1>3, <1>6, PacketKnown
<1>8. /\ Registered(m) = Registered(w) /\ Registered(w) \subseteq Slot
      /\ \A s \in Slot : m.peers[s].address = w.peers[s].address
  BY <1>3, SlotsRegistered DEF SameTable, Registered
<1>9. Known(m) = Known(w)
  BY <1>8 DEF Known
<1>10. ASSUME NEW s \in Registered(m) PROVE Knows(m, s, B[m.peers[s].address])
  <2>1. CASE s = slot
    BY <1>5, <1>7, <1>8, <2>1
  <2>2. CASE s # slot
    <3>1. w.peers[s].address # a /\ w.peers[s].address \in Address
      BY <1>5, <1>4, <1>8, <1>10, <2>2 DEF Unique, Known
    <3>2. B[m.peers[s].address] = A[w.peers[s].address]
      BY <1>8, <1>10, <3>1
    <3>3. Knows(w, s, A[w.peers[s].address])
      BY <1>4, <1>8, <1>10 DEF Informed
    <3> QED
      BY <1>7, <1>8, <1>10, <2>2, <3>2, <3>3 DEF Knows, SameKnown
  <2> QED
    BY <2>1, <2>2
<1>11. ASSUME NEW b \in Address \ Known(m) PROVE B[b] = {}
  <2>1. a \in Known(m)
    BY <1>5, <1>9 DEF Known
  <2> QED
    BY <1>4, <1>9, <1>11, <2>1 DEF Informed
<1>12. Informed(m, B)
  BY <1>10, <1>11 DEF Informed
<1> QED
  BY <1>12 DEF m

(* A probe that moves no peer: who stays is known as before.               *)
LEMMA ProbeInformed ==
    ASSUME NEW n \in Node, Unique(n), NEW A \in [Address -> SUBSET Hash],
           Informed(n, A), Known(n) \subseteq Address, NEW now_ \in Nat,
           NEW m \in uccn_probe_endpoints(n, now_), ~Moves(n, m)
    PROVE  Informed(m, [a \in Address |-> IF a \in Known(m) THEN A[a] ELSE {}])
<1> DEFINE B == [a \in Address |-> IF a \in Known(m) THEN A[a] ELSE {}]
<1>1. m \in Node
  BY ProbeEffect
<1>2. PICK k \in 0 .. MaxPeers : \E q \in [1 .. k -> Registered(n)] :
          Renumbered(n, m, k, q, now_)
  BY ProbeEffect
<1>3. PICK q \in [1 .. k -> Registered(n)] : Renumbered(n, m, k, q, now_)
  BY <1>2
<1>4. /\ Registered(m) = 1 .. k
      /\ \A i \in 1 .. k : q[i] = i /\ i \in Registered(n)
  BY <1>1, <1>3, UnmovedPrefix
<1>5. \A side \in Side, r \in Resource :
          m.links[side][r] = {s \in n.links[side][r] : Kept(n, s, now_)}
  BY <1>3 DEF Renumbered
<1>6. ASSUME NEW s \in Registered(m) PROVE Knows(m, s, B[m.peers[s].address])
  <2>1. s \in Registered(n) /\ q[s] = s
    BY <1>4, <1>6
  <2>2. /\ m.peers[s].address = n.peers[s].address
        /\ m.peers[s].content_hash = n.peers[s].content_hash
    BY <1>1, <1>3, <1>4, <1>6, <2>1, RenumberedPeers
  <2>3. Linked(m, "provider", s) \subseteq Linked(n, "provider", s)
    BY <1>5 DEF Linked, Side
  <2>4. m.peers[s].address \in Known(m) /\ m.peers[s].address \in Address
    BY <1>6, <2>1, <2>2 DEF Known
  <2>5. Knows(n, s, A[n.peers[s].address])
    BY <2>1 DEF Informed
  <2> QED
    BY <2>2, <2>3, <2>4, <2>5 DEF Knows
<1>7. \A a \in Address \ Known(m) : B[a] = {}
  OBVIOUS
<1> QED
  BY <1>6, <1>7 DEF Informed

(* The invariant behind SubscribersOnly.                                   *)
InformInv == ~moved => Informed(node, asked)

(* The invariant implies the property.                                     *)
LEMMA InformInvIsSubscribersOnly ==
    ASSUME node \in Node, CountInv, InformInv
    PROVE  SubscribersOnly
<1> SUFFICES ASSUME ~moved, NEW r \in Resource, NEW s \in node.links["provider"][r]
             PROVE  ResourceHash[r] \in asked[node.peers[s].address]
  BY DEF SubscribersOnly
<1>1. r \in Linked(node, "provider", s) /\ s \in Slot
  BY DEF Linked, Node, Side
<1>2. s \in Registered(node)
  BY <1>1 DEF CountInv, Counted, Side
<1> QED
  BY <1>1, <1>2 DEF InformInv, Informed, Knows

(* Every step keeps it.                                                    *)
LEMMA InformStep ==
    ASSUME ChecksumsDistinct, IndInv, Addressed, CountInv, InformInv, [Next]_vars, IndInv'
    PROVE  InformInv'
<1>1. /\ node \in Node /\ node' \in Node /\ Unique(node) /\ now \in Nat
      /\ asked \in [Address -> SUBSET Hash]
      /\ moved \in BOOLEAN /\ moved' \in BOOLEAN
  BY ClockAssumption DEF IndInv, TypeOK, UniquePeers, Unique
<1>2. ASSUME SameOccupants(node, node'), SameLinks(node, node'), moved' = moved, asked' = asked
      PROVE  InformInv'
  BY <1>1, <1>2, SameLinksInformed DEF InformInv, SameOccupants
<1>3. ASSUME NEW side \in Side, NEW r \in Resource, AddEndpoint(side, r)
      PROVE  InformInv'
  <2>1. /\ SameLinks(node, node') /\ node'.num_peers = node.num_peers
        /\ \A s \in Slot : node'.peers[s].address = node.peers[s].address
    BY <1>1, <1>3 DEF AddEndpoint, uccn_add_endpoint, SameLinks, Node
  <2> QED
    BY <1>1, <1>3, <2>1, SameLinksInformed DEF AddEndpoint, InformInv
<1>4. ASSUME NEW r \in Resource, BeginPost(r) PROVE InformInv'
  BY <1>4 DEF BeginPost, InformInv
<1>5. ASSUME NEW r \in Resource, NEW reached \in SUBSET Slot, Post(r, reached)
      PROVE  InformInv'
  BY <1>1, <1>2, <1>5, PostType DEF Post
<1>6. ASSUME NEW r \in Resource, PostFailed(r) PROVE InformInv'
  BY <1>1, <1>2, <1>6, PostFailedType, SameTableOccupants DEF PostFailed
<1>7. ASSUME NEW a \in Address, NEW p \in Incoming, NEW blob, Receive(a, p, blob)
      PROVE  InformInv'
  <2>1. p \in Packet
    BY <1>7, IncomingPackets
  <2>2. /\ node' = uccn_process_incoming(node, a, p, blob, now).node
        /\ asked' = [asked EXCEPT ![a] = Asked(a, p)] /\ moved' = moved
    BY <1>7 DEF Receive
  <2>3. CASE node.num_peers = MaxPeers
    <3>1. node' = node
      BY <1>1, <2>1, <2>2, <2>3, IncomingEffect
    <3>2. asked' = asked
      BY <1>1, <2>2, <2>3, BoundAssumption DEF Asked
    <3> QED
      BY <2>2, <3>1, <3>2 DEF InformInv
  <2>4. CASE node.num_peers # MaxPeers
    <3>1. Asked(a, p) = AskedAfter(asked[a], p)
      <4>1. node.num_peers < MaxPeers
        <5>1. node.num_peers \in 0 .. MaxPeers
          BY <1>1 DEF Node
        <5> QED
          BY <2>4, <5>1, BoundAssumption
      <4> QED
        BY <4>1 DEF Asked, AskedAfter
    <3> QED
      BY <1>1, <2>1, <2>2, <2>4, <3>1, IncomingInformed DEF InformInv, CountInv, Addressed
  <2> QED
    BY <2>3, <2>4
<1>8. ASSUME NEW reached \in SUBSET Slot, AssertLiveliness(reached) PROVE InformInv'
  BY <1>1, <1>2, <1>8, AssertLivelinessType DEF AssertLiveliness
<1>9. CASE DiscoverPeers
  BY <1>1, <1>2, <1>9, DiscoverType, SameTableOccupants DEF DiscoverPeers
<1>10. CASE ProbeEndpoints
  <2>1. /\ node' \in uccn_probe_endpoints(node, now)
        /\ ~moved' => ~moved /\ ~Moves(node, node')
        /\ asked' = [a \in Address |-> IF a \in Known(node') THEN asked[a] ELSE {}]
    BY <1>10 DEF ProbeEndpoints
  <2> QED
    BY <1>1, <2>1, ProbeInformed DEF InformInv, Addressed
<1>11. CASE Tick
  BY <1>11 DEF Tick, InformInv
<1>12. CASE UNCHANGED vars
  BY <1>12 DEF vars, InformInv
<1> QED
  BY <1>3, <1>4, <1>5, <1>6, <1>7, <1>8, <1>9, <1>10, <1>11, <1>12 DEF Next

(* Where checksums tell arrays apart, a provider is linked only to peers   *)
(* whose last tracked array lists it, until a probe moves a peer.          *)
THEOREM OnlySubscribersLinked ==
    ASSUME ChecksumsDistinct
    PROVE  Spec => []SubscribersOnly
<1>1. Init => InformInv
  <2> SUFFICES ASSUME Init PROVE Informed(node, asked)
    BY DEF InformInv
  <2>1. Registered(node) = {}
    BY DEF Init, uccn_node_init, Registered
  <2> QED
    BY <2>1 DEF Init, Informed
<1>2. IndInv /\ IndInv' /\ Addressed /\ CountInv /\ InformInv /\ [Next]_vars => InformInv'
  BY InformStep
<1>3. IndInv /\ CountInv /\ InformInv => SubscribersOnly
  BY InformInvIsSubscribersOnly DEF IndInv, TypeOK
<1> QED
  BY <1>1, <1>2, <1>3, Invariance, CountInvariance, AddressedInvariance, PTL DEF Spec

=============================================================================
