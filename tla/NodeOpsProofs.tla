--------------------------- MODULE NodeOpsProofs ---------------------------
(***************************************************************************)
(* What the operators of NodeOps do to a node, for any number of           *)
(* addresses, resources and slots and any checksum: the lemmas that the    *)
(* theorems about one node, a spinning node and a network share.           *)
(***************************************************************************)
EXTENDS NodeOps, FiniteSetTheorems, FunctionTheorems, WellFoundedInduction, TLAPS

(* The operators that serve a registered peer keep the table's occupants,  *)
(* their deadlines and the endpoints of the node.                          *)
SameTable(n, m) ==
    /\ m.num_peers = n.num_peers
    /\ m.endpoints = n.endpoints
    /\ \A s \in Slot :
          /\ m.peers[s].address = n.peers[s].address
          /\ m.peers[s].next_remote_deadline = n.peers[s].next_remote_deadline
          /\ m.peers[s].next_local_deadline = n.peers[s].next_local_deadline

(* The ones that send move the local deadlines of the peers they send to.  *)
SameOccupants(n, m) ==
    /\ m.num_peers = n.num_peers
    /\ m.endpoints = n.endpoints
    /\ \A s \in Slot :
          /\ m.peers[s].address = n.peers[s].address
          /\ m.peers[s].next_remote_deadline = n.peers[s].next_remote_deadline

(* The operators that only send keep the links, their counts and the       *)
(* checksums.                                                              *)
SameLinks(n, m) ==
    /\ m.links = n.links
    /\ \A s \in Slot :
          /\ m.peers[s].num_links = n.peers[s].num_links
          /\ m.peers[s].content_hash = n.peers[s].content_hash

(* Packets the model builds are packets.                                   *)
LEMMA PacketTypes ==
    /\ None \in Packet
    /\ Keepalive \in Packet
    /\ Plain("truncated") \in Packet
    /\ Plain("header") \in Packet
    /\ \A h \in Hash : Content(h) \in Packet
    /\ \A arrays \in Arrays : Link(arrays) \in Packet
<1>1. NoArrays \in Arrays
  <2>1. NoArrays \in [{} -> SUBSET Hash]
    BY DEF NoArrays
  <2> QED
    BY <2>1 DEF Arrays
<1> QED
  BY <1>1 DEF Packet, Kind, None, Keepalive, Plain, Content, Link

(* What peers send are packets.                                            *)
LEMMA IncomingPackets == Incoming \subseteq Packet
<1>1. ASSUME NEW side \in Side, NEW H \in SUBSET Hash
      PROVE  [d \in {side} |-> H] \in Arrays
  <2>1. [d \in {side} |-> H] \in [{side} -> SUBSET Hash] /\ {side} \in SUBSET Side
    OBVIOUS
  <2> QED
    BY <2>1 DEF Arrays
<1>2. "tracker" \in Side /\ "provider" \in Side
  BY DEF Side
<1> QED
  BY <1>1, <1>2, PacketTypes DEF Incoming

(* A peer that uccn_register_peer writes is well formed.                   *)
LEMMA NewPeerType ==
    ASSUME NEW a \in Address \cup {NoAddress}, NEW d \in Nat, NEW b \in BOOLEAN
    PROVE  NewPeer(a, d, b) \in Peer
<1>1. 0 \in 0 .. SizeMod - 1
  BY BoundAssumption
<1>2. [side \in Side |-> 0] \in [Side -> Nat]
  OBVIOUS
<1> QED
  BY <1>1, <1>2 DEF NewPeer, Peer

(* Every resource has a hash, a natural number.                            *)
LEMMA HashOfResource ==
    \A r \in Resource : ResourceHash[r] \in Hash /\ ResourceHash[r] \in Nat
BY ResourceAssumption DEF Hash

(* A node is well formed when uccn_node_init returns.                      *)
LEMMA InitType == uccn_node_init \in Node
<1>1. NewPeer(NoAddress, 0, FALSE) \in Peer
  BY NewPeerType
<1>2. 0 \in 0 .. MaxPeers
  BY BoundAssumption
<1> QED
  BY <1>1, <1>2, PacketTypes DEF uccn_node_init, Node, Slot

(* uccn_track and uccn_advertise keep the node well formed.                *)
LEMMA AddEndpointType ==
    ASSUME NEW n \in Node, NEW side \in Side, NEW r \in Resource
    PROVE  uccn_add_endpoint(n, side, r) \in Node
BY DEF uccn_add_endpoint, Node

(* size_t arithmetic stays in its range.                                   *)
LEMMA SizeRange ==
    ASSUME NEW i \in Int
    PROVE  i % SizeMod \in 0 .. SizeMod - 1
BY BoundAssumption

(* A node whose table, links and outgoing buffer are replaced by others of *)
(* their types is a node.                                                  *)
LEMMA UpdateType ==
    ASSUME NEW n \in Node,
           NEW P \in [Slot -> Peer],
           NEW L \in [Side -> [Resource -> SUBSET Slot]],
           NEW o \in Packet
    PROVE  [n EXCEPT !.links = L, !.peers = P, !.outgoing = o] \in Node
BY DEF Node

(* uccn_link stays within its lists, and leaves the table alone.           *)
LEMMA LinkType ==
    ASSUME NEW n \in Node, NEW side \in Side, NEW r \in Resource, NEW s \in Slot
    PROVE  /\ uccn_link(n, side, r, s).node \in Node
           /\ SameTable(n, uccn_link(n, side, r, s).node)
           /\ uccn_link(n, side, r, s).node.outgoing = n.outgoing
<1> DEFINE num == (n.peers[s].num_links + 1) % SizeMod
           peer == [n.peers[s] EXCEPT !.num_links = num]
           P == [n.peers EXCEPT ![s] = peer]
           L == [n.links EXCEPT ![side][r] = @ \cup {s}]
           m == [n EXCEPT !.links[side][r] = @ \cup {s},
                          !.peers[s].num_links = (@ + 1) % SizeMod]
<1>1. n.peers[s] \in Peer
  BY DEF Node
<1>2. num \in 0 .. SizeMod - 1
  BY <1>1, SizeRange DEF Peer
<1>3. /\ peer \in Peer /\ peer.address = n.peers[s].address
      /\ peer.next_remote_deadline = n.peers[s].next_remote_deadline
      /\ peer.next_local_deadline = n.peers[s].next_local_deadline
  BY <1>1, <1>2 DEF Peer
<1>4. P \in [Slot -> Peer]
  BY <1>3 DEF Node
<1>5. L \in [Side -> [Resource -> SUBSET Slot]]
  <2>1. n.links[side] \in [Resource -> SUBSET Slot]
    BY DEF Node
  <2>2. [n.links[side] EXCEPT ![r] = @ \cup {s}] \in [Resource -> SUBSET Slot]
    BY <2>1
  <2> QED
    BY <2>2 DEF Node
<1>6. m = [n EXCEPT !.links = L, !.peers = P]
  BY DEF Node, Peer
<1> HIDE DEF m, P, L, peer
<1>7. m \in Node /\ m.outgoing = n.outgoing
  BY <1>4, <1>5, <1>6 DEF Node
<1>8. SameTable(n, m)
  BY <1>3, <1>6 DEF Node, SameTable, P
<1> QED
  BY <1>7, <1>8 DEF uccn_link, SameTable, m

(* Any new lists of one side and any new count of a peer.                  *)
LEMMA SetLinksType ==
    ASSUME NEW n \in Node, NEW side \in Side, NEW s \in Slot,
           NEW lists \in [Resource -> SUBSET Slot], NEW num \in Int
    PROVE  /\ SetLinks(n, side, s, lists, num) \in Node
           /\ SameTable(n, SetLinks(n, side, s, lists, num))
           /\ SetLinks(n, side, s, lists, num).outgoing = n.outgoing
<1> DEFINE peer == [n.peers[s] EXCEPT !.num_links = num % SizeMod]
           P == [n.peers EXCEPT ![s] = peer]
           L == [n.links EXCEPT ![side] = lists]
           m == SetLinks(n, side, s, lists, num)
<1>1. n.peers[s] \in Peer
  BY DEF Node
<1>2. /\ peer \in Peer /\ peer.address = n.peers[s].address
      /\ peer.next_remote_deadline = n.peers[s].next_remote_deadline
      /\ peer.next_local_deadline = n.peers[s].next_local_deadline
  BY <1>1, SizeRange DEF Peer
<1>3. P \in [Slot -> Peer]
  BY <1>2 DEF Node
<1>4. L \in [Side -> [Resource -> SUBSET Slot]]
  BY DEF Node
<1>5. m = [n EXCEPT !.links = L, !.peers = P]
  BY DEF Node, Peer, SetLinks
<1> HIDE DEF m, P, L, peer
<1>6. m \in Node /\ m.outgoing = n.outgoing
  BY <1>3, <1>4, <1>5 DEF Node
<1>7. SameTable(n, m)
  BY <1>2, <1>5 DEF Node, SameTable, P
<1> QED
  BY <1>6, <1>7 DEF m

(* uccn_unlink_trackers and uccn_unlink_providers do not change it either. *)
LEMMA UnlinkAllType ==
    ASSUME NEW n \in Node, NEW side \in Side, NEW s \in Slot
    PROVE  /\ uccn_unlink_all(n, side, s) \in Node
           /\ SameTable(n, uccn_unlink_all(n, side, s))
           /\ uccn_unlink_all(n, side, s).outgoing = n.outgoing
<1> DEFINE cut == {r \in Resource : s \in n.links[side][r]}
           lists == [r \in Resource |-> n.links[side][r] \ {s}]
           num == n.peers[s].num_links - Cardinality(cut)
<1>1. lists \in [Resource -> SUBSET Slot]
  BY DEF Node
<1>2. Cardinality(cut) \in Nat
  BY FS_Subset, FS_CardinalityType, ResourceAssumption
<1>3. n.peers[s].num_links \in Int
  BY DEF Node, Peer
<1>4. num \in Int
  <2> HIDE DEF cut
  <2> QED
    BY <1>2, <1>3
<1>5. uccn_unlink_all(n, side, s) = SetLinks(n, side, s, lists, num)
  BY DEF uccn_unlink_all
<1> HIDE DEF lists, num
<1> QED
  BY <1>1, <1>4, <1>5, SetLinksType

(* Nor do uccn_link_trackers and uccn_link_providers, for any hashes.      *)
LEMMA LinkAllType ==
    ASSUME NEW n \in Node, NEW side \in Side, NEW s \in Slot, NEW H
    PROVE  /\ uccn_link_all(n, side, s, H) \in Node
           /\ SameTable(n, uccn_link_all(n, side, s, H))
           /\ uccn_link_all(n, side, s, H).outgoing = n.outgoing
<1> DEFINE new == Matching(n, side, H)
           lists == [r \in Resource |-> IF r \in new THEN n.links[side][r] \cup {s}
                                                     ELSE n.links[side][r]]
           num == n.peers[s].num_links + Cardinality(new)
<1>1. lists \in [Resource -> SUBSET Slot]
  BY DEF Node
<1>2. new \subseteq Resource
  BY DEF Node, Matching
<1>3. Cardinality(new) \in Nat
  BY <1>2, FS_Subset, FS_CardinalityType, ResourceAssumption
<1>4. n.peers[s].num_links \in Int
  BY DEF Node, Peer
<1>5. num \in Int
  <2> HIDE DEF new
  <2> QED
    BY <1>3, <1>4
<1>6. uccn_link_all(n, side, s, H) = SetLinks(n, side, s, lists, num)
  BY DEF uccn_link_all
<1> HIDE DEF lists, num
<1> QED
  BY <1>1, <1>5, <1>6, SetLinksType

(* The list of a resource from which s has been removed has room for s:    *)
(* uccn_process_link_group never meets the "Too many peers" of uccn_link.  *)
LEMMA LinkNeverFull ==
    ASSUME NEW n \in Node, NEW side \in Side, NEW r \in Resource, NEW s \in Slot
    PROVE  Cardinality(uccn_unlink_all(n, side, s).links[side][r]) < MaxPeers
<1> DEFINE list == n.links[side][r]
<1>1. uccn_unlink_all(n, side, s).links[side][r] = list \ {s}
  BY DEF uccn_unlink_all, SetLinks, Node
<1>2. IsFiniteSet(Slot) /\ Cardinality(Slot) = MaxPeers
  BY FS_Interval, BoundAssumption DEF Slot
<1>3. /\ IsFiniteSet(Slot \ {s})
      /\ Cardinality(Slot \ {s}) = MaxPeers - 1
  BY <1>2, FS_RemoveElement
<1>4. list \ {s} \subseteq Slot \ {s}
  BY DEF Node
<1>5. Cardinality(list \ {s}) <= Cardinality(Slot \ {s})
  BY <1>3, <1>4, FS_Subset
<1>6. Cardinality(list \ {s}) \in Nat
  BY <1>3, <1>4, FS_Subset, FS_CardinalityType
<1> QED
  BY <1>1, <1>3, <1>5, <1>6, BoundAssumption

(* Nor does the processing of one array of a link group.                   *)
LEMMA ProcessArrayType ==
    ASSUME NEW n \in Node, NEW s \in Slot, NEW remote \in Side,
           NEW H \in SUBSET Hash
    PROVE  /\ ProcessArray(n, s, remote, H).node \in Node
           /\ SameTable(n, ProcessArray(n, s, remote, H).node)
           /\ ProcessArray(n, s, remote, H).node.outgoing = n.outgoing
           /\ ProcessArray(n, s, remote, H).linked \in SUBSET Hash
<1> DEFINE local == Other(remote)
           u == uccn_unlink_all(n, local, s)
           l == uccn_link_all(u, local, s, H)
           peer == [l.peers[s] EXCEPT !.content_hash[remote] = Crc32(H)]
           P == [l.peers EXCEPT ![s] = peer]
           m == [l EXCEPT !.peers[s].content_hash[remote] = Crc32(H)]
           linked == {ResourceHash[r] : r \in Matching(n, local, H)}
<1>1. local \in Side
  BY DEF Side, Other
<1>2. u \in Node /\ SameTable(n, u) /\ u.outgoing = n.outgoing
  BY <1>1, UnlinkAllType
<1>3. l \in Node /\ SameTable(u, l) /\ l.outgoing = u.outgoing
  <2> HIDE DEF u, local
  <2> QED
    BY <1>1, <1>2, LinkAllType
<1>4. SameTable(n, l) /\ l.outgoing = n.outgoing
  BY <1>2, <1>3 DEF SameTable
<1> HIDE DEF l
<1>5. l.peers[s] \in Peer
  BY <1>3 DEF Node
<1>6. Crc32(H) \in Nat
  BY Crc32Assumption
<1>7. /\ peer \in Peer /\ peer.address = l.peers[s].address
      /\ peer.next_remote_deadline = l.peers[s].next_remote_deadline
      /\ peer.next_local_deadline = l.peers[s].next_local_deadline
  BY <1>5, <1>6 DEF Peer
<1>8. P \in [Slot -> Peer]
  BY <1>3, <1>7 DEF Node
<1>9. m = [l EXCEPT !.peers = P]
  BY <1>3 DEF Node, Peer
<1>10. linked \in SUBSET Hash
  BY <1>1, HashOfResource DEF Matching, Node
<1> HIDE DEF P, peer, m, linked
<1>11. m \in Node /\ m.outgoing = l.outgoing
  BY <1>3, <1>8, <1>9 DEF Node
<1>12. SameTable(n, m)
  BY <1>3, <1>4, <1>7, <1>9 DEF SameTable, Node, P
<1>13. ProcessArray(n, s, remote, H)
         = IF n.peers[s].content_hash[remote] = Crc32(H)
           THEN [node |-> n, linked |-> {}]
           ELSE [node |-> m, linked |-> linked]
  BY DEF ProcessArray, m, l, linked
<1>14. SameTable(n, n)
  BY DEF SameTable
<1> QED
  BY <1>4, <1>10, <1>11, <1>12, <1>13, <1>14

(* Filling the outgoing buffer.                                            *)
LEMMA OutgoingType ==
    ASSUME NEW n \in Node, NEW o \in Packet
    PROVE  /\ [n EXCEPT !.outgoing = o] \in Node
           /\ SameTable(n, [n EXCEPT !.outgoing = o])
           /\ SameLinks(n, [n EXCEPT !.outgoing = o])
BY DEF Node, SameTable, SameLinks

(* uccn_process_link_group keeps the node well formed and the table as it  *)
(* is, whatever arrays arrive.                                             *)
LEMMA LinkGroupType ==
    ASSUME NEW n \in Node, NEW s \in Slot, NEW arrays \in Arrays
    PROVE  /\ uccn_process_link_group(n, s, arrays).node \in Node
           /\ SameTable(n, uccn_process_link_group(n, s, arrays).node)
<1> DEFINE Has(side) == side \in DOMAIN arrays
           tracked == IF Has("tracker") THEN arrays["tracker"] ELSE {}
           hashes == IF Has("provider") THEN tracked \cup arrays["provider"]
                                        ELSE tracked
           first == IF Has("tracker") THEN ProcessArray(n, s, "tracker", tracked)
                    ELSE [node |-> n, linked |-> {}]
           second == IF Has("provider")
                     THEN ProcessArray(first.node, s, "provider", hashes)
                     ELSE [node |-> first.node, linked |-> {}]
           linked == [side \in Side |->
                          IF side = "provider" THEN first.linked ELSE second.linked]
           answered == {side \in Side : linked[side] # {}}
           reply == IF answered = {} THEN None
                    ELSE Link([side \in answered |-> linked[side]])
<1>1. PICK D \in SUBSET Side : arrays \in [D -> SUBSET Hash]
  BY DEF Arrays
<1>2. tracked \in SUBSET Hash /\ hashes \in SUBSET Hash
  BY <1>1
<1> HIDE DEF tracked, hashes
<1>3. SameTable(n, n)
  BY DEF SameTable
<1>4. /\ first.node \in Node
      /\ SameTable(n, first.node)
      /\ first.linked \in SUBSET Hash
  BY <1>2, <1>3, ProcessArrayType DEF Side
<1> HIDE DEF first
<1>5. /\ second.node \in Node
      /\ SameTable(first.node, second.node)
      /\ second.linked \in SUBSET Hash
  BY <1>2, <1>4, ProcessArrayType DEF Side, SameTable
<1> HIDE DEF second
<1>6. SameTable(n, second.node)
  BY <1>4, <1>5 DEF SameTable
<1>7. linked \in [Side -> SUBSET Hash]
  BY <1>4, <1>5
<1> HIDE DEF linked
<1>8. [side \in answered |-> linked[side]] \in [answered -> SUBSET Hash]
  BY <1>7
<1>9. answered \in SUBSET Side
  OBVIOUS
<1>10. [side \in answered |-> linked[side]] \in Arrays
  BY <1>8, <1>9 DEF Arrays
<1>11. reply \in Packet
  BY <1>10, PacketTypes
<1> HIDE DEF reply
<1> DEFINE m1 == [n EXCEPT !.outgoing = None]
           m2 == [first.node EXCEPT !.outgoing = None]
           m3 == [second.node EXCEPT !.outgoing = reply]
<1>12. m1 \in Node /\ SameTable(n, m1)
  BY PacketTypes, OutgoingType
<1>13. m2 \in Node /\ SameTable(n, m2)
  BY <1>4, PacketTypes, OutgoingType DEF SameTable
<1>14. m3 \in Node /\ SameTable(n, m3)
  BY <1>5, <1>6, <1>11, OutgoingType DEF SameTable
<1> HIDE DEF m1, m2, m3
<1>15. uccn_process_link_group(n, s, arrays)
         = IF 0 \in tracked THEN [ret |-> -1, node |-> m1]
           ELSE IF 0 \in hashes THEN [ret |-> -1, node |-> m2]
           ELSE [ret |-> 0, node |-> m3]
  BY DEF uccn_process_link_group, m1, m2, m3, reply, linked, second, first,
         hashes, tracked
<1> QED
  BY <1>12, <1>13, <1>14, <1>15

(* uccn_process_content_group does, for a hash it knows or not.            *)
LEMMA ContentGroupType ==
    ASSUME NEW n \in Node, NEW s \in Slot, NEW hash, NEW blob
    PROVE  /\ uccn_process_content_group(n, s, hash, blob).node \in Node
           /\ SameTable(n, uccn_process_content_group(n, s, hash, blob).node)
<1> DEFINE takers == Matching(n, "tracker", {hash})
           taker == CHOOSE r \in takers : TRUE
           m == [n EXCEPT !.outgoing = None]
           linked == uccn_link(m, "tracker", taker, s)
<1>1. m \in Node /\ SameTable(n, m)
  BY PacketTypes, OutgoingType
<1> HIDE DEF m
<1>2. takers \subseteq Resource
  BY DEF Matching, Node, Side
<1> HIDE DEF takers
<1>3. ASSUME takers # {}
      PROVE  linked.node \in Node /\ SameTable(n, linked.node)
  <2>1. taker \in Resource
    BY <1>2, <1>3
  <2> HIDE DEF taker
  <2>2. linked.node \in Node /\ SameTable(m, linked.node)
    BY <1>1, <2>1, LinkType DEF Side
  <2> HIDE DEF linked
  <2> QED
    BY <1>1, <2>2 DEF SameTable
<1> HIDE DEF linked
<1>4. uccn_process_content_group(n, s, hash, blob)
        = IF hash = 0 \/ blob = "empty" \/ (takers # {} /\ blob = "bad")
          THEN [ret |-> -1, node |-> m]
          ELSE IF takers = {} THEN [ret |-> 0, node |-> m]
          ELSE linked
  BY DEF uccn_process_content_group, m, linked, takers
<1> QED
  BY <1>1, <1>3, <1>4

(* uccn_process_packet does, for every packet.                             *)
LEMMA ProcessPacketType ==
    ASSUME NEW n \in Node, NEW s \in Slot, NEW p \in Packet, NEW blob
    PROVE  /\ uccn_process_packet(n, s, p, blob).node \in Node
           /\ SameTable(n, uccn_process_packet(n, s, p, blob).node)
<1>1. SameTable(n, n)
  BY DEF SameTable
<1>2. [n EXCEPT !.outgoing = None] \in Node
      /\ SameTable(n, [n EXCEPT !.outgoing = None])
  BY PacketTypes, OutgoingType
<1>3. CASE p.kind = "link"
  <2>1. p.arrays \in Arrays
    BY DEF Packet
  <2>2. uccn_process_packet(n, s, p, blob) = uccn_process_link_group(n, s, p.arrays)
    BY <1>3 DEF uccn_process_packet
  <2> QED
    BY <2>1, <2>2, LinkGroupType
<1>4. CASE p.kind = "content"
  <2>1. uccn_process_packet(n, s, p, blob)
          = uccn_process_content_group(n, s, p.hash, blob)
    BY <1>4 DEF uccn_process_packet
  <2> QED
    BY <2>1, ContentGroupType
<1>5. CASE p.kind = "truncated"
  BY <1>2, <1>5 DEF uccn_process_packet
<1>6. CASE p.kind \notin {"link", "content", "truncated"}
  BY <1>1, <1>6 DEF uccn_process_packet
<1> QED
  BY <1>3, <1>4, <1>5, <1>6

-----------------------------------------------------------------------------
(* UniquePeers of any node.                                                *)
Unique(n) ==
    \A s, t \in Registered(n) : n.peers[s].address = n.peers[t].address => s = t

(* The registered peers are in the table.                                  *)
LEMMA SlotsRegistered ==
    ASSUME NEW n \in Node
    PROVE  Registered(n) \subseteq Slot /\ Slot \subseteq Nat \ {0}
BY BoundAssumption DEF Registered, Slot, Node

(* A table that is unchanged has the same occupants.                       *)
LEMMA SameTableOccupants ==
    ASSUME NEW n, NEW m, SameTable(n, m)
    PROVE  SameOccupants(n, m)
BY DEF SameTable, SameOccupants

(* The addresses of the same occupants stay distinct.                      *)
LEMMA SameOccupantsUnique ==
    ASSUME NEW n \in Node, NEW m \in Node, Unique(n), SameOccupants(n, m)
    PROVE  Unique(m)
BY SlotsRegistered DEF Unique, SameOccupants, Registered

(* A non-empty set of slots has a first one.                               *)
LEMMA FirstExists ==
    ASSUME NEW T \in SUBSET Nat, T # {}
    PROVE  \E s \in T : \A t \in T : s <= t
<1> DEFINE R == OpToRel(<, Nat)
<1>1. PICK s \in T : \A t \in T : ~ (<<t, s>> \in R)
  <2> HIDE DEF R
  <2>1. IsWellFoundedOn(R, Nat)
    BY NatLessThanWellFounded DEF R
  <2> QED
    BY <2>1, WFMin
<1>2. ASSUME NEW t \in T, t < s PROVE FALSE
  <2>1. <<t, s>> \in R
    BY <1>2 DEF OpToRel
  <2> QED
    BY <1>1, <2>1
<1> QED
  BY <1>2

(* Registering an address: m is n with a in slot.                          *)
Registers(n, m, slot, a, deadline) ==
    /\ slot \in Slot
    /\ slot \in Registered(m)
    /\ m.endpoints = n.endpoints
    /\ m.links = n.links
    /\ \A s \in Slot \ {slot} : m.peers[s] = n.peers[s]
    /\ m.peers[slot].address = a
    /\ m.peers[slot].next_remote_deadline = deadline
    /\ \/ /\ slot \in Registered(n)
          /\ m.num_peers = n.num_peers
          /\ n.peers[slot].address = a
          /\ m.peers[slot].next_local_deadline = n.peers[slot].next_local_deadline
          /\ m.peers[slot].num_links = n.peers[slot].num_links
          /\ m.peers[slot].content_hash = n.peers[slot].content_hash
       \/ /\ slot = n.num_peers + 1
          /\ m.num_peers = slot
          /\ \A s \in Registered(n) : n.peers[s].address # a
          /\ m.peers[slot].next_local_deadline = 0
          /\ m.peers[slot].num_links = 0
          /\ m.peers[slot].content_hash = [side \in Side |-> 0]

(* uccn_register_peer refuses everything when the table is full, and else  *)
(* finds or appends the address and renews its remote deadline.            *)
LEMMA RegisterEffect ==
    ASSUME NEW n \in Node, NEW a \in Address, NEW now_ \in Nat
    PROVE  LET result == uccn_register_peer(n, a, now_)
           IN  /\ result.node \in Node
               /\ n.num_peers = MaxPeers => result = [slot |-> 0, node |-> n]
               /\ n.num_peers # MaxPeers =>
                     Registers(n, result.node, result.slot, a, now_ + LivelinessTimeout)
<1> DEFINE known == {s \in Registered(n) : n.peers[s].address = a}
           slot == IF known = {} THEN n.num_peers + 1
                   ELSE CHOOSE s \in known : \A t \in known : s <= t
           deadline == now_ + LivelinessTimeout
           result == uccn_register_peer(n, a, now_)
           old == [n EXCEPT !.peers[slot].next_remote_deadline = deadline]
           new == [n EXCEPT !.num_peers = slot,
                            !.peers[slot] = NewPeer(a, deadline, TRUE)]
<1>1. deadline \in Nat
  BY TimeoutAssumption
<1> HIDE DEF deadline
<1>2. result = IF n.num_peers >= MaxPeers THEN [slot |-> 0, node |-> n]
               ELSE IF known # {} THEN [slot |-> slot, node |-> old]
               ELSE [slot |-> slot, node |-> new]
  BY DEF uccn_register_peer, deadline
<1>3. n.num_peers \in 0 .. MaxPeers /\ n.num_peers \in Nat
  BY BoundAssumption DEF Node
<1>4. CASE n.num_peers = MaxPeers
  <2> HIDE DEF result, known, slot, old, new
  <2>1. n.num_peers >= MaxPeers
    BY <1>4, BoundAssumption
  <2>2. result = [slot |-> 0, node |-> n]
    BY <1>2, <2>1
  <2>3. result.node \in Node
    BY <2>2
  <2> QED
    BY <1>4, <2>2, <2>3 DEF result
<1>5. CASE n.num_peers # MaxPeers /\ known # {}
  <2>1. known \subseteq Nat /\ known \subseteq Slot
    BY SlotsRegistered
  <2>2. \E s \in known : \A t \in known : s <= t
    <3> HIDE DEF known
    <3> QED
      BY <1>5, <2>1, FirstExists
  <2>3. slot \in known
    <3> HIDE DEF known
    <3> QED
      BY <1>5, <2>1, <2>2
  <2> DEFINE peer == [n.peers[slot] EXCEPT !.next_remote_deadline = deadline]
             P == [n.peers EXCEPT ![slot] = peer]
  <2>4. /\ slot \in Slot /\ slot \in Registered(n) /\ n.peers[slot].address = a
        /\ n.peers[slot] \in Peer
    <3> HIDE DEF slot
    <3> QED
      BY <2>1, <2>3 DEF Node
  <2> HIDE DEF slot
  <2>5. /\ peer \in Peer /\ peer.address = n.peers[slot].address
        /\ peer.num_links = n.peers[slot].num_links
        /\ peer.content_hash = n.peers[slot].content_hash
        /\ peer.next_remote_deadline = deadline
        /\ peer.next_local_deadline = n.peers[slot].next_local_deadline
    BY <1>1, <2>4 DEF Peer
  <2>6. P \in [Slot -> Peer]
    BY <2>5 DEF Node
  <2>7. old = [n EXCEPT !.peers = P]
    BY DEF Node, Peer
  <2> HIDE DEF old, P, peer
  <2>8. /\ old \in Node /\ old.num_peers = n.num_peers /\ old.endpoints = n.endpoints
        /\ old.links = n.links /\ old.peers = P
    BY <2>6, <2>7 DEF Node
  <2>9. P[slot] = peer /\ \A s \in Slot \ {slot} : P[s] = n.peers[s]
    BY <2>4 DEF P, Node
  <2>10. Registers(n, old, slot, a, deadline)
    BY <2>4, <2>5, <2>8, <2>9 DEF Registers, Registered
  <2>11. result.node = old /\ result.slot = slot
    BY <1>2, <1>3, <1>5, BoundAssumption
  <2> QED
    BY <1>5, <2>8, <2>10, <2>11 DEF deadline
<1>6. CASE n.num_peers # MaxPeers /\ known = {}
  <2>1. slot = n.num_peers + 1 /\ slot \in Slot /\ slot \in 0 .. MaxPeers
    BY <1>3, <1>6, BoundAssumption DEF Slot
  <2> HIDE DEF slot
  <2> DEFINE peer == NewPeer(a, deadline, TRUE)
             P == [n.peers EXCEPT ![slot] = peer]
  <2>2. /\ peer \in Peer /\ peer.address = a /\ peer.num_links = 0
        /\ peer.next_remote_deadline = deadline
        /\ peer.next_local_deadline = 0
        /\ peer.content_hash = [side \in Side |-> 0]
    BY <1>1, NewPeerType DEF NewPeer
  <2>3. new = [n EXCEPT !.num_peers = slot, !.peers = P]
    OBVIOUS
  <2>4. P \in [Slot -> Peer] /\ P[slot] = peer /\ \A s \in Slot \ {slot} : P[s] = n.peers[s]
    BY <2>1, <2>2 DEF Node
  <2> HIDE DEF new, P, peer
  <2>5. /\ new \in Node /\ new.num_peers = slot /\ new.endpoints = n.endpoints
        /\ new.links = n.links /\ new.peers = P
    BY <2>1, <2>3, <2>4 DEF Node
  <2>6. \A s \in Registered(n) : n.peers[s].address # a
    BY <1>6
  <2>7. slot \in Registered(new)
    BY <1>3, <2>1, <2>5 DEF Registered
  <2>8. Registers(n, new, slot, a, deadline)
    BY <2>1, <2>2, <2>4, <2>5, <2>6, <2>7 DEF Registers
  <2>9. result.node = new /\ result.slot = slot
    BY <1>2, <1>3, <1>6, BoundAssumption
  <2> QED
    BY <1>6, <2>5, <2>8, <2>9 DEF deadline
<1> QED
  BY <1>4, <1>5, <1>6

(* The slots of the table after registering.                               *)
LEMMA RegistersSlots ==
    ASSUME NEW n \in Node, NEW m \in Node, NEW slot, NEW a, NEW d,
           Registers(n, m, slot, a, d)
    PROVE  /\ Registered(m) = Registered(n) \cup {slot}
           /\ Registered(n) \subseteq Slot
           /\ slot \in Registered(n) => n.peers[slot].address = a
           /\ slot \notin Registered(n) => \A s \in Registered(n) : n.peers[s].address # a
<1>1. n.num_peers \in Nat
  BY BoundAssumption DEF Node
<1> QED
  BY <1>1, SlotsRegistered DEF Registers, Registered

(* A datagram: the sender is registered and its packet served, or the      *)
(* table is full and nothing happens.                                      *)
Serves(n, m, w, slot, a, p, blob, now_) ==
    /\ Registers(n, w, slot, a, now_ + LivelinessTimeout)
    /\ m = uccn_process_packet(w, slot, p, blob).node
    /\ SameTable(w, m)

(* A datagram is dropped when the table is full; else its sender is        *)
(* registered and then the packet is processed.                            *)
LEMMA IncomingEffect ==
    ASSUME NEW n \in Node, NEW a \in Address, NEW p \in Packet, NEW blob,
           NEW now_ \in Nat
    PROVE  LET m == uccn_process_incoming(n, a, p, blob, now_).node
           IN  /\ m \in Node
               /\ n.num_peers = MaxPeers => m = n
               /\ n.num_peers # MaxPeers =>
                     \E w \in Node, slot \in Slot : Serves(n, m, w, slot, a, p, blob, now_)
<1> DEFINE registered == uccn_register_peer(n, a, now_)
           processed == uccn_process_packet(registered.node, registered.slot, p, blob)
           m == uccn_process_incoming(n, a, p, blob, now_).node
<1>1. m = IF registered.slot = 0 THEN n ELSE processed.node
  BY DEF uccn_process_incoming
<1> HIDE DEF m
<1>2. CASE n.num_peers = MaxPeers
  BY <1>1, <1>2, RegisterEffect DEF m
<1>3. CASE n.num_peers # MaxPeers
  <2>1. /\ registered.node \in Node
        /\ Registers(n, registered.node, registered.slot, a, now_ + LivelinessTimeout)
    BY <1>3, RegisterEffect
  <2> HIDE DEF registered
  <2>2. registered.slot \in Slot
    BY <2>1 DEF Registers
  <2>3. processed.node \in Node /\ SameTable(registered.node, processed.node)
    BY <2>1, <2>2, ProcessPacketType
  <2>4. registered.slot # 0
    BY <2>2 DEF Slot
  <2>5. Serves(n, m, registered.node, registered.slot, a, p, blob, now_)
    BY <1>1, <2>1, <2>3, <2>4 DEF Serves
  <2>6. m \in Node
    BY <1>1, <2>3, <2>4
  <2> QED
    BY <1>3, <2>1, <2>2, <2>5, <2>6 DEF m
<1> QED
  BY <1>2, <1>3

(* Registration never lists an address twice.                              *)
LEMMA RegistersUnique ==
    ASSUME NEW n \in Node, NEW m \in Node, NEW slot, NEW a, NEW d,
           Registers(n, m, slot, a, d), Unique(n)
    PROVE  Unique(m)
<1>1. /\ Registered(m) = Registered(n) \cup {slot}
      /\ Registered(n) \subseteq Slot
      /\ slot \in Registered(n) => n.peers[slot].address = a
      /\ slot \notin Registered(n) => \A s \in Registered(n) : n.peers[s].address # a
  BY RegistersSlots
<1>2. m.peers[slot].address = a /\ \A s \in Slot \ {slot} : m.peers[s] = n.peers[s]
  BY DEF Registers
<1>3. \A s \in Registered(n) : m.peers[s].address = n.peers[s].address
  BY <1>1, <1>2
<1>4. ASSUME NEW s \in Registered(n), n.peers[s].address = a PROVE s = slot
  <2>1. slot \in Registered(n)
    BY <1>1, <1>4
  <2> QED
    BY <1>1, <1>4, <2>1 DEF Unique
<1> QED
  BY <1>1, <1>2, <1>3, <1>4 DEF Unique

(* uccn_process_incoming keeps the node well formed and its addresses      *)
(* distinct.                                                               *)
LEMMA ProcessIncoming ==
    ASSUME NEW n \in Node, NEW a \in Address, NEW p \in Packet, NEW blob,
           NEW now_ \in Nat
    PROVE  LET m == uccn_process_incoming(n, a, p, blob, now_).node
           IN  /\ m \in Node
               /\ m.endpoints = n.endpoints
               /\ Unique(n) => Unique(m)
<1> DEFINE m == uccn_process_incoming(n, a, p, blob, now_).node
<1>1. /\ m \in Node
      /\ n.num_peers = MaxPeers => m = n
      /\ n.num_peers # MaxPeers =>
            \E w \in Node, slot \in Slot : Serves(n, m, w, slot, a, p, blob, now_)
  BY IncomingEffect
<1> HIDE DEF m
<1>2. CASE n.num_peers = MaxPeers
  BY <1>1, <1>2 DEF m
<1>3. CASE n.num_peers # MaxPeers
  <2>1. PICK w \in Node, slot \in Slot : Serves(n, m, w, slot, a, p, blob, now_)
    BY <1>1, <1>3
  <2>2. Unique(n) => Unique(w)
    BY <2>1, RegistersUnique DEF Serves
  <2>3. Unique(w) => Unique(m)
    BY <1>1, <2>1, SameTableOccupants, SameOccupantsUnique DEF Serves
  <2>4. m.endpoints = n.endpoints
    BY <2>1 DEF Serves, SameTable, Registers
  <2> QED
    BY <1>1, <2>2, <2>3, <2>4 DEF m
<1> QED
  BY <1>2, <1>3

(* Sending: a post, keepalives and a discovery packet change deadlines and *)
(* the outgoing buffer only.                                               *)
LEMMA PostType ==
    ASSUME NEW n \in Node, NEW r \in Resource, NEW reached, NEW now_ \in Nat
    PROVE  /\ uccn_post(n, r, reached, now_) \in Node
           /\ SameOccupants(n, uccn_post(n, r, reached, now_))
           /\ SameLinks(n, uccn_post(n, r, reached, now_))
<1> DEFINE P == [s \in Slot |->
                  IF s \in reached
                  THEN [n.peers[s] EXCEPT
                            !.next_local_deadline = now_ + LivelinessAssertTimeout]
                  ELSE n.peers[s]]
           o == Content(ResourceHash[r])
           m == uccn_post(n, r, reached, now_)
<1>1. now_ + LivelinessAssertTimeout \in Nat
  BY TimeoutAssumption
<1>2. /\ P \in [Slot -> Peer]
      /\ \A s \in Slot :
            /\ P[s].address = n.peers[s].address
            /\ P[s].next_remote_deadline = n.peers[s].next_remote_deadline
            /\ P[s].num_links = n.peers[s].num_links
            /\ P[s].content_hash = n.peers[s].content_hash
  BY <1>1 DEF Node, Peer
<1>3. o \in Packet
  BY HashOfResource, PacketTypes
<1>4. m = [n EXCEPT !.outgoing = o, !.peers = P]
  BY DEF uccn_post
<1> HIDE DEF P, o, m
<1>5. m \in Node /\ SameOccupants(n, m) /\ SameLinks(n, m)
  BY <1>2, <1>3, <1>4 DEF Node, SameOccupants, SameLinks
<1> QED
  BY <1>5 DEF m

(* A post that fails half-way only leaves something in the buffer.         *)
LEMMA PostFailedType ==
    ASSUME NEW n \in Node, NEW r \in Resource,
           NEW m \in {PostPackFailed(n, r), PostTooBig(n)}
    PROVE  m \in Node /\ SameTable(n, m) /\ SameLinks(n, m)
<1> DEFINE o == CASE n.outgoing.kind = "content"   -> Content(ResourceHash[r])
                  [] n.outgoing.kind = "keepalive" -> Plain("header")
                  [] n.outgoing.kind = "link"      -> Plain("truncated")
                  [] OTHER                         -> n.outgoing
<1>1. n.outgoing \in Packet
  BY DEF Node
<1>2. o \in Packet
  BY <1>1, HashOfResource, PacketTypes
<1>3. PostPackFailed(n, r) = [n EXCEPT !.outgoing = o]
  BY DEF PostPackFailed
<1> HIDE DEF o
<1> QED
  BY <1>2, <1>3, PacketTypes, OutgoingType DEF PostTooBig

(* uccn_assert_liveliness changes nothing but local deadlines and the      *)
(* buffer, wherever its loop ends.                                         *)
LEMMA AssertLivelinessType ==
    ASSUME NEW n \in Node, NEW reached, NEW now_ \in Nat
    PROVE  /\ uccn_assert_liveliness(n, reached, now_) \in Node
           /\ SameOccupants(n, uccn_assert_liveliness(n, reached, now_))
           /\ SameLinks(n, uccn_assert_liveliness(n, reached, now_))
<1> DEFINE P == [s \in Slot |->
                  IF s \in reached
                  THEN [n.peers[s] EXCEPT !.next_local_deadline =
                            (IF @ = 0 THEN now_ ELSE @) + LivelinessAssertTimeout]
                  ELSE n.peers[s]]
           m == uccn_assert_liveliness(n, reached, now_)
<1>1. LivelinessAssertTimeout \in Nat
  BY TimeoutAssumption
<1>2. /\ P \in [Slot -> Peer]
      /\ \A s \in Slot :
            /\ P[s].address = n.peers[s].address
            /\ P[s].next_remote_deadline = n.peers[s].next_remote_deadline
            /\ P[s].num_links = n.peers[s].num_links
            /\ P[s].content_hash = n.peers[s].content_hash
  BY <1>1 DEF Node, Peer
<1>3. m = [n EXCEPT !.outgoing = Keepalive, !.peers = P]
  BY DEF uccn_assert_liveliness
<1> HIDE DEF P, m
<1>4. m \in Node /\ SameOccupants(n, m) /\ SameLinks(n, m)
  BY <1>2, <1>3, PacketTypes DEF Node, SameOccupants, SameLinks
<1> QED
  BY <1>4 DEF m

(* uccn_discover_peers changes nothing but the buffer.                     *)
LEMMA DiscoverType ==
    ASSUME NEW n \in Node
    PROVE  /\ uccn_discover_peers(n) \in Node
           /\ SameTable(n, uccn_discover_peers(n))
           /\ SameLinks(n, uccn_discover_peers(n))
<1> DEFINE H == {ResourceHash[r] : r \in Unlinked(n)}
           arrays == [side \in {"tracker"} |-> H]
<1>1. H \in SUBSET Hash
  BY HashOfResource DEF Unlinked, Node, Side
<1>2. arrays \in [{"tracker"} -> SUBSET Hash]
  BY <1>1
<1>3. {"tracker"} \in SUBSET Side
  BY DEF Side
<1>4. arrays \in Arrays
  BY <1>2, <1>3 DEF Arrays
<1>5. uccn_prepare_discovery_packet(n) \in Packet
  BY <1>4, PacketTypes DEF uccn_prepare_discovery_packet
<1> QED
  BY <1>5, OutgoingType DEF uccn_discover_peers

(* Marking a peer as dead or alive changes nothing else of it.             *)
LEMMA AliveType ==
    ASSUME NEW peer \in Peer, NEW b \in BOOLEAN
    PROVE  /\ [peer EXCEPT !.alive = b] \in Peer
           /\ [peer EXCEPT !.alive = b].alive = b
           /\ [peer EXCEPT !.alive = b].address = peer.address
           /\ [peer EXCEPT !.alive = b].next_remote_deadline = peer.next_remote_deadline
           /\ [peer EXCEPT !.alive = b].next_local_deadline = peer.next_local_deadline
           /\ [peer EXCEPT !.alive = b].num_links = peer.num_links
           /\ [peer EXCEPT !.alive = b].content_hash = peer.content_hash
BY DEF Peer

(* What probing leaves: the live peers that have links, in their order,    *)
(* each with its own struct, and the links of the live slots.              *)
Live(n, s, now_) == n.peers[s].next_remote_deadline >= now_

Kept(n, s, now_) ==
    IF s \in Registered(n) THEN Live(n, s, now_) ELSE n.peers[s].alive

Survives(n, s, now_) == Live(n, s, now_) /\ n.peers[s].num_links # 0

(* m is n with its survivors renumbered by q.                              *)
Renumbered(n, m, k, q, now_) ==
    /\ m.num_peers = k
    /\ \A i, j \in 1 .. k : i < j => q[i] < q[j]
    /\ \A s \in Registered(n) :
          (\E i \in 1 .. k : q[i] = s) <=> Survives(n, s, now_)
    /\ \A i \in 1 .. k : m.peers[i] = [n.peers[q[i]] EXCEPT !.alive = TRUE]
    /\ m.links = [side \in Side |-> [r \in Resource |->
                     {s \in n.links[side][r] : Kept(n, s, now_)}]]

(* uccn_probe_endpoints keeps the survivors, in their order, in the first  *)
(* slots of the table.                                                     *)
LEMMA ProbeEffect ==
    ASSUME NEW n \in Node, NEW now_ \in Nat, NEW m \in uccn_probe_endpoints(n, now_)
    PROVE  /\ m \in Node
           /\ m.endpoints = n.endpoints
           /\ \E k \in 0 .. MaxPeers : \E q \in [1 .. k -> Registered(n)] :
                 Renumbered(n, m, k, q, now_)
<1> DEFINE P == [s \in Slot |->
                  IF s \in Registered(n)
                  THEN [n.peers[s] EXCEPT
                            !.alive = n.peers[s].next_remote_deadline >= now_]
                  ELSE n.peers[s]]
           marked == MarkAlive(n, now_)
           L == [side \in Side |-> [r \in Resource |->
                    {s \in marked.links[side][r] : marked.peers[s].alive}]]
           probed == uccn_unlink_dead_peers(marked)
<1>1. ASSUME NEW s \in Slot
      PROVE  /\ P[s] \in Peer
             /\ P[s].alive = Kept(n, s, now_)
             /\ P[s].num_links = n.peers[s].num_links
             /\ s \in Registered(n) =>
                   P[s] = [n.peers[s] EXCEPT !.alive = Live(n, s, now_)]
  <2>1. n.peers[s] \in Peer
    BY DEF Node
  <2>2. Live(n, s, now_) \in BOOLEAN
    BY DEF Live
  <2>3. P[s] = IF s \in Registered(n) THEN [n.peers[s] EXCEPT !.alive = Live(n, s, now_)]
               ELSE n.peers[s]
    BY Zenon DEF Live
  <2> HIDE DEF P
  <2> QED
    BY <2>1, <2>2, <2>3, AliveType DEF Kept
<1>2. marked = [n EXCEPT !.peers = P]
  BY DEF MarkAlive
<1>3. P \in [Slot -> Peer]
  BY <1>1, Zenon
<1> HIDE DEF P, marked
<1>4. /\ marked \in Node /\ marked.links = n.links /\ marked.num_peers = n.num_peers
      /\ marked.peers = P /\ marked.endpoints = n.endpoints
  BY <1>2, <1>3 DEF Node
<1>5. L \in [Side -> [Resource -> SUBSET Slot]]
  BY <1>4 DEF Node
<1>6. probed = [marked EXCEPT !.links = L]
  BY DEF uccn_unlink_dead_peers
<1>7. L = [side \in Side |-> [r \in Resource |->
              {s \in n.links[side][r] : Kept(n, s, now_)}]]
  <2>1. \A side \in Side, r \in Resource :
            {s \in marked.links[side][r] : marked.peers[s].alive}
              = {s \in n.links[side][r] : Kept(n, s, now_)}
    <3> SUFFICES ASSUME NEW side \in Side, NEW r \in Resource
                 PROVE  {s \in marked.links[side][r] : marked.peers[s].alive}
                          = {s \in n.links[side][r] : Kept(n, s, now_)}
      OBVIOUS
    <3>1. n.links[side][r] \subseteq Slot
      BY DEF Node
    <3> QED
      BY <1>1, <1>4, <3>1
  <2> QED
    BY <2>1
<1> HIDE DEF L, probed
<1>8. /\ probed \in Node /\ probed.num_peers = n.num_peers
      /\ probed.peers = P /\ probed.endpoints = n.endpoints /\ probed.links = L
  BY <1>4, <1>5, <1>6 DEF Node
<1>9. Registered(probed) = Registered(n)
  BY <1>8 DEF Registered
<1>10. \A s \in Registered(n) : s \in Survivors(probed) <=> Survives(n, s, now_)
  <2> SUFFICES ASSUME NEW s \in Registered(n)
               PROVE  s \in Survivors(probed) <=> Survives(n, s, now_)
    OBVIOUS
  <2>1. s \in Slot
    BY SlotsRegistered
  <2>2. P[s].alive = Live(n, s, now_) /\ P[s].num_links = n.peers[s].num_links
    BY <1>1, <2>1 DEF Kept
  <2> QED
    BY <1>8, <1>9, <2>2 DEF Survivors, Survives
<1>11. PICK q \in InOrder(Survivors(probed)) : m = Compact(probed, q)
  BY DEF uccn_probe_endpoints, probed, marked
<1>12. PICK k \in 0 .. MaxPeers : q \in [1 .. k -> Survivors(probed)]
  BY <1>11 DEF InOrder
<1>13. Len(q) = k /\ DOMAIN q = 1 .. k /\ k \in Nat
  <2>1. q \in Seq(Survivors(probed))
    BY <1>12, BoundAssumption
  <2> QED
    BY <1>12, <2>1, BoundAssumption
<1>14. Survivors(probed) \subseteq Registered(n) /\ Registered(n) \subseteq Slot
  BY <1>9, SlotsRegistered DEF Survivors
<1>15. q \in [1 .. k -> Registered(n)]
  BY <1>12, <1>14
<1>16. \A i, j \in 1 .. k : i < j => q[i] < q[j]
  BY <1>11, <1>13 DEF InOrder
<1>17. \A s \in Registered(n) :
          (\E i \in 1 .. k : q[i] = s) <=> Survives(n, s, now_)
  BY <1>10, <1>11, <1>12, <1>13 DEF InOrder
<1> DEFINE C == [s \in Slot |->
                  IF s <= k THEN probed.peers[q[s]]
                  ELSE IF s <= probed.num_peers THEN probed.peers[probed.num_peers]
                  ELSE probed.peers[s]]
<1>18. C \in [Slot -> Peer]
  <2>1. \A s \in Slot : s <= k => q[s] \in Slot
    BY <1>13, <1>14, <1>15 DEF Slot
  <2>2. \A s \in Slot : s <= probed.num_peers => probed.num_peers \in Slot
    BY <1>8, BoundAssumption DEF Slot, Node
  <2> QED
    BY <1>8, <2>1, <2>2 DEF Node
<1>19. m = [probed EXCEPT !.num_peers = k, !.peers = C]
  BY <1>11, <1>13 DEF Compact
<1>20. \A i \in 1 .. k : C[i] = P[q[i]]
  BY <1>8, <1>13, BoundAssumption DEF Slot
<1>21. \A i \in 1 .. k : C[i] = [n.peers[q[i]] EXCEPT !.alive = TRUE]
  <2> SUFFICES ASSUME NEW i \in 1 .. k
               PROVE  C[i] = [n.peers[q[i]] EXCEPT !.alive = TRUE]
    OBVIOUS
  <2> HIDE DEF C
  <2>1. q[i] \in Registered(n) /\ q[i] \in Slot /\ Survives(n, q[i], now_)
    BY <1>14, <1>15, <1>17
  <2>2. Live(n, q[i], now_) = TRUE
    BY <2>1 DEF Survives, Live
  <2>3. P[q[i]] = [n.peers[q[i]] EXCEPT !.alive = Live(n, q[i], now_)]
    BY <1>1, <2>1
  <2> QED
    BY <1>20, <2>2, <2>3
<1> HIDE DEF C
<1>22. /\ m \in Node /\ m.endpoints = n.endpoints /\ m.num_peers = k
       /\ m.peers = C /\ m.links = L
  BY <1>8, <1>12, <1>18, <1>19 DEF Node
<1>23. Renumbered(n, m, k, q, now_)
  BY <1>7, <1>16, <1>17, <1>21, <1>22 DEF Renumbered
<1> QED
  BY <1>12, <1>15, <1>22, <1>23

(* The renumbering is injective.                                           *)
LEMMA RenumberedInjective ==
    ASSUME NEW n \in Node, NEW m \in Node, NEW now_ \in Nat, NEW k \in 0 .. MaxPeers,
           NEW q \in [1 .. k -> Registered(n)], Renumbered(n, m, k, q, now_)
    PROVE  \A i, j \in 1 .. k : q[i] = q[j] => i = j
<1> SUFFICES ASSUME NEW i \in 1 .. k, NEW j \in 1 .. k, i # j
             PROVE  q[i] # q[j]
  OBVIOUS
<1>1. i \in Nat /\ j \in Nat /\ q[i] \in Nat /\ q[j] \in Nat
  BY SlotsRegistered, BoundAssumption
<1>2. i < j \/ j < i
  BY <1>1
<1>3. (i < j => q[i] < q[j]) /\ (j < i => q[j] < q[i])
  BY DEF Renumbered
<1> QED
  BY <1>1, <1>2, <1>3

(* A survivor is the same peer in its new slot.                            *)
LEMMA RenumberedPeers ==
    ASSUME NEW n \in Node, NEW m \in Node, NEW now_ \in Nat, NEW k \in 0 .. MaxPeers,
           NEW q \in [1 .. k -> Registered(n)], Renumbered(n, m, k, q, now_)
    PROVE  \A i \in 1 .. k :
               /\ q[i] \in Registered(n) /\ q[i] \in Slot
               /\ m.peers[i].address = n.peers[q[i]].address
               /\ m.peers[i].next_remote_deadline = n.peers[q[i]].next_remote_deadline
               /\ m.peers[i].next_local_deadline = n.peers[q[i]].next_local_deadline
               /\ m.peers[i].num_links = n.peers[q[i]].num_links
               /\ m.peers[i].content_hash = n.peers[q[i]].content_hash
<1> SUFFICES ASSUME NEW i \in 1 .. k
             PROVE  /\ q[i] \in Registered(n) /\ q[i] \in Slot
                    /\ m.peers[i].address = n.peers[q[i]].address
                    /\ m.peers[i].next_remote_deadline = n.peers[q[i]].next_remote_deadline
                    /\ m.peers[i].next_local_deadline = n.peers[q[i]].next_local_deadline
                    /\ m.peers[i].num_links = n.peers[q[i]].num_links
                    /\ m.peers[i].content_hash = n.peers[q[i]].content_hash
  OBVIOUS
<1>1. q[i] \in Registered(n) /\ q[i] \in Slot
  BY SlotsRegistered
<1>2. n.peers[q[i]] \in Peer
  BY <1>1 DEF Node
<1>3. m.peers[i] = [n.peers[q[i]] EXCEPT !.alive = TRUE]
  BY DEF Renumbered
<1> QED
  BY <1>1, <1>2, <1>3, AliveType

(* uccn_probe_endpoints keeps the node well formed and its addresses       *)
(* distinct.                                                               *)
LEMMA ProbeKeeps ==
    ASSUME NEW n \in Node, NEW now_ \in Nat, NEW m \in uccn_probe_endpoints(n, now_)
    PROVE  /\ m \in Node
           /\ m.endpoints = n.endpoints
           /\ Unique(n) => Unique(m)
<1>1. m \in Node /\ m.endpoints = n.endpoints
  BY ProbeEffect
<1>2. PICK k \in 0 .. MaxPeers : \E q \in [1 .. k -> Registered(n)] :
          Renumbered(n, m, k, q, now_)
  BY ProbeEffect
<1>3. PICK q \in [1 .. k -> Registered(n)] : Renumbered(n, m, k, q, now_)
  BY <1>2
<1>4. Registered(m) = 1 .. k
  BY <1>3 DEF Registered, Renumbered
<1>5. \A i, j \in 1 .. k : q[i] = q[j] => i = j
  BY <1>1, <1>3, RenumberedInjective
<1>6. \A i \in 1 .. k : m.peers[i].address = n.peers[q[i]].address
  BY <1>1, <1>3, RenumberedPeers
<1> QED
  BY <1>1, <1>4, <1>5, <1>6 DEF Unique

-----------------------------------------------------------------------------
(* Counting links *)

(* The endpoints of a side that point to a slot.                           *)
Linked(n, side, s) == {r \in Resource : s \in n.links[side][r]}

Count(n, s) ==
    Cardinality(Linked(n, "tracker", s)) + Cardinality(Linked(n, "provider", s))

(* LinksCounted of any node.                                               *)
Counted(n) ==
    /\ \A s \in Registered(n) : n.peers[s].num_links = Count(n, s)
    /\ \A s \in Slot \ Registered(n) : \A side \in Side : Linked(n, side, s) = {}

(* m is n with the links of a side to s replaced by the ones of new.       *)
Relinks(n, m, s, side, new) ==
    /\ \A r \in Resource :
          m.links[side][r] = IF r \in new THEN n.links[side][r] \cup {s}
                                          ELSE n.links[side][r] \ {s}
    /\ m.links[Other(side)] = n.links[Other(side)]
    /\ \A t \in Slot \ {s} : m.peers[t] = n.peers[t]

-----------------------------------------------------------------------------
(* What CountAssumption gives: the number of resources, on both sides,     *)
(* fits a size_t.                                                          *)
LEMMA ResourcesCounted ==
    ASSUME NEW A \in SUBSET Resource
    PROVE  /\ IsFiniteSet(A)
           /\ Cardinality(A) \in Nat
           /\ 2 * Cardinality(A) < SizeMod
           /\ Cardinality(A) = 0 <=> A = {}
<1>1. /\ IsFiniteSet(A) /\ Cardinality(A) \in Nat
      /\ Cardinality(Resource) \in Nat /\ Cardinality(A) <= Cardinality(Resource)
  BY ResourceAssumption, FS_Subset, FS_CardinalityType
<1>2. Cardinality(A) = 0 <=> A = {}
  BY <1>1, FS_EmptySet
<1> QED
  BY <1>1, <1>2, CountAssumption, BoundAssumption

(* A number that size_t holds is what it counts.                           *)
LEMMA SmallMod ==
    ASSUME NEW i \in Nat, i < SizeMod
    PROVE  i % SizeMod = i
BY BoundAssumption

(* There are two sides.                                                    *)
LEMMA OtherSide ==
    /\ \A side \in Side : Other(side) \in Side /\ Other(side) # side
    /\ \A side \in Side, d \in Side : d = side \/ d = Other(side)
BY DEF Side, Other

(* The links of a slot are those on the one side and on the other, and     *)
(* their number fits a size_t.                                             *)
LEMMA CountSides ==
    ASSUME NEW n, NEW s, NEW side \in Side
    PROVE  /\ Count(n, s) = Cardinality(Linked(n, side, s))
                            + Cardinality(Linked(n, Other(side), s))
           /\ Count(n, s) \in Nat
           /\ Count(n, s) < SizeMod
<1>1. \A d \in Side : /\ Cardinality(Linked(n, d, s)) \in Nat
                      /\ 2 * Cardinality(Linked(n, d, s)) < SizeMod
  <2> SUFFICES ASSUME NEW d \in Side
               PROVE  /\ Cardinality(Linked(n, d, s)) \in Nat
                      /\ 2 * Cardinality(Linked(n, d, s)) < SizeMod
    OBVIOUS
  <2>1. Linked(n, d, s) \in SUBSET Resource
    BY DEF Linked
  <2> QED
    BY <2>1, ResourcesCounted
<1>2. /\ Cardinality(Linked(n, "tracker", s)) \in Nat
      /\ 2 * Cardinality(Linked(n, "tracker", s)) < SizeMod
      /\ Cardinality(Linked(n, "provider", s)) \in Nat
      /\ 2 * Cardinality(Linked(n, "provider", s)) < SizeMod
  BY <1>1 DEF Side
<1>3. Count(n, s) \in Nat /\ Count(n, s) < SizeMod
  BY <1>2, BoundAssumption DEF Count
<1>4. Count(n, s) = Cardinality(Linked(n, side, s)) + Cardinality(Linked(n, Other(side), s))
  <2>1. CASE side = "tracker"
    BY <2>1 DEF Count, Other
  <2>2. CASE side = "provider"
    BY <1>2, <2>2 DEF Count, Other
  <2> QED
    BY <2>1, <2>2 DEF Side
<1> QED
  BY <1>3, <1>4

(* The count of both sides is the size of the set that LinksCounted has.   *)
LEMMA CountIsCardinality ==
    ASSUME NEW n, NEW s
    PROVE  Cardinality({e \in Side \X Resource : s \in n.links[e[1]][e[2]]}) = Count(n, s)
<1> DEFINE E == {e \in Side \X Resource : s \in n.links[e[1]][e[2]]}
           A == Linked(n, "tracker", s)
           B == Linked(n, "provider", s)
           T == {"tracker"} \X A
           P == {"provider"} \X B
<1>1. A \in SUBSET Resource /\ B \in SUBSET Resource
  BY DEF Linked
<1>2. IsFiniteSet(A) /\ IsFiniteSet(B) /\ Cardinality(A) \in Nat /\ Cardinality(B) \in Nat
  BY <1>1, ResourcesCounted
<1>3. E = T \cup P
  <2>1. ASSUME NEW e \in E PROVE e \in T \cup P
    BY DEF Side, Linked
  <2>2. ASSUME NEW e \in T \cup P PROVE e \in E
    BY DEF Side, Linked
  <2> QED
    BY <2>1, <2>2
<1> HIDE DEF A, B
<1>4. T \cap P = {}
  OBVIOUS
<1>5. /\ IsFiniteSet(T) /\ Cardinality(T) = 1 * Cardinality(A)
      /\ IsFiniteSet(P) /\ Cardinality(P) = 1 * Cardinality(B)
  <2>1. \A x : IsFiniteSet({x}) /\ Cardinality({x}) = 1
    BY FS_Singleton
  <2>2. ASSUME NEW x, NEW S, IsFiniteSet(S)
        PROVE  /\ IsFiniteSet({x} \X S)
               /\ Cardinality({x} \X S) = 1 * Cardinality(S)
    <3> DEFINE X == {x}
    <3>1. IsFiniteSet(X) /\ Cardinality(X) = 1
      BY <2>1
    <3> HIDE DEF X
    <3>2. /\ IsFiniteSet(X \X S)
          /\ Cardinality(X \X S) = Cardinality(X) * Cardinality(S)
      BY <2>2, <3>1, FS_Product
    <3> QED
      BY <3>1, <3>2 DEF X
  <2> QED
    BY <1>2, <2>2
<1> HIDE DEF E, T, P
<1>6. Cardinality(T \cup P) = Cardinality(T) + Cardinality(P) - Cardinality(T \cap P)
  BY <1>5, FS_Union
<1>7. Cardinality(T \cap P) = 0
  BY <1>4, FS_EmptySet
<1>8. Cardinality(E) = Cardinality(A) + Cardinality(B)
  BY <1>2, <1>3, <1>5, <1>6, <1>7
<1> QED
  BY <1>8 DEF E, A, B, Count

(* A slot's links of one side replaced, and counted, leaves all counted.   *)
LEMMA RelinksCounted ==
    ASSUME NEW n \in Node, NEW m \in Node, Counted(n), m.num_peers = n.num_peers,
           NEW side \in Side, NEW s \in Registered(n), NEW new \in SUBSET Resource,
           Relinks(n, m, s, side, new),
           m.peers[s].num_links
               = Cardinality(new) + Cardinality(Linked(n, Other(side), s))
    PROVE  Counted(m)
<1>1. Other(side) \in Side /\ \A d \in Side : d = side \/ d = Other(side)
  BY OtherSide
<1>2. Registered(m) = Registered(n) /\ Registered(n) \subseteq Slot
  BY SlotsRegistered DEF Registered
<1>3. Linked(m, side, s) = new
  BY DEF Linked, Relinks
<1>4. Linked(m, Other(side), s) = Linked(n, Other(side), s)
  BY DEF Linked, Relinks
<1>5. ASSUME NEW t \in Slot \ {s}, NEW d \in Side PROVE Linked(m, d, t) = Linked(n, d, t)
  <2>1. CASE d = side
    BY <1>5, <2>1 DEF Linked, Relinks
  <2>2. CASE d = Other(side)
    BY <1>5, <2>2 DEF Linked, Relinks
  <2> QED
    BY <1>1, <2>1, <2>2
<1>6. m.peers[s].num_links = Count(m, s)
  <2>1. /\ Cardinality(new) \in Nat
        /\ Cardinality(Linked(n, Other(side), s)) \in Nat
    <3>1. Linked(n, Other(side), s) \in SUBSET Resource
      BY DEF Linked
    <3> QED
      BY <3>1, ResourcesCounted
  <2>2. Count(m, s) = Cardinality(Linked(m, side, s)) + Cardinality(Linked(m, Other(side), s))
    BY CountSides
  <2> QED
    BY <1>3, <1>4, <2>1, <2>2
<1>7. ASSUME NEW t \in Registered(m), t # s PROVE m.peers[t].num_links = Count(m, t)
  <2>1. m.peers[t] = n.peers[t] /\ t \in Slot
    BY <1>2, <1>7 DEF Relinks
  <2>2. Count(m, t) = Count(n, t)
    BY <1>5, <1>7, <2>1 DEF Count, Side
  <2> QED
    BY <1>2, <2>1, <2>2 DEF Counted
<1>8. ASSUME NEW t \in Slot \ Registered(m), NEW d \in Side PROVE Linked(m, d, t) = {}
  BY <1>2, <1>5, <1>8 DEF Counted
<1> QED
  BY <1>6, <1>7, <1>8 DEF Counted

-----------------------------------------------------------------------------
(* SetLinks changes the lists of one side and the count of one peer.       *)
LEMMA SetLinksEffect ==
    ASSUME NEW n \in Node, NEW side \in Side, NEW s \in Slot,
           NEW lists \in [Resource -> SUBSET Slot], NEW num \in Int
    PROVE  LET m == SetLinks(n, side, s, lists, num)
           IN  /\ m.links[side] = lists
               /\ m.links[Other(side)] = n.links[Other(side)]
               /\ \A t \in Slot \ {s} : m.peers[t] = n.peers[t]
               /\ m.peers[s].num_links = num % SizeMod
               /\ m.peers[s].content_hash = n.peers[s].content_hash
               /\ m.endpoints = n.endpoints
<1>1. Other(side) \in Side /\ Other(side) # side
  BY OtherSide
<1>2. n.peers[s] \in Peer
  BY DEF Node
<1> QED
  BY <1>1, <1>2 DEF SetLinks, Node, Peer

(* One array: its checksum is the known one, or the links of its other     *)
(* side to the peer are replaced and the checksum is kept.                 *)
ArrayEffect(n, m, s, remote, H) ==
    LET local == Other(remote)
        new   == Matching(n, local, H)
    IN  \/ n.peers[s].content_hash[remote] = Crc32(H) /\ m = n
        \/ /\ Relinks(n, m, s, local, new)
           /\ m.peers[s].content_hash
                 = [n.peers[s].content_hash EXCEPT ![remote] = Crc32(H)]
           /\ m.peers[s].num_links
                 = (((n.peers[s].num_links - Cardinality(Linked(n, local, s))) % SizeMod)
                    + Cardinality(new)) % SizeMod

(* What the processing of one array does to links, counts and hashes.      *)
LEMMA ProcessArrayEffect ==
    ASSUME NEW n \in Node, NEW s \in Slot, NEW remote \in Side, NEW H \in SUBSET Hash
    PROVE  ArrayEffect(n, ProcessArray(n, s, remote, H).node, s, remote, H)
<1> DEFINE local == Other(remote)
           new == Matching(n, local, H)
           u == uccn_unlink_all(n, local, s)
           l == uccn_link_all(u, local, s, H)
           e == [l EXCEPT !.peers[s].content_hash[remote] = Crc32(H)]
           cut == {r \in Resource : s \in n.links[local][r]}
           lists1 == [r \in Resource |-> n.links[local][r] \ {s}]
           num1 == n.peers[s].num_links - Cardinality(cut)
           lists2 == [r \in Resource |-> IF r \in new THEN u.links[local][r] \cup {s}
                                                       ELSE u.links[local][r]]
           num2 == u.peers[s].num_links + Cardinality(new)
<1>1. local \in Side
  BY OtherSide
<1>2. lists1 \in [Resource -> SUBSET Slot]
  BY <1>1 DEF Node
<1>3. num1 \in Int
  <2>1. Cardinality(cut) \in Nat
    BY ResourcesCounted
  <2>2. n.peers[s].num_links \in Int
    BY DEF Node, Peer
  <2> HIDE DEF cut
  <2> QED
    BY <2>1, <2>2
<1>4. u = SetLinks(n, local, s, lists1, num1)
  BY DEF uccn_unlink_all
<1> HIDE DEF local, lists1, num1
<1>5. /\ u \in Node /\ u.endpoints = n.endpoints
      /\ u.links[local] = lists1 /\ u.links[Other(local)] = n.links[Other(local)]
      /\ \A t \in Slot \ {s} : u.peers[t] = n.peers[t]
      /\ u.peers[s].num_links = num1 % SizeMod
      /\ u.peers[s].content_hash = n.peers[s].content_hash
  BY <1>1, <1>2, <1>3, <1>4, SetLinksEffect, SetLinksType
<1> HIDE DEF u
<1>6. Matching(u, local, H) = new
  BY <1>5 DEF Matching
<1>7. new \in SUBSET Resource
  BY <1>1 DEF Matching, Node
<1>8. Cardinality(new) \in Nat
  BY <1>7, ResourcesCounted
<1>9. l = SetLinks(u, local, s, lists2, num2)
  BY <1>6 DEF uccn_link_all
<1> HIDE DEF new
<1>10. lists2 \in [Resource -> SUBSET Slot] /\ num2 \in Int
  BY <1>1, <1>5, <1>8 DEF Node, Peer
<1>11. \A r \in Resource :
          lists2[r] = IF r \in new THEN n.links[local][r] \cup {s} ELSE n.links[local][r] \ {s}
  <2> SUFFICES ASSUME NEW r \in Resource
               PROVE  lists2[r] = IF r \in new THEN n.links[local][r] \cup {s}
                                                ELSE n.links[local][r] \ {s}
    OBVIOUS
  <2>1. lists1[r] = n.links[local][r] \ {s}
    BY DEF lists1
  <2>2. lists2[r] = IF r \in new THEN lists1[r] \cup {s} ELSE lists1[r]
    BY <1>5
  <2> HIDE DEF lists2
  <2> QED
    BY <2>1, <2>2
<1> HIDE DEF lists2, num2
<1>12. /\ l \in Node /\ l.links[local] = lists2 /\ l.links[Other(local)] = u.links[Other(local)]
       /\ \A t \in Slot \ {s} : l.peers[t] = u.peers[t]
       /\ l.peers[s].num_links = num2 % SizeMod
       /\ l.peers[s].content_hash = u.peers[s].content_hash
  BY <1>1, <1>5, <1>9, <1>10, SetLinksEffect, SetLinksType
<1> HIDE DEF l
<1>13. /\ e.links = l.links
       /\ \A t \in Slot \ {s} : e.peers[t] = l.peers[t]
       /\ e.peers[s].num_links = l.peers[s].num_links
       /\ e.peers[s].content_hash = [l.peers[s].content_hash EXCEPT ![remote] = Crc32(H)]
  <2>1. l.peers[s] \in Peer
    BY <1>12 DEF Node
  <2> QED
    BY <1>12, <2>1 DEF Node, Peer
<1> HIDE DEF e
<1>14. Relinks(n, e, s, local, new)
  BY <1>5, <1>11, <1>12, <1>13 DEF Relinks
<1>15. e.peers[s].num_links
         = (((n.peers[s].num_links - Cardinality(Linked(n, local, s))) % SizeMod)
            + Cardinality(new)) % SizeMod
  BY <1>5, <1>12, <1>13 DEF num1, num2, Linked
<1>16. e.peers[s].content_hash = [n.peers[s].content_hash EXCEPT ![remote] = Crc32(H)]
  BY <1>5, <1>12, <1>13
<1>17. ProcessArray(n, s, remote, H).node
         = IF n.peers[s].content_hash[remote] = Crc32(H) THEN n ELSE e
  BY DEF ProcessArray, e, l, u, local
<1> QED
  BY <1>14, <1>15, <1>16, <1>17 DEF ArrayEffect, new, local

(* An array leaves the links counted.                                      *)
LEMMA ProcessArrayCounted ==
    ASSUME NEW n \in Node, Counted(n), NEW s \in Registered(n),
           NEW remote \in Side, NEW H \in SUBSET Hash
    PROVE  Counted(ProcessArray(n, s, remote, H).node)
<1> DEFINE m == ProcessArray(n, s, remote, H).node
           local == Other(remote)
           new == Matching(n, local, H)
           a == Cardinality(Linked(n, local, s))
           b == Cardinality(Linked(n, Other(local), s))
           c == Cardinality(new)
<1>1. s \in Slot /\ local \in Side /\ Other(local) \in Side
  BY SlotsRegistered, OtherSide
<1>2. m \in Node /\ m.num_peers = n.num_peers
  BY <1>1, ProcessArrayType DEF SameTable
<1>3. \/ m = n
      \/ /\ Relinks(n, m, s, local, new)
         /\ m.peers[s].num_links = (((n.peers[s].num_links - a) % SizeMod) + c) % SizeMod
  <2>1. ArrayEffect(n, m, s, remote, H)
    BY <1>1, ProcessArrayEffect
  <2> HIDE DEF m
  <2> QED
    BY <2>1 DEF ArrayEffect
<1>4. new \in SUBSET Resource
  BY <1>1 DEF Matching, Node
<1>5. /\ a \in Nat /\ 2 * a < SizeMod
      /\ b \in Nat /\ 2 * b < SizeMod
      /\ c \in Nat /\ 2 * c < SizeMod
  <2>1. Linked(n, local, s) \in SUBSET Resource /\ Linked(n, Other(local), s) \in SUBSET Resource
    BY DEF Linked
  <2> HIDE DEF local, new
  <2> QED
    BY <1>4, <2>1, ResourcesCounted
<1>6. n.peers[s].num_links = a + b
  BY <1>1, CountSides DEF Counted
<1> HIDE DEF m, local, new, a, b, c
<1>7. CASE m = n
  BY <1>7 DEF m
<1>8. CASE m # n
  <2> DEFINE old == n.peers[s].num_links
  <2>1. m.peers[s].num_links = (((old - a) % SizeMod) + c) % SizeMod
    BY <1>3, <1>8
  <2> HIDE DEF old
  <2>2. old - a = b /\ b < SizeMod /\ b + c < SizeMod /\ b + c \in Nat
    BY <1>5, <1>6, BoundAssumption DEF old
  <2>3. m.peers[s].num_links = (b + c) % SizeMod
    BY <1>5, <2>1, <2>2, SmallMod
  <2>4. m.peers[s].num_links = c + b
    BY <1>5, <2>2, <2>3, SmallMod
  <2>5. Counted(m)
    BY <1>1, <1>2, <1>3, <1>4, <1>8, <2>4, RelinksCounted DEF b, c
  <2> QED
    BY <2>5 DEF m
<1> QED
  BY <1>7, <1>8

(* Whatever leaves the links and their counts alone.                       *)
LEMMA SameLinksCounted ==
    ASSUME NEW n \in Node, NEW m \in Node, Counted(n),
           m.num_peers = n.num_peers, SameLinks(n, m)
    PROVE  Counted(m)
<1>1. Registered(m) = Registered(n) /\ Registered(n) \subseteq Slot
  BY SlotsRegistered DEF Registered
<1>2. \A s, side : Linked(m, side, s) = Linked(n, side, s)
  BY DEF SameLinks, Linked
<1>3. \A s : Count(m, s) = Count(n, s)
  BY <1>2 DEF Count
<1> QED
  BY <1>1, <1>2, <1>3 DEF Counted, SameLinks

(* The effect of a link group: the tracked array, then the provided one.   *)
TrackedEffect(n, f, s, arrays) ==
    IF "tracker" \in DOMAIN arrays /\ 0 \notin arrays["tracker"]
    THEN f = ProcessArray(n, s, "tracker", arrays["tracker"]).node
    ELSE f = n

ProvidedEffect(f, m, s, arrays) ==
    \/ SameLinks(f, m) /\ SameTable(f, m)
    \/ \E H \in SUBSET Hash :
          LET g == ProcessArray(f, s, "provider", H).node
          IN  /\ "provider" \in DOMAIN arrays
              /\ "tracker" \notin DOMAIN arrays => H = arrays["provider"]
              /\ SameLinks(g, m) /\ SameTable(g, m)

GroupEffect(n, m, s, arrays) ==
    \E f \in Node : TrackedEffect(n, f, s, arrays) /\ ProvidedEffect(f, m, s, arrays)

(* What uccn_process_link_group does to them.                              *)
LEMMA LinkGroupEffect ==
    ASSUME NEW n \in Node, NEW s \in Slot, NEW arrays \in Arrays
    PROVE  GroupEffect(n, uccn_process_link_group(n, s, arrays).node, s, arrays)
<1> DEFINE Has(side) == side \in DOMAIN arrays
           tracked == IF Has("tracker") THEN arrays["tracker"] ELSE {}
           hashes == IF Has("provider") THEN tracked \cup arrays["provider"]
                                        ELSE tracked
           first == IF Has("tracker") THEN ProcessArray(n, s, "tracker", tracked)
                    ELSE [node |-> n, linked |-> {}]
           second == IF Has("provider")
                     THEN ProcessArray(first.node, s, "provider", hashes)
                     ELSE [node |-> first.node, linked |-> {}]
           linked == [side \in Side |->
                          IF side = "provider" THEN first.linked ELSE second.linked]
           answered == {side \in Side : linked[side] # {}}
           reply == IF answered = {} THEN None
                    ELSE Link([side \in answered |-> linked[side]])
           m1 == [n EXCEPT !.outgoing = None]
           m2 == [first.node EXCEPT !.outgoing = None]
           m3 == [second.node EXCEPT !.outgoing = reply]
           m == uccn_process_link_group(n, s, arrays).node
<1>1. PICK D \in SUBSET Side : arrays \in [D -> SUBSET Hash]
  BY DEF Arrays
<1>2. tracked \in SUBSET Hash /\ hashes \in SUBSET Hash
  BY <1>1
<1>3. m = IF 0 \in tracked THEN m1 ELSE IF 0 \in hashes THEN m2 ELSE m3
  BY DEF uccn_process_link_group
<1>4. (~Has("tracker") => tracked = {}) /\ "tracker" \in Side /\ "provider" \in Side
  BY DEF Side
<1> HIDE DEF tracked, hashes, m, m1, m2, m3
<1>5. first.node \in Node
  BY <1>2, <1>4, ProcessArrayType
<1>6. first.node = IF Has("tracker") THEN ProcessArray(n, s, "tracker", tracked).node ELSE n
  OBVIOUS
<1> HIDE DEF first
<1>7. /\ second.node \in Node
      /\ second.node = IF Has("provider") THEN ProcessArray(first.node, s, "provider", hashes).node
                       ELSE first.node
  BY <1>2, <1>4, <1>5, ProcessArrayType
<1> HIDE DEF second
<1>8. ASSUME NEW w \in Node, NEW o
      PROVE  SameLinks(w, [w EXCEPT !.outgoing = o]) /\ SameTable(w, [w EXCEPT !.outgoing = o])
  BY DEF SameLinks, SameTable, Node
<1>9. ASSUME 0 \in tracked PROVE GroupEffect(n, m, s, arrays)
  <2>1. SameLinks(n, m) /\ SameTable(n, m)
    BY <1>3, <1>8, <1>9 DEF m1
  <2> QED
    <3>1. TrackedEffect(n, n, s, arrays)
      BY <1>9 DEF TrackedEffect, tracked
    <3> QED
      BY <2>1, <3>1 DEF GroupEffect, ProvidedEffect
<1>10. ASSUME 0 \notin tracked, 0 \in hashes \/ ~Has("provider")
       PROVE  GroupEffect(n, m, s, arrays)
  <2>1. SameLinks(first.node, m) /\ SameTable(first.node, m)
    BY <1>3, <1>5, <1>7, <1>8, <1>10 DEF m2, m3
  <2> QED
    <3>1. TrackedEffect(n, first.node, s, arrays)
      BY <1>6, <1>10 DEF TrackedEffect, tracked
    <3> QED
      BY <1>5, <2>1, <3>1 DEF GroupEffect, ProvidedEffect
<1>11. ASSUME 0 \notin tracked, 0 \notin hashes, Has("provider")
       PROVE  GroupEffect(n, m, s, arrays)
  <2> DEFINE g == ProcessArray(first.node, s, "provider", hashes).node
  <2>1. SameLinks(g, m) /\ SameTable(g, m)
    BY <1>3, <1>7, <1>8, <1>11 DEF m3
  <2> QED
    <3>1. TrackedEffect(n, first.node, s, arrays)
      BY <1>6, <1>11 DEF TrackedEffect, tracked
    <3>2. "tracker" \notin DOMAIN arrays => hashes = arrays["provider"]
      BY <1>4, <1>11 DEF hashes
    <3>3. ProvidedEffect(first.node, m, s, arrays)
      BY <1>2, <1>11, <2>1, <3>2 DEF ProvidedEffect
    <3> QED
      BY <1>5, <3>1, <3>3 DEF GroupEffect
<1> QED
  BY <1>9, <1>10, <1>11 DEF m

(* The counts of peers agree with the lists after a link group.            *)
LEMMA LinkGroupCounted ==
    ASSUME NEW n \in Node, Counted(n), NEW s \in Registered(n), NEW arrays \in Arrays
    PROVE  Counted(uccn_process_link_group(n, s, arrays).node)
<1> DEFINE m == uccn_process_link_group(n, s, arrays).node
<1>1. s \in Slot /\ "tracker" \in Side /\ "provider" \in Side
  BY SlotsRegistered DEF Side
<1>2. m \in Node
  BY <1>1, LinkGroupType
<1>3. GroupEffect(n, m, s, arrays)
  BY <1>1, LinkGroupEffect
<1>4. "tracker" \in DOMAIN arrays => arrays["tracker"] \in SUBSET Hash
  <2>1. PICK D \in SUBSET Side : arrays \in [D -> SUBSET Hash]
    BY DEF Arrays
  <2> QED
    BY <2>1
<1> HIDE DEF m
<1>5. PICK f \in Node : TrackedEffect(n, f, s, arrays) /\ ProvidedEffect(f, m, s, arrays)
  BY <1>3 DEF GroupEffect
<1>6. Counted(f) /\ f.num_peers = n.num_peers
  BY <1>1, <1>4, <1>5, ProcessArrayCounted, ProcessArrayType DEF SameTable, TrackedEffect
<1>7. s \in Registered(f)
  BY <1>6 DEF Registered
<1>8. CASE SameLinks(f, m) /\ SameTable(f, m)
  <2>1. Counted(m)
    BY <1>2, <1>6, <1>8, SameLinksCounted DEF SameTable
  <2> QED
    BY <2>1 DEF m
<1>9. ASSUME NEW H \in SUBSET Hash,
             SameLinks(ProcessArray(f, s, "provider", H).node, m),
             SameTable(ProcessArray(f, s, "provider", H).node, m)
      PROVE  Counted(m)
  <2> DEFINE g == ProcessArray(f, s, "provider", H).node
  <2>1. g \in Node /\ Counted(g)
    BY <1>1, <1>6, <1>7, ProcessArrayCounted, ProcessArrayType
  <2> HIDE DEF g
  <2>2. SameLinks(g, m) /\ m.num_peers = g.num_peers
    BY <1>9 DEF g, SameTable
  <2> QED
    BY <1>2, <2>1, <2>2, SameLinksCounted
<1> QED
  BY <1>5, <1>8, <1>9 DEF m, ProvidedEffect

(* A new link of one endpoint.                                             *)
LEMMA LinkEffect ==
    ASSUME NEW n \in Node, NEW side \in Side, NEW r \in Resource, NEW s \in Slot
    PROVE  LET m == uccn_link(n, side, r, s).node
           IN  \/ m = n
               \/ /\ r \notin Linked(n, side, s)
                  /\ Relinks(n, m, s, side, Linked(n, side, s) \cup {r})
                  /\ m.peers[s].num_links = (n.peers[s].num_links + 1) % SizeMod
                  /\ m.peers[s].content_hash = n.peers[s].content_hash
<1> DEFINE e == [n EXCEPT !.links[side][r] = @ \cup {s},
                          !.peers[s].num_links = (@ + 1) % SizeMod]
           m == uccn_link(n, side, r, s).node
<1>1. m = n \/ (m = e /\ s \notin n.links[side][r])
  BY DEF uccn_link
<1>2. Other(side) \in Side /\ Other(side) # side /\ n.peers[s] \in Peer
  BY OtherSide DEF Node
<1>3. /\ e.links[side] = [n.links[side] EXCEPT ![r] = @ \cup {s}]
      /\ e.links[Other(side)] = n.links[Other(side)]
      /\ \A t \in Slot \ {s} : e.peers[t] = n.peers[t]
      /\ e.peers[s].num_links = (n.peers[s].num_links + 1) % SizeMod
      /\ e.peers[s].content_hash = n.peers[s].content_hash
  BY <1>2 DEF Node, Peer
<1> HIDE DEF e, m
<1>4. \A q \in Resource : e.links[side][q] = IF q = r THEN n.links[side][q] \cup {s}
                                             ELSE n.links[side][q]
  BY <1>3 DEF Node
<1>5. Relinks(n, e, s, side, Linked(n, side, s) \cup {r})
  <2> SUFFICES ASSUME NEW q \in Resource
               PROVE  e.links[side][q] = IF q \in Linked(n, side, s) \cup {r}
                                         THEN n.links[side][q] \cup {s}
                                         ELSE n.links[side][q] \ {s}
    BY <1>3 DEF Relinks
  <2> QED
    BY <1>4 DEF Linked
<1> QED
  BY <1>1, <1>3, <1>5 DEF m, Linked

(* They do after uccn_link.                                                *)
LEMMA LinkCounted ==
    ASSUME NEW n \in Node, Counted(n), NEW side \in Side, NEW r \in Resource,
           NEW s \in Registered(n)
    PROVE  Counted(uccn_link(n, side, r, s).node)
<1> DEFINE m == uccn_link(n, side, r, s).node
           A == Linked(n, side, s)
           a == Cardinality(A)
           b == Cardinality(Linked(n, Other(side), s))
           c == Cardinality(A \cup {r})
           old == n.peers[s].num_links
<1>1. s \in Slot /\ Other(side) \in Side
  BY SlotsRegistered, OtherSide
<1>2. m \in Node /\ m.num_peers = n.num_peers
  BY <1>1, LinkType DEF SameTable
<1>3. \/ m = n
      \/ /\ r \notin A
         /\ Relinks(n, m, s, side, A \cup {r})
         /\ m.peers[s].num_links = (old + 1) % SizeMod
  BY <1>1, LinkEffect
<1>4. A \in SUBSET Resource /\ A \cup {r} \in SUBSET Resource
      /\ Linked(n, Other(side), s) \in SUBSET Resource
  BY DEF Linked
<1>5. /\ IsFiniteSet(A) /\ a \in Nat
      /\ b \in Nat /\ 2 * b < SizeMod
      /\ c \in Nat /\ 2 * c < SizeMod
  <2> HIDE DEF A
  <2> QED
    BY <1>4, ResourcesCounted
<1>6. old = a + b
  BY <1>1, CountSides DEF Counted
<1> HIDE DEF m, A, b, old
<1>7. CASE m = n
  BY <1>7 DEF m
<1>8. CASE m # n
  <2>1. r \notin A /\ Relinks(n, m, s, side, A \cup {r})
        /\ m.peers[s].num_links = (old + 1) % SizeMod
    BY <1>3, <1>8
  <2>2. c = a + 1
    BY <1>5, <2>1, FS_AddElement
  <2> HIDE DEF a, c
  <2>3. old + 1 = c + b /\ c + b \in Nat /\ c + b < SizeMod
    BY <1>5, <1>6, <2>2, BoundAssumption
  <2>4. m.peers[s].num_links = c + b
    BY <2>1, <2>3, SmallMod
  <2>5. Counted(m)
    BY <1>2, <1>4, <2>1, <2>4, RelinksCounted DEF b, c
  <2> QED
    BY <2>5 DEF m
<1> QED
  BY <1>7, <1>8

(* Content: its tracker, if there is one, may be linked to the sender.     *)
ContentEffect(n, m, s, p) ==
    \E w \in Node :
        /\ SameLinks(n, w) /\ SameTable(n, w)
        /\ \/ m = w
           \/ \E r \in Resource :
                 /\ p.kind = "content" /\ ResourceHash[r] = p.hash
                 /\ m = uccn_link(w, "tracker", r, s).node

(* What uccn_process_content_group does to links and counts.               *)
LEMMA ContentGroupEffect ==
    ASSUME NEW n \in Node, NEW s \in Slot, NEW p, p.kind = "content", NEW blob
    PROVE  ContentEffect(n, uccn_process_content_group(n, s, p.hash, blob).node, s, p)
<1> DEFINE takers == Matching(n, "tracker", {p.hash})
           taker == CHOOSE r \in takers : TRUE
           w == [n EXCEPT !.outgoing = None]
           linked == uccn_link(w, "tracker", taker, s)
           m == uccn_process_content_group(n, s, p.hash, blob).node
<1>1. w \in Node /\ SameTable(n, w) /\ SameLinks(n, w)
  BY PacketTypes, OutgoingType
<1>2. takers \subseteq Resource /\ \A r \in takers : ResourceHash[r] = p.hash
  BY DEF Matching, Node, Side
<1>3. m = w \/ (takers # {} /\ m = linked.node)
  BY DEF uccn_process_content_group
<1> HIDE DEF m, w, takers
<1>4. takers # {} => taker \in Resource /\ ResourceHash[taker] = p.hash
  BY <1>2
<1> HIDE DEF taker
<1>5. ContentEffect(n, m, s, p)
  BY <1>1, <1>3, <1>4 DEF ContentEffect
<1> QED
  BY <1>5 DEF m

(* What a packet does to the links of its sender.                          *)
PacketEffect(n, m, s, p) ==
    \/ p.kind = "link" /\ GroupEffect(n, m, s, p.arrays)
    \/ p.kind # "link" /\ ContentEffect(n, m, s, p)

(* What uccn_process_packet does to links, counts and hashes.              *)
LEMMA ProcessPacketEffect ==
    ASSUME NEW n \in Node, NEW s \in Slot, NEW p \in Packet, NEW blob
    PROVE  PacketEffect(n, uccn_process_packet(n, s, p, blob).node, s, p)
<1>1. CASE p.kind = "link"
  <2>1. p.arrays \in Arrays
    BY DEF Packet
  <2>2. uccn_process_packet(n, s, p, blob) = uccn_process_link_group(n, s, p.arrays)
    BY <1>1 DEF uccn_process_packet
  <2> QED
    BY <1>1, <2>1, <2>2, LinkGroupEffect DEF PacketEffect
<1>2. CASE p.kind = "content"
  <2>1. uccn_process_packet(n, s, p, blob) = uccn_process_content_group(n, s, p.hash, blob)
    BY <1>2 DEF uccn_process_packet
  <2> QED
    BY <1>2, <2>1, ContentGroupEffect DEF PacketEffect
<1>3. CASE p.kind \notin {"link", "content"}
  <2>1. uccn_process_packet(n, s, p, blob).node \in {n, [n EXCEPT !.outgoing = None]}
    BY <1>3 DEF uccn_process_packet
  <2>2. SameLinks(n, n) /\ SameTable(n, n)
    BY DEF SameLinks, SameTable
  <2>3. /\ [n EXCEPT !.outgoing = None] \in Node
        /\ SameLinks(n, [n EXCEPT !.outgoing = None])
        /\ SameTable(n, [n EXCEPT !.outgoing = None])
    BY PacketTypes, OutgoingType
  <2>4. ContentEffect(n, uccn_process_packet(n, s, p, blob).node, s, p)
    BY <2>1, <2>2, <2>3 DEF ContentEffect
  <2> QED
    BY <1>3, <2>4 DEF PacketEffect
<1> QED
  BY <1>1, <1>2, <1>3

(* The counts of peers agree with the lists after any packet.              *)
LEMMA PacketCounted ==
    ASSUME NEW n \in Node, Counted(n), NEW s \in Registered(n), NEW p \in Packet, NEW blob
    PROVE  Counted(uccn_process_packet(n, s, p, blob).node)
<1> DEFINE m == uccn_process_packet(n, s, p, blob).node
<1>1. s \in Slot
  BY SlotsRegistered
<1>2. CASE p.kind = "link"
  <2>1. p.arrays \in Arrays
    BY DEF Packet
  <2>2. uccn_process_packet(n, s, p, blob) = uccn_process_link_group(n, s, p.arrays)
    BY <1>2 DEF uccn_process_packet
  <2> QED
    BY <2>1, <2>2, LinkGroupCounted
<1>3. CASE p.kind # "link"
  <2>1. ContentEffect(n, m, s, p)
    BY <1>1, <1>3, ProcessPacketEffect DEF PacketEffect
  <2> HIDE DEF m
  <2>2. PICK w \in Node :
          /\ SameLinks(n, w) /\ SameTable(n, w)
          /\ m = w \/ \E r \in Resource : m = uccn_link(w, "tracker", r, s).node
    BY <2>1 DEF ContentEffect
  <2>3. Counted(w) /\ s \in Registered(w)
    BY <2>2, SameLinksCounted DEF SameTable, Registered
  <2>4. Counted(m)
    BY <2>2, <2>3, LinkCounted DEF Side
  <2> QED
    BY <2>4 DEF m
<1> QED
  BY <1>2, <1>3

(* They do after a registration: a new peer has no links.                  *)
LEMMA RegistersCounted ==
    ASSUME NEW n \in Node, NEW m \in Node, Counted(n), NEW slot, NEW a, NEW d,
           Registers(n, m, slot, a, d)
    PROVE  Counted(m)
<1>1. /\ Registered(m) = Registered(n) \cup {slot} /\ slot \in Slot
      /\ Registered(n) \subseteq Slot
  <2>1. slot \in Slot
    BY DEF Registers
  <2> QED
    BY <2>1, RegistersSlots
<1>2. \A s, side : Linked(m, side, s) = Linked(n, side, s)
  BY DEF Registers, Linked
<1>3. \A s : Count(m, s) = Count(n, s)
  BY <1>2 DEF Count
<1>4. m.peers[slot].num_links = Count(n, slot)
  <2>1. CASE slot \in Registered(n)
    <3>1. m.peers[slot].num_links = n.peers[slot].num_links
      <4>1. n.num_peers \in Nat
        BY BoundAssumption DEF Node
      <4> QED
        BY <2>1, <4>1 DEF Registers, Registered
    <3> QED
      BY <2>1, <3>1 DEF Counted
  <2>2. CASE slot \notin Registered(n)
    <3>1. m.peers[slot].num_links = 0
      BY <2>2 DEF Registers
    <3>2. Linked(n, "tracker", slot) = {} /\ Linked(n, "provider", slot) = {}
      BY <1>1, <2>2 DEF Counted, Side
    <3>3. Cardinality({}) = 0
      BY FS_EmptySet
    <3> QED
      BY <3>1, <3>2, <3>3 DEF Count
  <2> QED
    BY <2>1, <2>2
<1>5. \A s \in Registered(m) : m.peers[s].num_links = Count(m, s)
  BY <1>1, <1>3, <1>4 DEF Counted, Registers
<1> QED
  BY <1>1, <1>2, <1>5 DEF Counted

(* A datagram leaves the links counted.                                    *)
LEMMA IncomingCounted ==
    ASSUME NEW n \in Node, Counted(n), NEW a \in Address, NEW p \in Packet, NEW blob,
           NEW now_ \in Nat
    PROVE  Counted(uccn_process_incoming(n, a, p, blob, now_).node)
<1> DEFINE m == uccn_process_incoming(n, a, p, blob, now_).node
<1>1. /\ n.num_peers = MaxPeers => m = n
      /\ n.num_peers # MaxPeers =>
            \E w \in Node, slot \in Slot : Serves(n, m, w, slot, a, p, blob, now_)
  BY IncomingEffect
<1> HIDE DEF m
<1>2. CASE n.num_peers # MaxPeers
  <2>1. PICK w \in Node, slot \in Slot : Serves(n, m, w, slot, a, p, blob, now_)
    BY <1>1, <1>2
  <2>2. Counted(w) /\ slot \in Registered(w)
    BY <2>1, RegistersCounted DEF Serves, Registers
  <2>3. Counted(m)
    BY <2>1, <2>2, PacketCounted DEF Serves
  <2> QED
    BY <2>3 DEF m
<1> QED
  BY <1>1, <1>2 DEF m

(* A probe never makes the table longer.                                   *)
LEMMA ShrinkingTable ==
    ASSUME NEW n \in Node, NEW m \in Node, NEW now_ \in Nat,
           NEW k \in 0 .. MaxPeers, NEW q \in [1 .. k -> Registered(n)],
           Renumbered(n, m, k, q, now_)
    PROVE  k \in Nat /\ n.num_peers \in Nat /\ k <= n.num_peers
<1>1. k \in Nat /\ n.num_peers \in Nat
  BY BoundAssumption DEF Node
<1>2. q \in Injection(1 .. k, Registered(n))
  BY RenumberedInjective, Fun_IsInj
<1>3. /\ IsFiniteSet(Registered(n)) /\ Cardinality(Registered(n)) = n.num_peers
      /\ Cardinality(1 .. k) = k
  <2>1. ASSUME NEW j \in Nat PROVE IsFiniteSet(1 .. j) /\ Cardinality(1 .. j) = j
    <3>1. IsFiniteSet(1 .. j) /\ Cardinality(1 .. j) = IF 1 > j THEN 0 ELSE j - 1 + 1
      BY FS_Interval
    <3> QED
      BY <3>1
  <2> QED
    BY <1>1, <2>1 DEF Registered
<1>4. Cardinality(1 .. k) <= Cardinality(Registered(n))
  <2> HIDE DEF Registered
  <2> QED
    BY <1>2, <1>3, FS_Injection
<1> QED
  BY <1>1, <1>3, <1>4

(* A probe that moves no peer keeps a prefix of the table.                 *)
LEMMA UnmovedPrefix ==
    ASSUME NEW n \in Node, Unique(n), NEW m \in Node, NEW now_ \in Nat,
           NEW k \in 0 .. MaxPeers, NEW q \in [1 .. k -> Registered(n)],
           Renumbered(n, m, k, q, now_), ~Moves(n, m)
    PROVE  /\ Registered(m) = 1 .. k
           /\ \A i \in 1 .. k : q[i] = i /\ i \in Registered(n)
<1>1. Registered(m) = 1 .. k
  BY DEF Registered, Renumbered
<1>2. ASSUME NEW i \in 1 .. k PROVE q[i] = i /\ i \in Registered(n)
  <2>1. q[i] \in Registered(n) /\ m.peers[i].address = n.peers[q[i]].address
    BY RenumberedPeers
  <2>2. m.peers[i].address = n.peers[i].address
    BY <1>1 DEF Moves
  <2>3. i \in Registered(n)
    BY ShrinkingTable DEF Registered
  <2> QED
    BY <2>1, <2>2, <2>3 DEF Unique
<1> QED
  BY <1>1, <1>2

(* A probe that moves no peer leaves the links counted: who is dropped has *)
(* lost its links, or had none.                                            *)
LEMMA ProbeCounted ==
    ASSUME NEW n \in Node, Unique(n), Counted(n), NEW now_ \in Nat,
           NEW m \in uccn_probe_endpoints(n, now_), ~Moves(n, m)
    PROVE  Counted(m)
<1>1. m \in Node
  BY ProbeEffect
<1>2. PICK k \in 0 .. MaxPeers : \E q \in [1 .. k -> Registered(n)] :
          Renumbered(n, m, k, q, now_)
  BY ProbeEffect
<1>3. PICK q \in [1 .. k -> Registered(n)] : Renumbered(n, m, k, q, now_)
  BY <1>2
<1>4. /\ Registered(m) = 1 .. k
      /\ \A i \in 1 .. k : q[i] = i /\ i \in Registered(n)
  BY <1>1, <1>3, UnmovedPrefix
<1>5. \A side \in Side, r \in Resource :
          m.links[side][r] = {s \in n.links[side][r] : Kept(n, s, now_)}
  BY <1>3 DEF Renumbered
<1>6. ASSUME NEW s, NEW side \in Side
      PROVE  /\ Kept(n, s, now_) => Linked(m, side, s) = Linked(n, side, s)
             /\ ~Kept(n, s, now_) => Linked(m, side, s) = {}
             /\ Linked(m, side, s) \subseteq Linked(n, side, s)
  BY <1>5 DEF Linked
<1>7. ASSUME NEW s \in Registered(m) PROVE m.peers[s].num_links = Count(m, s)
  <2>1. s \in Registered(n) /\ q[s] = s
    BY <1>4
  <2>2. Kept(n, s, now_)
    BY <1>3, <1>4, <2>1 DEF Renumbered, Survives, Kept
  <2>3. Count(m, s) = Count(n, s)
    BY <1>6, <2>2 DEF Count, Side
  <2>4. m.peers[s].num_links = n.peers[s].num_links
    BY <1>1, <1>3, <1>4, <2>1, RenumberedPeers
  <2> QED
    BY <2>1, <2>3, <2>4 DEF Counted
<1>8. ASSUME NEW s \in Slot \ Registered(m), NEW side \in Side
      PROVE  Linked(m, side, s) = {}
  <2>1. CASE s \notin Registered(n)
    BY <1>6, <1>8, <2>1 DEF Counted
  <2>2. CASE s \in Registered(n)
    <3>1. ~Survives(n, s, now_)
      BY <1>3, <1>4, <1>8, <2>2 DEF Renumbered
    <3>2. CASE ~Live(n, s, now_)
      BY <1>6, <2>2, <3>2 DEF Kept
    <3>3. CASE n.peers[s].num_links = 0
      <4>1. Count(n, s) = 0
        BY <2>2, <3>3 DEF Counted
      <4>2. Linked(n, side, s) \in SUBSET Resource /\ Linked(n, Other(side), s) \in SUBSET Resource
        BY DEF Linked
      <4>3. /\ Cardinality(Linked(n, side, s)) \in Nat
            /\ Cardinality(Linked(n, Other(side), s)) \in Nat
            /\ Count(n, s) = Cardinality(Linked(n, side, s))
                              + Cardinality(Linked(n, Other(side), s))
        BY <4>2, ResourcesCounted, CountSides
      <4>4. Cardinality(Linked(n, side, s)) = 0
        BY <4>1, <4>3
      <4>5. Linked(n, side, s) = {}
        BY <4>2, <4>4, ResourcesCounted
      <4> QED
        BY <1>6, <4>5
    <3> QED
      BY <3>1, <3>2, <3>3 DEF Survives
  <2> QED
    BY <2>1, <2>2
<1> QED
  BY <1>7, <1>8 DEF Counted

=============================================================================
