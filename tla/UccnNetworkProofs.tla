------------------------- MODULE UccnNetworkProofs -------------------------
(***************************************************************************)
(* Theorems about a network of any number of nodes that lose, duplicate    *)
(* and reorder datagrams.                                                  *)
(***************************************************************************)
EXTENDS UccnNetwork, NodeOpsProofs

(* The hashes of the endpoints of a node.                                  *)
Claimed(n) == [side \in Side |-> {ResourceHash[r] : r \in n.endpoints[side]}]

(* What p says of its sender, whose endpoints have the hashes of D.        *)
Truthful(D, p) ==
    /\ \A side \in DOMAIN p.arrays : p.arrays[side] \subseteq D[side]
    /\ p.kind = "content" => p.hash \in D["provider"]

(* What an outgoing buffer may hold: a packet to send, or nothing.         *)
Expected(p) == p \in Incoming \cup {None}

Single(p) == ~("tracker" \in DOMAIN p.arrays /\ "provider" \in DOMAIN p.arrays)

(* What each node may claim.                                               *)
Claims == [x \in Address |-> Claimed(nodes[x])]

(* The links of a node are to peers that may claim the other side.         *)
Real(n, C) ==
    \A side \in Side, r \in Resource : \A s \in n.links[side][r] :
        /\ n.peers[s].address \in Address
        /\ ResourceHash[r] \in C[n.peers[s].address][Other(side)]

Addressed(n) == \A s \in Registered(n) : n.peers[s].address \in Address

(* The invariant of each node, and of all of them.                         *)
NodeInv(n) ==
    /\ Truthful(Claimed(n), n.outgoing)
    /\ Expected(n.outgoing)
    /\ Unique(n)
    /\ Addressed(n)

NetInv ==
    /\ TypeOK
    /\ \A m \in network : Truthful(Claims[m.from], m.packet) /\ m.packet \in Incoming
    /\ \A x \in Address : NodeInv(nodes[x])
    /\ ~moved => \A x \in Address : Counted(nodes[x]) /\ Real(nodes[x], Claims)

-----------------------------------------------------------------------------
(* What packets say *)

(* The arrays of a packet are sets of hashes.                              *)
LEMMA ArraysOfPacket ==
    ASSUME NEW p \in Packet
    PROVE  /\ p.arrays \in Arrays
           /\ DOMAIN p.arrays \subseteq Side
           /\ \A side \in DOMAIN p.arrays : p.arrays[side] \in SUBSET Hash
<1>1. p.arrays \in Arrays
  BY DEF Packet
<1>2. PICK D \in SUBSET Side : p.arrays \in [D -> SUBSET Hash]
  BY <1>1 DEF Arrays
<1> QED
  BY <1>1, <1>2

(* No packet of a node has both arrays.                                    *)
LEMMA ExpectedSingle ==
    ASSUME NEW p, Expected(p)
    PROVE  Single(p)
BY DEF Expected, Incoming, Single, None, Keepalive, Plain, Link, Content, NoArrays

(* Packets without arrays claim nothing, content but its own resource.     *)
LEMMA PlainPackets ==
    /\ \A D : /\ Truthful(D, None) /\ Truthful(D, Keepalive)
              /\ Truthful(D, Plain("header")) /\ Truthful(D, Plain("truncated"))
              /\ \A h \in D["provider"] : Truthful(D, Content(h))
    /\ Expected(None)
    /\ Keepalive \in Incoming
    /\ Plain("header") \in Incoming /\ Plain("truncated") \in Incoming
    /\ \A h \in Hash : Content(h) \in Incoming
<1>1. \A D : /\ Truthful(D, None) /\ Truthful(D, Keepalive)
             /\ Truthful(D, Plain("header")) /\ Truthful(D, Plain("truncated"))
             /\ \A h \in D["provider"] : Truthful(D, Content(h))
  BY DEF Truthful, None, Keepalive, Plain, Content, NoArrays
<1> QED
  BY <1>1 DEF Expected, Incoming

(* What a node may claim is a set of hashes for each side.                 *)
LEMMA ClaimedType ==
    ASSUME NEW n \in Node
    PROVE  Claimed(n) \in [Side -> SUBSET Hash]
BY HashOfResource DEF Claimed, Node

(* A node that has more endpoints may claim more.                          *)
LEMMA ClaimsGrow ==
    ASSUME NEW n, NEW m, \A side \in Side : n.endpoints[side] \subseteq m.endpoints[side]
    PROVE  /\ \A side \in Side : Claimed(n)[side] \subseteq Claimed(m)[side]
           /\ \A p \in Packet : Truthful(Claimed(n), p) => Truthful(Claimed(m), p)
<1>1. \A side \in Side : Claimed(n)[side] \subseteq Claimed(m)[side]
  BY DEF Claimed
<1> QED
  BY <1>1, ArraysOfPacket DEF Truthful, Side

(* The hashes that a reply lists are those of the node's own endpoints.    *)
LEMMA ProcessArrayLinked ==
    ASSUME NEW n \in Node, NEW s \in Slot, NEW remote \in Side, NEW H
    PROVE  ProcessArray(n, s, remote, H).linked \subseteq Claimed(n)[Other(remote)]
<1>1. Other(remote) \in Side
  BY OtherSide
<1>2. ProcessArray(n, s, remote, H).linked
        \subseteq {ResourceHash[r] : r \in Matching(n, Other(remote), H)}
  BY DEF ProcessArray
<1> QED
  BY <1>1, <1>2 DEF Claimed, Matching

(* The reply to a link group lists endpoints of the node, on the sides     *)
(* opposite to the ones of the group.                                      *)
LEMMA LinkGroupReply ==
    ASSUME NEW n \in Node, NEW s \in Slot, NEW arrays \in Arrays
    PROVE  LET o == uccn_process_link_group(n, s, arrays).node.outgoing
           IN  /\ Truthful(Claimed(n), o)
               /\ ~("tracker" \in DOMAIN arrays /\ "provider" \in DOMAIN arrays) => Expected(o)
<1> DEFINE Has(side) == side \in DOMAIN arrays
           tracked == IF Has("tracker") THEN arrays["tracker"] ELSE {}
           hashes == IF Has("provider") THEN tracked \cup arrays["provider"]
                                        ELSE tracked
           first == IF Has("tracker") THEN ProcessArray(n, s, "tracker", tracked)
                    ELSE [node |-> n, linked |-> {}]
           second == IF Has("provider")
                     THEN ProcessArray(first.node, s, "provider", hashes)
                     ELSE [node |-> first.node, linked |-> {}]
           linked == [side \in Side |->
                          IF side = "provider" THEN first.linked ELSE second.linked]
           answered == {side \in Side : linked[side] # {}}
           reply == IF answered = {} THEN None
                    ELSE Link([side \in answered |-> linked[side]])
           m1 == [n EXCEPT !.outgoing = None]
           m2 == [first.node EXCEPT !.outgoing = None]
           m3 == [second.node EXCEPT !.outgoing = reply]
           o == uccn_process_link_group(n, s, arrays).node.outgoing
<1>1. PICK D \in SUBSET Side : arrays \in [D -> SUBSET Hash]
  BY DEF Arrays
<1>2. tracked \in SUBSET Hash /\ hashes \in SUBSET Hash
  BY <1>1
<1>3. o = IF 0 \in tracked THEN m1.outgoing
          ELSE IF 0 \in hashes THEN m2.outgoing ELSE m3.outgoing
  BY DEF uccn_process_link_group
<1> HIDE DEF tracked, hashes, o
<1>4. /\ "tracker" \in Side /\ "provider" \in Side
      /\ Other("tracker") = "provider" /\ Other("provider") = "tracker"
  BY DEF Side, Other
<1>5. first.node \in Node /\ first.node.endpoints = n.endpoints
  BY <1>2, <1>4, ProcessArrayType DEF SameTable
<1>6. first.linked \subseteq Claimed(n)["provider"]
  BY <1>4, ProcessArrayLinked
<1>7. ~Has("tracker") => first.linked = {}
  OBVIOUS
<1> HIDE DEF first
<1>8. second.node \in Node
  BY <1>2, <1>4, <1>5, ProcessArrayType
<1>9. second.linked \subseteq Claimed(n)["tracker"]
  <2>1. ProcessArray(first.node, s, "provider", hashes).linked
          \subseteq Claimed(first.node)["tracker"]
    BY <1>4, <1>5, ProcessArrayLinked
  <2> QED
    BY <1>5, <2>1 DEF Claimed
<1>10. ~Has("provider") => second.linked = {}
  OBVIOUS
<1> HIDE DEF second
<1>11. Truthful(Claimed(n), reply)
  <2>1. CASE answered = {}
    BY <2>1, PlainPackets
  <2>2. CASE answered # {}
    <3>1. \A side \in answered : linked[side] \subseteq Claimed(n)[side]
      BY <1>6, <1>9 DEF Side
    <3> QED
      BY <2>2, <3>1 DEF Truthful, Link
  <2> QED
    BY <2>1, <2>2
<1>12. ~(Has("tracker") /\ Has("provider")) => Expected(reply)
  <2> SUFFICES ASSUME ~(Has("tracker") /\ Has("provider")) PROVE Expected(reply)
    OBVIOUS
  <2>1. ~("tracker" \in answered /\ "provider" \in answered)
    BY <1>7, <1>10
  <2>2. CASE answered = {}
    BY <2>2, PlainPackets
  <2>3. ASSUME NEW side \in Side, answered = {side} PROVE Expected(reply)
    <3>1. linked[side] \in SUBSET Hash /\ linked[side] # {}
      BY <1>6, <1>9, <2>3, ClaimedType DEF Side
    <3>2. [d \in answered |-> linked[d]] = [d \in {side} |-> linked[side]]
      BY <2>3
    <3>3. reply = Link([d \in {side} |-> linked[side]])
      BY <2>3, <3>2
    <3> HIDE DEF reply, linked
    <3>4. CASE side = "tracker"
      BY <3>1, <3>3, <3>4 DEF Expected, Incoming
    <3>5. CASE side = "provider"
      BY <3>1, <3>3, <3>5 DEF Expected, Incoming
    <3> QED
      BY <3>4, <3>5 DEF Side
  <2>4. answered = {} \/ answered = {"tracker"} \/ answered = {"provider"}
    <3>1. answered \subseteq {"tracker", "provider"}
      BY DEF Side
    <3> HIDE DEF answered
    <3>2. CASE "tracker" \in answered
      BY <2>1, <3>1, <3>2
    <3>3. CASE "provider" \in answered
      BY <2>1, <3>1, <3>3
    <3> QED
      BY <3>1, <3>2, <3>3
  <2> QED
    BY <1>4, <2>2, <2>3, <2>4
<1>13. m1.outgoing = None /\ m2.outgoing = None /\ m3.outgoing = reply
  BY <1>5, <1>8 DEF Node
<1> HIDE DEF reply, m1, m2, m3
<1>14. o = None \/ o = reply
  BY <1>3, <1>13
<1>15. Truthful(Claimed(n), o) /\ (~(Has("tracker") /\ Has("provider")) => Expected(o))
  BY <1>11, <1>12, <1>14, PlainPackets
<1> QED
  BY <1>15 DEF o

(* A packet that is expected leaves one that is in the buffer, and one     *)
(* that says what the node may claim.                                      *)
LEMMA PacketReply ==
    ASSUME NEW n \in Node, NEW s \in Slot, NEW p \in Packet, NEW blob,
           Truthful(Claimed(n), n.outgoing), Expected(n.outgoing), Single(p)
    PROVE  LET o == uccn_process_packet(n, s, p, blob).node.outgoing
           IN  Truthful(Claimed(n), o) /\ Expected(o)
<1> DEFINE w == [n EXCEPT !.outgoing = None]
           m == uccn_process_packet(n, s, p, blob).node
<1>1. w \in Node /\ w.outgoing = None
  BY PacketTypes, OutgoingType DEF Node
<1>2. CASE p.kind = "link"
  <2>1. m = uccn_process_link_group(n, s, p.arrays).node
    BY <1>2 DEF uccn_process_packet
  <2> QED
    BY <2>1, ArraysOfPacket, LinkGroupReply DEF Single
<1>3. CASE p.kind = "content"
  <2> DEFINE takers == Matching(n, "tracker", {p.hash})
             taker == CHOOSE r \in takers : TRUE
             linked == uccn_link(w, "tracker", taker, s)
  <2>1. m = w \/ (takers # {} /\ m = linked.node)
    BY <1>3 DEF uccn_process_packet, uccn_process_content_group
  <2>2. takers \subseteq Resource
    BY DEF Matching, Node, Side
  <2> HIDE DEF w, m, takers
  <2>3. takers # {} => linked.node.outgoing = None
    <3>1. takers # {} => taker \in Resource
      BY <2>2
    <3> HIDE DEF taker
    <3> QED
      BY <1>1, <3>1, LinkType DEF Side
  <2>4. m.outgoing = None
    BY <1>1, <2>1, <2>3
  <2> QED
    BY <2>4, PlainPackets DEF m
<1>4. CASE p.kind \notin {"link", "content"}
  <2>1. m = w \/ m = n
    BY <1>4 DEF uccn_process_packet
  <2> QED
    BY <1>1, <2>1, PlainPackets
<1> QED
  BY <1>2, <1>3, <1>4

-----------------------------------------------------------------------------
(* The links *)

(* Links of one side to a slot replaced: each new one is an old one, or    *)
(* the peer may claim its other side.                                      *)
LEMMA RelinksReal ==
    ASSUME NEW n \in Node, NEW m \in Node, NEW C, Real(n, C),
           NEW side \in Side, NEW s \in Slot, NEW new \in SUBSET Resource,
           Relinks(n, m, s, side, new),
           n.peers[s].address \in Address,
           m.peers[s].address = n.peers[s].address,
           \A r \in new : \/ r \in Linked(n, side, s)
                          \/ ResourceHash[r] \in C[n.peers[s].address][Other(side)]
    PROVE  Real(m, C)
<1> SUFFICES ASSUME NEW d \in Side, NEW r \in Resource, NEW t \in m.links[d][r]
             PROVE  /\ m.peers[t].address \in Address
                    /\ ResourceHash[r] \in C[m.peers[t].address][Other(d)]
  BY DEF Real
<1>1. t \in Slot
  BY DEF Node
<1>2. m.peers[t].address = n.peers[t].address
  BY <1>1 DEF Relinks
<1>3. CASE t \in n.links[d][r]
  BY <1>2, <1>3 DEF Real
<1>4. CASE t \notin n.links[d][r]
  <2>1. d = side /\ r \in new /\ t = s
    BY <1>4, OtherSide DEF Relinks
  <2> QED
    BY <1>2, <1>4, <2>1 DEF Linked
<1> QED
  BY <1>3, <1>4

(* Links stay real where neither links nor addresses change.               *)
LEMMA SameLinksReal ==
    ASSUME NEW n \in Node, NEW m \in Node, NEW C, Real(n, C),
           SameLinks(n, m), \A s \in Slot : m.peers[s].address = n.peers[s].address
    PROVE  Real(m, C)
BY DEF Real, SameLinks, Node

(* An array of what the peer may claim.                                    *)
LEMMA ProcessArrayReal ==
    ASSUME NEW n \in Node, NEW C, Real(n, C), NEW s \in Slot, NEW remote \in Side,
           NEW H \in SUBSET Hash, n.peers[s].address \in Address,
           H \subseteq C[n.peers[s].address][remote]
    PROVE  Real(ProcessArray(n, s, remote, H).node, C)
<1> DEFINE m == ProcessArray(n, s, remote, H).node
           local == Other(remote)
           new == Matching(n, local, H)
<1>1. local \in Side /\ Other(local) = remote
  BY DEF Side, Other
<1>2. m \in Node /\ m.peers[s].address = n.peers[s].address
  BY ProcessArrayType DEF SameTable
<1>3. m = n \/ Relinks(n, m, s, local, new)
  BY ProcessArrayEffect DEF ArrayEffect
<1>4. new \in SUBSET Resource /\ \A r \in new : ResourceHash[r] \in H
  BY <1>1 DEF Matching, Node
<1> HIDE DEF m, local, new
<1>5. Real(m, C)
  BY <1>1, <1>2, <1>3, <1>4, RelinksReal
<1> QED
  BY <1>5 DEF m

(* A packet with one array from a peer that may claim what it says.        *)
LEMMA PacketReal ==
    ASSUME NEW n \in Node, NEW C, Real(n, C), NEW s \in Slot, NEW p \in Packet, NEW blob,
           n.peers[s].address \in Address,
           Truthful(C[n.peers[s].address], p), Single(p)
    PROVE  Real(uccn_process_packet(n, s, p, blob).node, C)
<1> DEFINE m == uccn_process_packet(n, s, p, blob).node
           a == n.peers[s].address
<1>1. PacketEffect(n, m, s, p)
  BY ProcessPacketEffect
<1>2. m \in Node /\ SameTable(n, m)
  BY ProcessPacketType
<1>3. /\ "tracker" \in Side /\ "provider" \in Side
      /\ Other("tracker") = "provider" /\ Other("provider") = "tracker"
  BY DEF Side, Other
<1> HIDE DEF m
<1>4. CASE p.kind = "link"
  <2>1. PICK f \in Node : TrackedEffect(n, f, s, p.arrays) /\ ProvidedEffect(f, m, s, p.arrays)
    BY <1>1, <1>4 DEF PacketEffect, GroupEffect
  <2>2. Real(f, C) /\ SameTable(n, f)
    <3>1. CASE "tracker" \in DOMAIN p.arrays /\ 0 \notin p.arrays["tracker"]
      BY <1>3, <2>1, <3>1, ArraysOfPacket, ProcessArrayReal, ProcessArrayType
         DEF TrackedEffect, Truthful
    <3>2. CASE ~("tracker" \in DOMAIN p.arrays /\ 0 \notin p.arrays["tracker"])
      BY <2>1, <3>2 DEF TrackedEffect, SameTable
    <3> QED
      BY <3>1, <3>2
  <2>3. f.peers[s].address = a
    BY <2>2 DEF SameTable
  <2>4. CASE SameLinks(f, m) /\ SameTable(f, m)
    <3>1. SameLinks(f, m) /\ \A t \in Slot : m.peers[t].address = f.peers[t].address
      BY <2>4 DEF SameTable
    <3>2. Real(m, C)
      BY <1>2, <2>1, <2>2, <3>1, SameLinksReal
    <3> QED
      BY <3>2 DEF m
  <2>5. ASSUME NEW H \in SUBSET Hash, "provider" \in DOMAIN p.arrays,
               H = p.arrays["provider"],
               SameLinks(ProcessArray(f, s, "provider", H).node, m),
               SameTable(ProcessArray(f, s, "provider", H).node, m)
        PROVE  Real(m, C)
    <3> DEFINE g == ProcessArray(f, s, "provider", H).node
    <3>1. H \subseteq C[a]["provider"]
      BY <2>5 DEF Truthful
    <3>2. g \in Node
      BY <1>3, ProcessArrayType
    <3>3. Real(g, C)
      BY <1>3, <2>2, <2>3, <3>1, ProcessArrayReal
    <3> HIDE DEF g
    <3>4. SameLinks(g, m) /\ \A t \in Slot : m.peers[t].address = g.peers[t].address
      BY <2>5 DEF g, SameTable
    <3> QED
      BY <1>2, <3>2, <3>3, <3>4, SameLinksReal
  <2>6. CASE ~(SameLinks(f, m) /\ SameTable(f, m))
    <3>1. PICK H \in SUBSET Hash :
            /\ "provider" \in DOMAIN p.arrays
            /\ "tracker" \notin DOMAIN p.arrays => H = p.arrays["provider"]
            /\ SameLinks(ProcessArray(f, s, "provider", H).node, m)
            /\ SameTable(ProcessArray(f, s, "provider", H).node, m)
      BY <2>1, <2>6 DEF ProvidedEffect
    <3>2. H = p.arrays["provider"]
      BY <3>1 DEF Single
    <3> QED
      BY <2>5, <3>1, <3>2 DEF m
  <2> QED
    BY <2>4, <2>6
<1>5. CASE p.kind # "link"
  <2>1. PICK w \in Node :
          /\ SameLinks(n, w) /\ SameTable(n, w)
          /\ \/ m = w
             \/ \E r \in Resource :
                   /\ p.kind = "content" /\ ResourceHash[r] = p.hash
                   /\ m = uccn_link(w, "tracker", r, s).node
    BY <1>1, <1>5 DEF PacketEffect, ContentEffect
  <2>2. Real(w, C) /\ w.peers[s].address = a
    BY <2>1, SameLinksReal DEF SameTable
  <2>3. ASSUME NEW r \in Resource, p.kind = "content", ResourceHash[r] = p.hash,
               m = uccn_link(w, "tracker", r, s).node
        PROVE  Real(m, C)
    <3> DEFINE new == Linked(w, "tracker", s) \cup {r}
    <3>1. m = w \/ Relinks(w, m, s, "tracker", new)
      BY <1>3, <2>3, LinkEffect
    <3>2. new \in SUBSET Resource /\ \A q \in new : q \in Linked(w, "tracker", s) \/ q = r
      BY DEF Linked
    <3>3. ResourceHash[r] \in C[a]["provider"]
      BY <2>3 DEF Truthful
    <3>4. m.peers[s].address = w.peers[s].address
      BY <1>2, <2>2 DEF SameTable
    <3> HIDE DEF new
    <3> QED
      BY <1>2, <1>3, <2>2, <3>1, <3>2, <3>3, <3>4, RelinksReal
  <2>4. Real(m, C)
    BY <2>1, <2>2, <2>3
  <2> QED
    BY <2>4 DEF m
<1> QED
  BY <1>4, <1>5

(* A slot that is taken had no links.                                      *)
LEMMA RegistersReal ==
    ASSUME NEW n \in Node, NEW m \in Node, NEW C, Real(n, C), Counted(n),
           NEW slot, NEW a \in Address, NEW d, Registers(n, m, slot, a, d)
    PROVE  Real(m, C)
<1> SUFFICES ASSUME NEW side \in Side, NEW r \in Resource, NEW s \in m.links[side][r]
             PROVE  /\ m.peers[s].address \in Address
                    /\ ResourceHash[r] \in C[m.peers[s].address][Other(side)]
  BY DEF Real
<1>1. s \in n.links[side][r] /\ s \in Slot
  BY DEF Registers, Node
<1>2. s \in Registered(n)
  BY <1>1 DEF Counted, Linked
<1>3. m.peers[s].address = n.peers[s].address
  <2>1. slot \in Registered(n) => n.peers[slot].address = a
    BY RegistersSlots
  <2>2. m.peers[slot].address = a /\ \A t \in Slot \ {slot} : m.peers[t] = n.peers[t]
    BY DEF Registers
  <2> QED
    BY <1>1, <1>2, <2>1, <2>2
<1> QED
  BY <1>1, <1>3 DEF Real

(* A probe that moves no peer keeps the peers that are linked.             *)
LEMMA ProbeReal ==
    ASSUME NEW n \in Node, NEW C, Real(n, C), Counted(n), Unique(n), NEW now_ \in Nat,
           NEW m \in uccn_probe_endpoints(n, now_), ~Moves(n, m)
    PROVE  Real(m, C)
<1>1. m \in Node /\ Counted(m)
  BY ProbeEffect, ProbeCounted
<1>2. PICK k \in 0 .. MaxPeers : \E q \in [1 .. k -> Registered(n)] :
          Renumbered(n, m, k, q, now_)
  BY ProbeEffect
<1>3. PICK q \in [1 .. k -> Registered(n)] : Renumbered(n, m, k, q, now_)
  BY <1>2
<1> SUFFICES ASSUME NEW side \in Side, NEW r \in Resource, NEW s \in m.links[side][r]
             PROVE  /\ m.peers[s].address \in Address
                    /\ ResourceHash[r] \in C[m.peers[s].address][Other(side)]
  BY DEF Real
<1>4. s \in Slot /\ s \in n.links[side][r]
  BY <1>1, <1>3 DEF Node, Renumbered
<1>5. s \in Registered(m)
  BY <1>1, <1>4 DEF Counted, Linked
<1>6. m.peers[s].address = n.peers[s].address
  BY <1>5 DEF Moves
<1> QED
  BY <1>4, <1>6 DEF Real

-----------------------------------------------------------------------------
(* Operations of a node *)

(* A node whose endpoints and table keep their occupants.                  *)
LEMMA NodeInvKept ==
    ASSUME NEW n \in Node, NEW m \in Node, NodeInv(n), SameOccupants(n, m),
           Truthful(Claimed(m), m.outgoing), Expected(m.outgoing)
    PROVE  NodeInv(m)
<1>1. Unique(m)
  BY SameOccupantsUnique DEF NodeInv
<1>2. Addressed(m)
  BY SlotsRegistered DEF NodeInv, Addressed, SameOccupants, Registered
<1> QED
  BY <1>1, <1>2 DEF NodeInv

(* A datagram with one array from an address that may claim what it says.  *)
LEMMA IncomingKeeps ==
    ASSUME NEW n \in Node, NodeInv(n), NEW a \in Address, NEW p \in Packet, NEW blob,
           NEW now_ \in Nat, NEW C, Truthful(C[a], p), Single(p)
    PROVE  LET result == uccn_process_incoming(n, a, p, blob, now_)
           IN  /\ result.node \in Node
               /\ result.node.endpoints = n.endpoints
               /\ NodeInv(result.node)
               /\ result.reply \in {None, result.node.outgoing}
               /\ Counted(n) /\ Real(n, C) => Counted(result.node) /\ Real(result.node, C)
<1> DEFINE result == uccn_process_incoming(n, a, p, blob, now_)
           registered == uccn_register_peer(n, a, now_)
           w == registered.node
           slot == registered.slot
           m == uccn_process_packet(w, slot, p, blob).node
<1>1. /\ result.node = IF slot = 0 THEN n ELSE m
      /\ result.reply \in {None, result.node.outgoing}
  BY DEF uccn_process_incoming
<1>2. Counted(n) => Counted(result.node)
  BY IncomingCounted
<1> HIDE DEF result
<1>3. CASE n.num_peers = MaxPeers
  <2>1. result.node = n
    BY <1>1, <1>3, RegisterEffect
  <2> QED
    BY <1>1, <2>1 DEF result
<1>4. CASE n.num_peers # MaxPeers
  <2>1. w \in Node /\ Registers(n, w, slot, a, now_ + LivelinessTimeout)
    BY <1>4, RegisterEffect
  <2>2. w.outgoing = n.outgoing
    BY DEF uccn_register_peer, Node
  <2> HIDE DEF registered
  <2>3. slot \in Slot /\ slot # 0 /\ w.peers[slot].address = a /\ w.endpoints = n.endpoints
    BY <2>1 DEF Registers, Slot
  <2>4. m \in Node /\ SameTable(w, m)
    BY <2>1, <2>3, ProcessPacketType
  <2>5. Claimed(w) = Claimed(n) /\ Claimed(m) = Claimed(n)
    <3>1. m.endpoints = n.endpoints
      BY <2>3, <2>4 DEF SameTable
    <3> HIDE DEF w, m
    <3> QED
      BY <2>3, <3>1 DEF Claimed
  <2>6. NodeInv(w)
    <3>1. Unique(w)
      BY <2>1, RegistersUnique DEF NodeInv
    <3>2. Addressed(w)
      <4>1. Registered(w) = Registered(n) \cup {slot} /\ Registered(n) \subseteq Slot
        BY <2>1, RegistersSlots
      <4>2. \A s \in Slot \ {slot} : w.peers[s] = n.peers[s]
        BY <2>1 DEF Registers
      <4>3. \A s \in Registered(n) : n.peers[s].address \in Address
        BY DEF NodeInv, Addressed
      <4> HIDE DEF w, slot
      <4> QED
        BY <2>3, <4>1, <4>2, <4>3 DEF Addressed
    <3> QED
      BY <2>2, <2>5, <3>1, <3>2 DEF NodeInv
  <2>7. Truthful(Claimed(m), m.outgoing) /\ Expected(m.outgoing)
    BY <2>1, <2>3, <2>5, <2>6, PacketReply DEF NodeInv
  <2>8. Counted(n) /\ Real(n, C) => Real(m, C)
    <3> SUFFICES ASSUME Counted(n), Real(n, C) PROVE Real(m, C)
      OBVIOUS
    <3>1. Real(w, C)
      BY <2>1, RegistersReal
    <3> QED
      BY <2>1, <2>3, <3>1, PacketReal
  <2> HIDE DEF w, m
  <2>9. NodeInv(m)
    BY <2>1, <2>4, <2>6, <2>7, SameTableOccupants, NodeInvKept
  <2>10. result.node = m /\ m.endpoints = n.endpoints
    BY <1>1, <2>3, <2>4 DEF SameTable
  <2> QED
    BY <1>1, <1>2, <2>4, <2>8, <2>9, <2>10 DEF result
<1> QED
  BY <1>3, <1>4

-----------------------------------------------------------------------------
(* The network *)

(* A step of node x that adds datagrams of D to the network.               *)
LEMMA NodeStep ==
    ASSUME NetInv, NEW x \in Address, NEW n \in Node, Becomes(x, n),
           \A side \in Side : nodes[x].endpoints[side] \subseteq n.endpoints[side],
           NodeInv(n),
           NEW D \in SUBSET Datagram, network' \subseteq network \cup D,
           \A m \in D : /\ m.from = x
                        /\ Truthful(Claimed(n), m.packet)
                        /\ m.packet \in Incoming,
           now' \in 1 .. MaxTime, moved' \in BOOLEAN,
           ~moved' => ~moved /\ Counted(n) /\ Real(n, Claims)
    PROVE  NetInv'
<1>1. nodes \in [Address -> Node] /\ network \subseteq Datagram
  BY DEF NetInv, TypeOK
<1>2. nodes' = [nodes EXCEPT ![x] = n]
  BY DEF Becomes
<1>3. nodes'[x] = n /\ \A y \in Address \ {x} : nodes'[y] = nodes[y]
  BY <1>1, <1>2
<1>4. TypeOK'
  BY <1>1, <1>2 DEF TypeOK
<1>5. \A y \in Address : Claims[y] = Claimed(nodes[y]) /\ Claims'[y] = Claimed(nodes'[y])
  BY DEF Claims
<1>6. /\ \A y \in Address, side \in Side : Claims[y][side] \subseteq Claims'[y][side]
      /\ \A y \in Address, p \in Packet : Truthful(Claims[y], p) => Truthful(Claims'[y], p)
  <2> SUFFICES ASSUME NEW y \in Address
               PROVE  /\ \A side \in Side : Claims[y][side] \subseteq Claims'[y][side]
                      /\ \A p \in Packet : Truthful(Claims[y], p) => Truthful(Claims'[y], p)
    OBVIOUS
  <2>1. \A side \in Side : nodes[y].endpoints[side] \subseteq nodes'[y].endpoints[side]
    BY <1>3
  <2> QED
    BY <1>5, <2>1, ClaimsGrow
<1>7. ASSUME NEW m \in network' PROVE Truthful(Claims'[m.from], m.packet) /\ m.packet \in Incoming
  <2>1. m.from \in Address /\ m.packet \in Packet
    BY <1>4 DEF TypeOK, Datagram
  <2>2. CASE m \in network
    BY <1>6, <2>1, <2>2 DEF NetInv
  <2>3. CASE m \in D
    BY <1>3, <1>5, <2>3
  <2> QED
    BY <2>2, <2>3
<1>8. \A y \in Address : NodeInv(nodes'[y])
  BY <1>3 DEF NetInv
<1>9. ASSUME ~moved', NEW y \in Address PROVE Counted(nodes'[y]) /\ Real(nodes'[y], Claims')
  <2>1. Counted(nodes'[y]) /\ Real(nodes'[y], Claims)
    BY <1>3, <1>9 DEF NetInv
  <2>2. ASSUME NEW side \in Side PROVE Other(side) \in Side
    BY OtherSide
  <2>3. Real(nodes'[y], Claims')
    BY <1>6, <2>1, <2>2 DEF Real
  <2> QED
    BY <2>1, <2>3
<1> QED
  BY <1>4, <1>7, <1>8, <1>9 DEF NetInv

(* What a node sends, and what finds room.                                 *)
LEMMA SendsType ==
    ASSUME NEW x \in Address, NEW to, NEW p \in Packet
    PROVE  /\ Sends(x, to, p) \in SUBSET Datagram
           /\ \A m \in Sends(x, to, p) : m.from = x /\ m.packet = p
BY DEF Sends, Datagram

(* The network delivers nothing that was not sent.                         *)
LEMMA TransmitAdds ==
    ASSUME NEW kept \in SUBSET network, NEW D, Transmit(kept, D)
    PROVE  network' \subseteq network \cup D
BY DEF Transmit

(* A node that only sends keeps its peers and its links.                   *)
LEMMA SendingStep ==
    ASSUME NetInv, NEW x \in Address, NEW n \in Node, Becomes(x, n),
           SameOccupants(nodes[x], n), SameLinks(nodes[x], n),
           Truthful(Claimed(n), n.outgoing), Expected(n.outgoing),
           NEW to,
           \/ n.outgoing \in Incoming /\ Transmit(network, Sends(x, to, n.outgoing))
           \/ UNCHANGED network,
           UNCHANGED <<now, moved>>
    PROVE  NetInv'
<1> DEFINE D == IF n.outgoing \in Incoming THEN Sends(x, to, n.outgoing) ELSE {}
<1>1. nodes[x] \in Node /\ now \in 1 .. MaxTime /\ moved \in BOOLEAN /\ NodeInv(nodes[x])
  BY DEF NetInv, TypeOK
<1>2. NodeInv(n)
  BY <1>1, NodeInvKept
<1>3. n.outgoing \in Packet
  BY DEF Node
<1>4. /\ D \in SUBSET Datagram
      /\ \A m \in D : m.from = x /\ m.packet = n.outgoing /\ n.outgoing \in Incoming
  BY <1>3, SendsType
<1>5. network' \subseteq network \cup D
  BY TransmitAdds
<1> HIDE DEF D
<1>6. \A m \in D : m.from = x /\ Truthful(Claimed(n), m.packet) /\ m.packet \in Incoming
  BY <1>4
<1>7. \A side \in Side : nodes[x].endpoints[side] \subseteq n.endpoints[side]
  BY DEF SameOccupants
<1>8. ASSUME ~moved' PROVE ~moved /\ Counted(n) /\ Real(n, Claims)
  <2>1. ~moved /\ Counted(nodes[x]) /\ Real(nodes[x], Claims)
    BY <1>8 DEF NetInv
  <2>2. Counted(n)
    BY <1>1, <2>1, SameLinksCounted DEF SameOccupants
  <2>3. Real(n, Claims)
    BY <1>1, <2>1, SameLinksReal DEF SameOccupants
  <2> QED
    BY <2>1, <2>2, <2>3
<1>9. now' \in 1 .. MaxTime /\ moved' \in BOOLEAN
  BY <1>1
<1> QED
  BY <1>2, <1>4, <1>5, <1>6, <1>7, <1>8, <1>9, NodeStep

(* The parts of the invariant, one by one.                                 *)
LEMMA StateTypes ==
    ASSUME NetInv
    PROVE  /\ \A x \in Address : nodes[x] \in Node /\ NodeInv(nodes[x])
           /\ network \subseteq Datagram
           /\ now \in 1 .. MaxTime /\ now \in Nat
           /\ moved \in BOOLEAN
           /\ ~moved => \A x \in Address : Counted(nodes[x]) /\ Real(nodes[x], Claims)
BY NetworkAssumption DEF NetInv, TypeOK

(* The invariant holds before anything is sent.                            *)
LEMMA InitInv == Init => NetInv
<1> SUFFICES ASSUME Init PROVE NetInv
  OBVIOUS
<1> DEFINE n == uccn_node_init
<1>1. n \in Node
  BY InitType
<1>2. TypeOK
  <2>1. nodes = [x \in Address |-> n] /\ network = {} /\ now = 1 /\ moved = FALSE
    BY DEF Init
  <2> HIDE DEF n
  <2>2. nodes \in [Address -> Node]
    BY <1>1, <2>1
  <2> QED
    <3>1. 1 \in 1 .. MaxTime
      BY NetworkAssumption
    <3>2. network \in SUBSET Datagram
      BY <2>1
    <3> QED
      BY <2>1, <2>2, <3>1, <3>2 DEF TypeOK
<1>3. Registered(n) = {} /\ n.outgoing = None
      /\ \A side \in Side, r \in Resource : n.links[side][r] = {}
  BY DEF uccn_node_init, Registered
<1> HIDE DEF n
<1>4. NodeInv(n)
  BY <1>3, PlainPackets DEF NodeInv, Unique, Addressed
<1>5. Counted(n) /\ Real(n, Claims)
  BY <1>3 DEF Counted, Linked, Real
<1>6. \A x \in Address : nodes[x] = n
  BY DEF Init, n
<1> QED
  BY <1>2, <1>4, <1>5, <1>6 DEF NetInv, Init

(* uccn_track and uccn_advertise: a node may only claim more than before.  *)
LEMMA AddEndpointStep ==
    ASSUME NetInv, NEW x \in Address, NEW side \in Side, NEW r \in Resource,
           AddEndpoint(x, side, r)
    PROVE  NetInv'
<1> DEFINE o == nodes[x]
           n == uccn_add_endpoint(o, side, r)
<1>1. o \in Node /\ NodeInv(o)
  BY StateTypes
<1>2. n \in Node
  BY <1>1, AddEndpointType
<1>3. /\ n.num_peers = o.num_peers /\ n.peers = o.peers
      /\ n.links = o.links /\ n.outgoing = o.outgoing
      /\ \A d \in Side : o.endpoints[d] \subseteq n.endpoints[d]
  BY <1>1 DEF uccn_add_endpoint, Node
<1>4. Becomes(x, n) /\ UNCHANGED <<network, now, moved>>
  BY DEF AddEndpoint
<1> HIDE DEF n
<1>5. Truthful(Claimed(n), n.outgoing)
  <2>1. o.outgoing \in Packet
    BY <1>1 DEF Node
  <2> QED
    BY <1>1, <1>3, <2>1, ClaimsGrow DEF NodeInv
<1>6. NodeInv(n)
  BY <1>1, <1>3, <1>5 DEF NodeInv, Unique, Addressed, Registered
<1>7. ~moved' => ~moved /\ Counted(n) /\ Real(n, Claims)
  <2> SUFFICES ASSUME ~moved' PROVE ~moved /\ Counted(n) /\ Real(n, Claims)
    OBVIOUS
  <2>1. ~moved /\ Counted(o) /\ Real(o, Claims)
    BY <1>4, StateTypes
  <2>2. SameLinks(o, n)
    BY <1>3 DEF SameLinks
  <2> QED
    BY <1>1, <1>2, <1>3, <2>1, <2>2, SameLinksCounted, SameLinksReal
<1>8. /\ now' \in 1 .. MaxTime /\ moved' \in BOOLEAN /\ network' \subseteq network \cup {}
      /\ {} \in SUBSET Datagram
  BY <1>4, StateTypes
<1> QED
  BY <1>2, <1>3, <1>4, <1>6, <1>7, <1>8, NodeStep

(* uccn_post, complete or failed half-way.                                 *)
LEMMA PostStep ==
    ASSUME NetInv, NEW x \in Address, NEW r \in Resource,
           Post(x, r) \/ PostFailed(x, r)
    PROVE  NetInv'
<1> DEFINE o == nodes[x]
           slots == o.links["provider"][r]
<1>1. o \in Node /\ NodeInv(o) /\ now \in Nat
  BY StateTypes
<1>2. r \in o.endpoints["provider"]
  BY DEF Post, PostFailed
<1>3. ASSUME NEW n, n.endpoints = o.endpoints
      PROVE  /\ Claimed(n) = Claimed(o)
             /\ ResourceHash[r] \in Claimed(n)["provider"]
  BY <1>2, <1>3 DEF Claimed, Side
<1>4. CASE Post(x, r)
  <2> DEFINE n == uccn_post(o, r, slots, now)
  <2>1. n \in Node /\ SameOccupants(o, n) /\ SameLinks(o, n)
    BY <1>1, PostType
  <2>2. n.outgoing = Content(ResourceHash[r])
    BY <1>1 DEF uccn_post, Node
  <2>3. /\ Becomes(x, n)
        /\ Transmit(network, Sends(x, AddressesOf(o, slots), Content(ResourceHash[r])))
        /\ UNCHANGED <<now, moved>>
    BY <1>4 DEF Post
  <2> HIDE DEF n
  <2>4. Truthful(Claimed(n), n.outgoing) /\ n.outgoing \in Incoming
    BY <1>3, <2>1, <2>2, PlainPackets, HashOfResource DEF SameOccupants
  <2>5. Expected(n.outgoing)
    BY <2>4 DEF Expected
  <2> QED
    BY <2>1, <2>2, <2>3, <2>4, <2>5, SendingStep
<1>5. CASE PostFailed(x, r)
  <2>1. PICK n \in {PostPackFailed(o, r), PostTooBig(o)} : Becomes(x, n)
    BY <1>5 DEF PostFailed
  <2>2. n \in Node /\ SameTable(o, n) /\ SameLinks(o, n)
    BY <1>1, PostFailedType
  <2>3. n.outgoing \in {Content(ResourceHash[r]), Plain("header"), Plain("truncated"), o.outgoing}
    BY <1>1 DEF PostPackFailed, PostTooBig, Node
  <2>4. SameOccupants(o, n)
    BY <2>2, SameTableOccupants
  <2>5. Truthful(Claimed(n), n.outgoing) /\ Expected(n.outgoing)
    <3>1. Claimed(n) = Claimed(o) /\ ResourceHash[r] \in Claimed(n)["provider"]
      BY <1>3, <2>4 DEF SameOccupants
    <3> QED
      BY <1>1, <2>3, <3>1, PlainPackets, HashOfResource DEF NodeInv, Expected
  <2>6. UNCHANGED <<network, now, moved>>
    BY <1>5 DEF PostFailed
  <2> QED
    BY <2>1, <2>2, <2>4, <2>5, <2>6, SendingStep
<1> QED
  BY <1>4, <1>5

(* A datagram is processed, and perhaps answered.                          *)
LEMMA DeliverStep ==
    ASSUME NetInv, NEW m \in network, NEW kept \in SUBSET network, NEW blob,
           Deliver(m, kept, blob)
    PROVE  NetInv'
<1> DEFINE x == m.to
           o == nodes[x]
           result == uccn_process_incoming(o, m.from, m.packet, blob, now)
           n == result.node
           D == IF result.reply = None THEN {} ELSE Sends(x, {m.from}, result.reply)
<1>1. m.from \in Address /\ x \in Address /\ m.packet \in Packet
  BY StateTypes DEF Datagram
<1>2. o \in Node /\ NodeInv(o) /\ now \in Nat
  BY <1>1, StateTypes
<1>3. Truthful(Claims[m.from], m.packet) /\ Single(m.packet)
  BY ExpectedSingle DEF NetInv, Expected
<1>4. /\ n \in Node /\ n.endpoints = o.endpoints /\ NodeInv(n)
      /\ result.reply \in {None, n.outgoing}
      /\ Counted(o) /\ Real(o, Claims) => Counted(n) /\ Real(n, Claims)
  BY <1>1, <1>2, <1>3, IncomingKeeps
<1>5. /\ Becomes(x, n) /\ Transmit(kept, D) /\ UNCHANGED <<now, moved>>
  BY DEF Deliver
<1> HIDE DEF result
<1>6. network' \subseteq network \cup D
  BY <1>5, TransmitAdds
<1>7. /\ D \in SUBSET Datagram
      /\ \A d \in D : d.from = x /\ d.packet = n.outgoing /\ n.outgoing # None
  <2>1. CASE D = {}
    BY <2>1
  <2>2. CASE D # {}
    <3>1. result.reply = n.outgoing /\ n.outgoing \in Packet /\ n.outgoing # None
          /\ D = Sends(x, {m.from}, n.outgoing)
      BY <1>4, <2>2 DEF Node
    <3> QED
      BY <1>1, <3>1, SendsType
  <2> QED
    BY <2>1, <2>2
<1> HIDE DEF D, n
<1>8. \A d \in D : d.from = x /\ Truthful(Claimed(n), d.packet) /\ d.packet \in Incoming
  BY <1>4, <1>7 DEF NodeInv, Expected
<1>9. ~moved' => ~moved /\ Counted(n) /\ Real(n, Claims)
  BY <1>1, <1>4, <1>5, StateTypes
<1>10. \A side \in Side : o.endpoints[side] \subseteq n.endpoints[side]
  BY <1>4
<1>11. now' \in 1 .. MaxTime /\ moved' \in BOOLEAN
  BY <1>5, StateTypes
<1> QED
  BY <1>1, <1>4, <1>5, <1>6, <1>7, <1>8, <1>9, <1>10, <1>11, NodeStep

(* uccn_assert_liveliness.                                                 *)
LEMMA AssertStep ==
    ASSUME NetInv, NEW x \in Address, AssertLiveliness(x)
    PROVE  NetInv'
<1> DEFINE o == nodes[x]
           n == uccn_assert_liveliness(o, Due(o, now), now)
<1>1. o \in Node /\ NodeInv(o) /\ now \in Nat
  BY StateTypes
<1>2. n \in Node /\ SameOccupants(o, n) /\ SameLinks(o, n)
  BY <1>1, AssertLivelinessType
<1>3. n.outgoing = Keepalive
  BY <1>1 DEF uccn_assert_liveliness, Node
<1>4. /\ Becomes(x, n)
      /\ Transmit(network, Sends(x, AddressesOf(o, Due(o, now)), Keepalive))
      /\ UNCHANGED <<now, moved>>
  BY DEF AssertLiveliness
<1> HIDE DEF n
<1>5. Expected(Keepalive) /\ Truthful(Claimed(n), Keepalive) /\ Keepalive \in Incoming
  BY PlainPackets DEF Expected
<1> QED
  BY <1>2, <1>3, <1>4, <1>5, SendingStep

(* uccn_discover_peers lists some of the node's trackers.                  *)
LEMMA DiscoverStep ==
    ASSUME NetInv, NEW x \in Address, DiscoverPeers(x)
    PROVE  NetInv'
<1> DEFINE o == nodes[x]
           n == uccn_discover_peers(o)
           p == uccn_prepare_discovery_packet(o)
<1>1. o \in Node /\ NodeInv(o)
  BY StateTypes
<1>2. n \in Node /\ SameTable(o, n) /\ SameLinks(o, n)
  BY <1>1, DiscoverType
<1>3. n.outgoing = p
  BY <1>1 DEF uccn_discover_peers, Node
<1>4. Truthful(Claimed(o), p) /\ p \in Incoming
  <2>1. {ResourceHash[r] : r \in Unlinked(o)} \subseteq Claimed(o)["tracker"]
    BY DEF Unlinked, Claimed, Side
  <2>2. Truthful(Claimed(o), p)
    BY <2>1 DEF uccn_prepare_discovery_packet, Link, Truthful
  <2>3. {ResourceHash[r] : r \in Unlinked(o)} \in SUBSET Hash
    BY <1>1, <2>1, ClaimedType DEF Side
  <2>4. p \in Incoming
    BY <2>3 DEF uccn_prepare_discovery_packet, Incoming
  <2> QED
    BY <2>2, <2>4
<1>5. /\ Becomes(x, n) /\ Transmit(network, Sends(x, Address \ {x}, p))
      /\ UNCHANGED <<now, moved>>
  BY DEF DiscoverPeers
<1> HIDE DEF n, p
<1>6. SameOccupants(o, n) /\ Claimed(n) = Claimed(o) /\ Expected(p)
  BY <1>2, <1>4, SameTableOccupants DEF SameTable, Claimed, Expected
<1> QED
  BY <1>2, <1>3, <1>4, <1>5, <1>6, SendingStep

(* uccn_probe_endpoints drops links, and moves peers only once moved is    *)
(* set.                                                                    *)
LEMMA ProbeStep ==
    ASSUME NetInv, NEW x \in Address, ProbeEndpoints(x)
    PROVE  NetInv'
<1> DEFINE o == nodes[x]
<1>1. o \in Node /\ NodeInv(o) /\ now \in Nat
  BY StateTypes
<1>2. PICK n \in uccn_probe_endpoints(o, now) :
        /\ Becomes(x, n) /\ moved' = (moved \/ Moves(o, n)) /\ UNCHANGED <<network, now>>
  BY DEF ProbeEndpoints
<1>3. n \in Node /\ n.endpoints = o.endpoints /\ Unique(n)
  BY <1>1, ProbeKeeps DEF NodeInv
<1>4. n.outgoing = o.outgoing
  BY <1>1, <1>2 DEF uccn_probe_endpoints, Compact, uccn_unlink_dead_peers, MarkAlive, Node
<1>5. Addressed(n)
  <2>1. PICK k \in 0 .. MaxPeers : \E q \in [1 .. k -> Registered(o)] :
          Renumbered(o, n, k, q, now)
    BY <1>1, ProbeEffect
  <2>2. PICK q \in [1 .. k -> Registered(o)] : Renumbered(o, n, k, q, now)
    BY <2>1
  <2>3. Registered(n) = 1 .. k
    BY <2>2 DEF Registered, Renumbered
  <2>4. \A i \in 1 .. k : q[i] \in Registered(o) /\ n.peers[i].address = o.peers[q[i]].address
    BY <1>1, <1>3, <2>2, RenumberedPeers
  <2> QED
    BY <1>1, <2>3, <2>4 DEF Addressed, NodeInv
<1>6. NodeInv(n)
  <2>1. Claimed(n) = Claimed(o)
    BY <1>3 DEF Claimed
  <2> QED
    BY <1>1, <1>3, <1>4, <1>5, <2>1 DEF NodeInv
<1>7. moved \in BOOLEAN /\ now' \in 1 .. MaxTime /\ moved' \in BOOLEAN
  BY <1>2, StateTypes DEF Moves
<1>8. ~moved' => ~moved /\ Counted(n) /\ Real(n, Claims)
  <2> SUFFICES ASSUME ~moved' PROVE ~moved /\ Counted(n) /\ Real(n, Claims)
    OBVIOUS
  <2>1. ~moved /\ ~Moves(o, n)
    BY <1>2
  <2>2. Counted(o) /\ Real(o, Claims) /\ Unique(o)
    BY <1>1, <2>1, StateTypes DEF NodeInv
  <2> QED
    BY <1>1, <2>1, <2>2, ProbeCounted, ProbeReal
<1>9. /\ network' \subseteq network \cup {} /\ {} \in SUBSET Datagram
      /\ \A side \in Side : o.endpoints[side] \subseteq n.endpoints[side]
  BY <1>2, <1>3
<1> QED
  BY <1>2, <1>3, <1>6, <1>7, <1>8, <1>9, NodeStep

(* Steps that leave the nodes alone.                                       *)
LEMMA QuietStep ==
    ASSUME NetInv, UNCHANGED <<nodes, moved>>, network' \subseteq network,
           now' \in 1 .. MaxTime
    PROVE  NetInv'
<1>1. TypeOK'
  BY DEF NetInv, TypeOK
<1>2. Claims' = Claims
  BY DEF Claims
<1>3. \A x \in Address : nodes'[x] = nodes[x]
  OBVIOUS
<1> QED
  BY <1>1, <1>2, <1>3 DEF NetInv

(* The network keeps its invariant, whatever datagrams are lost, sent      *)
(* twice or overtaken.                                                     *)
THEOREM NetworkInvariance == Spec => []NetInv
<1>1. NetInv /\ [Next]_vars => NetInv'
  <2> SUFFICES ASSUME NetInv, [Next]_vars PROVE NetInv'
    OBVIOUS
  <2>1. ASSUME NEW x \in Address, NEW side \in Side, NEW r \in Resource,
               AddEndpoint(x, side, r)
        PROVE  NetInv'
    BY <2>1, AddEndpointStep
  <2>2. ASSUME NEW x \in Address, NEW r \in Resource, Post(x, r) \/ PostFailed(x, r)
        PROVE  NetInv'
    BY <2>2, PostStep
  <2>3. ASSUME NEW m \in network, NEW kept \in {network, network \ {m}}, NEW blob,
               Deliver(m, kept, blob)
        PROVE  NetInv'
    <3>1. kept \in SUBSET network
      OBVIOUS
    <3> QED
      BY <2>3, <3>1, DeliverStep
  <2>4. ASSUME NEW m \in network, Lose(m) PROVE NetInv'
    BY <2>4, StateTypes, QuietStep DEF Lose
  <2>5. ASSUME NEW x \in Address, AssertLiveliness(x) PROVE NetInv'
    BY <2>5, AssertStep
  <2>6. ASSUME NEW x \in Address, DiscoverPeers(x) PROVE NetInv'
    BY <2>6, DiscoverStep
  <2>7. ASSUME NEW x \in Address, ProbeEndpoints(x) PROVE NetInv'
    BY <2>7, ProbeStep
  <2>8. CASE Tick
    <3>1. PICK d \in TickStep : now' = now + d /\ now' <= MaxTime
      BY <2>8 DEF Tick
    <3>2. now' \in 1 .. MaxTime
      <4>1. d \in Nat /\ now \in Nat /\ now >= 1 /\ MaxTime \in Nat
        BY StateTypes, NetworkAssumption
      <4> QED
        BY <3>1, <4>1
    <3> QED
      BY <2>8, <3>2, QuietStep DEF Tick
  <2>9. CASE UNCHANGED vars
    BY <2>9, StateTypes, QuietStep DEF vars
  <2> QED
    BY <2>1, <2>2, <2>3, <2>4, <2>5, <2>6, <2>7, <2>8, <2>9 DEF Next
<1> QED
  BY <1>1, InitInv, PTL DEF Spec

(* UccnNetwork is type correct.                                            *)
THEOREM NetworkTypeCorrect == Spec => []TypeOK
<1>1. NetInv => TypeOK
  BY DEF NetInv
<1> QED
  BY <1>1, NetworkInvariance, PTL

(* No node of a network of any size ever claims an endpoint it does not    *)
(* have: neither the replies of uccn_process_link_group, nor a keepalive's *)
(* answer, which is whatever the outgoing buffer holds, nor the posts.     *)
THEOREM PacketsAlwaysHonest == Spec => []PacketsHonest
<1>1. NetInv => PacketsHonest
  <2> SUFFICES ASSUME NetInv PROVE PacketsHonest
    OBVIOUS
  <2>1. ASSUME NEW x \in Address, NEW p \in Packet, Truthful(Claimed(nodes[x]), p)
        PROVE  Honest(x, p)
    <3>1. \A side \in Side : HashesOf(x, side) = Claimed(nodes[x])[side]
      BY DEF HashesOf, Claimed
    <3> QED
      BY <2>1, <3>1, ArraysOfPacket DEF Honest, Truthful, Side
  <2>2. ASSUME NEW m \in network PROVE Honest(m.from, m.packet)
    <3>1. m.from \in Address /\ m.packet \in Packet
      BY StateTypes DEF Datagram
    <3>2. Truthful(Claimed(nodes[m.from]), m.packet)
      BY <3>1 DEF NetInv, Claims
    <3> QED
      BY <2>1, <3>1, <3>2
  <2>3. ASSUME NEW x \in Address PROVE Honest(x, nodes[x].outgoing)
    <3>1. nodes[x].outgoing \in Packet /\ Truthful(Claimed(nodes[x]), nodes[x].outgoing)
      BY StateTypes DEF Node, NodeInv
    <3> QED
      BY <2>1, <3>1
  <2> QED
    BY <2>2, <2>3 DEF PacketsHonest
<1> QED
  BY <1>1, NetworkInvariance, PTL

(* In a network of any size the nodes send each other nothing but what     *)
(* UccnNode lets its peers send: a node that receives such packets answers *)
(* with at most one array, which is not empty when it lists what the node  *)
(* provides, and what a failed post leaves in the buffer is among them.    *)
THEOREM PacketsAlwaysExpected == Spec => []PacketsExpected
<1>1. NetInv => PacketsExpected
  BY DEF NetInv, NodeInv, Expected, PacketsExpected
<1> QED
  BY <1>1, NetworkInvariance, PTL

(* As long as probing has moved no peer to another slot, every link of     *)
(* every node is to a node that has an endpoint of the other side with the *)
(* same hash.                                                              *)
THEOREM LinksAlwaysReal == Spec => []LinksReal
<1>1. NetInv => LinksReal
  <2> SUFFICES ASSUME NetInv, ~moved, NEW x \in Address, NEW side \in Side,
                      NEW r \in Resource, NEW s \in nodes[x].links[side][r]
               PROVE  ResourceHash[r] \in HashesOf(nodes[x].peers[s].address, Other(side))
    BY DEF LinksReal
  <2> DEFINE a == nodes[x].peers[s].address
  <2>1. a \in Address /\ ResourceHash[r] \in Claims[a][Other(side)]
    BY StateTypes DEF Real
  <2>2. Other(side) \in Side
    BY OtherSide
  <2> QED
    BY <2>1, <2>2 DEF Claims, Claimed, HashesOf
<1> QED
  BY <1>1, NetworkInvariance, PTL

=============================================================================
