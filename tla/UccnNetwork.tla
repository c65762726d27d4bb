---------------------------- MODULE UccnNetwork ----------------------------
(***************************************************************************)
(* Nodes of one broadcast domain that find each other and exchange         *)
(* content over UDP.  The addresses of NodeOps are the nodes.              *)
(*                                                                         *)
(* Datagrams are lost, duplicated and reordered.  At most Capacity of them *)
(* are in flight: one that finds no room is dropped, as a socket's buffer  *)
(* drops it.                                                               *)
(***************************************************************************)
EXTENDS NodeOps

CONSTANTS
    MayTrack,      \* the resources each node may track
    MayAdvertise,  \* the resources each node may advertise
    Capacity,      \* datagrams in flight
    MaxTime,       \* the clock stops here
    TickStep       \* by how much time may pass at once

ASSUME NetworkAssumption ==
    /\ MayTrack \in [Address -> SUBSET Resource]
    /\ MayAdvertise \in [Address -> SUBSET Resource]
    /\ Capacity \in Nat
    /\ MaxTime \in Nat \ {0}
    /\ TickStep \subseteq Nat \ {0}

VARIABLES
    nodes,     \* the memory of each node
    network,   \* datagrams in flight
    now,       \* CLOCK_MONOTONIC, the same for all
    moved      \* history: whether probing has moved a peer to another slot

vars == <<nodes, network, now, moved>>

Datagram == [from : Address, to : Address, packet : Packet]

TypeOK ==
    /\ nodes \in [Address -> Node]
    /\ network \in SUBSET Datagram
    /\ now \in 1 .. MaxTime
    /\ moved \in BOOLEAN

Init ==
    /\ nodes = [x \in Address |-> uccn_node_init]
    /\ network = {}
    /\ now = 1
    /\ moved = FALSE

-----------------------------------------------------------------------------
(* sendto from x to the addresses of to.                                   *)
Sends(x, to, p) == {[from |-> x, to |-> y, packet |-> p] : y \in to \cap Address}

(* Datagrams that find room are in flight, the others are gone.            *)
Transmit(kept, datagrams) ==
    network' = IF Cardinality(kept \cup datagrams) <= Capacity
               THEN kept \cup datagrams ELSE kept

Becomes(x, n) == nodes' = [nodes EXCEPT ![x] = n]

AddressesOf(n, slots) == {n.peers[s].address : s \in slots}

(* uccn_track and uccn_advertise *)
AddEndpoint(x, side, r) ==
    /\ r \in (IF side = "tracker" THEN MayTrack ELSE MayAdvertise)[x]
    /\ Becomes(x, uccn_add_endpoint(nodes[x], side, r))
    /\ UNCHANGED <<network, now, moved>>

(* Posts content with all its sendto calls; a failed one is a lost packet. *)
(* The node's program has one thread, whose test of num_peers holds.       *)
Post(x, r) ==
    LET n     == nodes[x]
        slots == n.links["provider"][r]
    IN  /\ r \in n.endpoints["provider"]
        /\ slots # {}
        /\ Becomes(x, uccn_post(n, r, slots, now))
        /\ Transmit(network, Sends(x, AddressesOf(n, slots),
                                   Content(ResourceHash[r])))
        /\ UNCHANGED <<now, moved>>

PostFailed(x, r) ==
    /\ r \in nodes[x].endpoints["provider"]
    /\ nodes[x].links["provider"][r] # {}
    /\ \/ Becomes(x, PostPackFailed(nodes[x], r))
       \/ Becomes(x, PostTooBig(nodes[x]))
    /\ UNCHANGED <<network, now, moved>>

(* A datagram arrives; it may arrive again when it is kept.                *)
Deliver(m, kept, blob) ==
    LET result == uccn_process_incoming(nodes[m.to], m.from, m.packet, blob, now)
    IN  /\ m \in network
        /\ Becomes(m.to, result.node)
        /\ Transmit(kept, IF result.reply = None THEN {}
                          ELSE Sends(m.to, {m.from}, result.reply))
        /\ UNCHANGED <<now, moved>>

Lose(m) ==
    /\ m \in network
    /\ network' = network \ {m}
    /\ UNCHANGED <<nodes, now, moved>>

AssertLiveliness(x) ==
    LET n == nodes[x]
    IN  /\ Becomes(x, uccn_assert_liveliness(n, Due(n, now), now))
        /\ Transmit(network, Sends(x, AddressesOf(n, Due(n, now)), Keepalive))
        /\ UNCHANGED <<now, moved>>

(* A node with trackers broadcasts whenever its last probe saw one of them *)
(* without a peer; a link made since then may leave the list empty.  Its   *)
(* own broadcast comes back to it and is ignored.                          *)
DiscoverPeers(x) ==
    LET n == nodes[x]
    IN  /\ n.endpoints["tracker"] # {}
        /\ Becomes(x, uccn_discover_peers(n))
        /\ Transmit(network, Sends(x, Address \ {x}, uccn_prepare_discovery_packet(n)))
        /\ UNCHANGED <<now, moved>>

ProbeEndpoints(x) ==
    \E n \in uccn_probe_endpoints(nodes[x], now) :
        /\ Becomes(x, n)
        /\ moved' = (moved \/ Moves(nodes[x], n))
        /\ UNCHANGED <<network, now>>

Tick ==
    /\ \E d \in TickStep : now' = now + d /\ now' <= MaxTime
    /\ UNCHANGED <<nodes, network, moved>>

Next ==
    \/ \E x \in Address, side \in Side, r \in Resource : AddEndpoint(x, side, r)
    \/ \E x \in Address, r \in Resource : Post(x, r)
    \/ \E x \in Address, r \in Resource : PostFailed(x, r)
    \/ \E m \in network : \E kept \in {network, network \ {m}} :
           \E blob \in IF m.packet.kind = "content" THEN Blob ELSE {"good"} :
               Deliver(m, kept, blob)
    \/ \E m \in network : Lose(m)
    \/ \E x \in Address : AssertLiveliness(x)
    \/ \E x \in Address : DiscoverPeers(x)
    \/ \E x \in Address : ProbeEndpoints(x)
    \/ Tick

Spec == Init /\ [][Next]_vars

(* What a node goes on sending gets through now and then: the discovery    *)
(* packets it broadcasts while a tracker has no peer, and the content it   *)
(* posts.  Each node keeps probing.  There is room time and again: nodes   *)
(* may answer keepalives with keepalives without end, which must not keep  *)
(* all else out of a network of bounded capacity.                          *)
Sent == network' # network

Arrives(y, Wanted(_)) ==
    \E m \in network :
        m.to = y /\ Wanted(m.packet) /\ Deliver(m, network \ {m}, "good")

(* Strong fairness of Arrives: what is in flight can be delivered.         *)
GetsThrough(y, Wanted(_)) ==
    []<>(\E m \in network : m.to = y /\ Wanted(m.packet))
    => []<><<Arrives(y, Wanted)>>_vars

Fairness ==
    /\ SF_vars(\E m \in network : Lose(m))
    /\ \A x \in Address : WF_vars(ProbeEndpoints(x))
    /\ \A x \in Address : \A r \in MayTrack[x] :
           /\ SF_vars(r \in Unlinked(nodes[x]) /\ DiscoverPeers(x) /\ Sent)
           /\ GetsThrough(x, LAMBDA p : p = Content(ResourceHash[r]))
    /\ \A x \in Address : \A r \in MayAdvertise[x] :
           /\ SF_vars(Post(x, r) /\ Sent)
           /\ GetsThrough(x, LAMBDA p : \E side \in DOMAIN p.arrays :
                                  ResourceHash[r] \in p.arrays[side])

FairSpec == Spec /\ Fairness

-----------------------------------------------------------------------------
(* Properties *)

(* The hashes of the endpoints of a node on a side.                        *)
HashesOf(x, side) == {ResourceHash[r] : r \in nodes[x].endpoints[side]}

(* What a packet that x sends may say: arrays that list endpoints of x on  *)
(* their side, content of a resource x provides.                           *)
Honest(x, p) ==
    /\ \A side \in DOMAIN p.arrays : p.arrays[side] \subseteq HashesOf(x, side)
    /\ p.kind = "content" => p.hash \in HashesOf(x, "provider")

(* No node ever claims an endpoint it does not have, in a packet in flight *)
(* or in the outgoing buffer, which is sent again to whoever sends a       *)
(* keepalive.                                                              *)
PacketsHonest ==
    /\ \A m \in network : Honest(m.from, m.packet)
    /\ \A x \in Address : Honest(x, nodes[x].outgoing)

(* A node meets only the packets that UccnNode lets its peers send, so     *)
(* that what holds there holds among real nodes, although replies are made *)
(* from what was received and the outgoing buffer is sent again.  Above    *)
(* all no link group carries both arrays: uccn_process_link_group, which   *)
(* collects the hashes of both in one place, would mistake the resources a *)
(* peer tracks for resources it provides.                                  *)
PacketsExpected ==
    /\ \A m \in network : m.packet \in Incoming
    /\ \A x \in Address : nodes[x].outgoing \in Incoming \cup {None}

(* As long as no peer has changed slots, an endpoint is linked only to     *)
(* peers that have an endpoint of the other side with its hash, whatever   *)
(* was lost, duplicated, delayed or refused on the way.                    *)
LinksReal ==
    ~moved =>
        \A x \in Address, side \in Side, r \in Resource :
            \A s \in nodes[x].links[side][r] :
                ResourceHash[r] \in HashesOf(nodes[x].peers[s].address, Other(side))

(* A tracker whose resource another node provides gets a peer in the end,  *)
(* although a link group that is lost is never sent again (the checksum is *)
(* remembered, uccn.c line 1207), a resource may be advertised after the   *)
(* discovery packet that asked for it, and peers time each other out: the  *)
(* posts of the provider link their receiver (line 996), and probes drop   *)
(* the peers without links, whose checksums are forgotten with them.       *)
TrackersServed ==
    \A x \in Address : \A r \in MayTrack[x] :
        (/\ r \in nodes[x].endpoints["tracker"]
         /\ \E y \in Address \ {x} : ResourceHash[r] \in HashesOf(y, "provider"))
        ~> (nodes[x].links["tracker"][r] # {})

(* Pub-sub: content is sent only to nodes that track its resource.         *)
ContentToSubscribers ==
    \A m \in network : m.packet.kind = "content" =>
        m.packet.hash \in HashesOf(m.to, "tracker")

(* "re-linking all endpoints" of a peer (uccn.c lines 1193 and 1225) ends  *)
(* no subscription: when x unlinks y from a provider, y having a tracker   *)
(* that still looks for peers, y does not count on x for that resource.    *)
RelinkKeepsSubscribers ==
    [][\A x, y \in Address, r \in Resource : \A s \in Slot :
          /\ nodes[x].links["provider"][r] \ nodes'[x].links["provider"][r] = {s}
          /\ nodes'[x].num_peers = nodes[x].num_peers
          /\ nodes[x].peers[s].address = y
          /\ Unlinked(nodes[y]) # {}
          => \A t \in nodes'[y].links["tracker"][r] :
                 nodes'[y].peers[t].address # x]_vars

=============================================================================
