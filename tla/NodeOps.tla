------------------------------ MODULE NodeOps ------------------------------
(***************************************************************************)
(* The state of one uccn node (struct uccn_node_s) as a record, and the    *)
(* functions of src/src/uccn.c that change it as operators from a node to  *)
(* a node.  The operators keep the names of the C functions they model.    *)
(*                                                                         *)
(* - A peer pointer is the slot of node->peers it points to; an endpoint's *)
(*   pointer list is the set of its slots (uccn_link never lists a slot    *)
(*   twice; the order of a list only decides the order of sendto calls).   *)
(* - Trackers and providers are the two sides of the same endpoint; an     *)
(*   endpoint is its resource, there is at most one per side.              *)
(* - A packet is what a receiver can decode of it.  An array of hashes is  *)
(*   the set of its hashes.  The arrays two nodes exchange are always in   *)
(*   the order in which the tracking node registered its trackers, or in   *)
(*   its reverse, so that a set has one checksum per pair of nodes.        *)
(* - 0 is TIMESPEC_ZERO, the clock starts at 1.                            *)
(***************************************************************************)
EXTENDS Integers, FiniteSets, Sequences

CONSTANTS
    Address,                  \* addresses other nodes send from
    NoAddress,                \* the zeroed address of an unused slot
    Resource,                 \* resources, told apart by pointer
    ResourceHash,             \* resource->hash, the crc32 of its path
    Crc32(_),                 \* crc32 of an array of resource hashes
    MaxPeers,                 \* CONFIG_UCCN_MAX_NUM_PEERS
    LivelinessTimeout,        \* CONFIG_UCCN_LIVELINESS_TIMEOUT_MS
    LivelinessAssertTimeout,  \* CONFIG_UCCN_LIVELINESS_ASSERT_TIMEOUT_MS
    SizeMod                   \* size_t counts modulo SizeMod

ASSUME AddressAssumption == NoAddress \notin Address

ASSUME ResourceAssumption ==
    /\ IsFiniteSet(Resource)
    /\ ResourceHash \in [Resource -> Nat]

ASSUME BoundAssumption ==
    /\ MaxPeers \in Nat \ {0}
    /\ SizeMod \in Nat \ {0}

(* Every link is a pointer in memory: size_t counts the links of a peer.   *)
ASSUME CountAssumption == 2 * Cardinality(Resource) < SizeMod

(* The checks of config.h, lines 60 to 70.                                 *)
ASSUME TimeoutAssumption ==
    /\ LivelinessTimeout \in Nat
    /\ LivelinessAssertTimeout \in Nat \ {0}
    /\ LivelinessAssertTimeout < LivelinessTimeout

Hash == {ResourceHash[r] : r \in Resource}

ASSUME Crc32Assumption ==
    /\ \A H \in SUBSET Hash : Crc32(H) \in Nat
    /\ Crc32({}) = 0

-----------------------------------------------------------------------------
(* Packets *)

Side == {"tracker", "provider"}

Other(side) == IF side = "tracker" THEN "provider" ELSE "tracker"

(* The link data of a packet: the UCCN_TRACKED_ARRAY is the sender's       *)
(* "tracker" array, the UCCN_PROVIDED_ARRAY its "provider" array.          *)
Arrays == UNION {[D -> SUBSET Hash] : D \in SUBSET Side}

NoArrays == [side \in {} |-> {}]

(* "none" is a buffer of length 0.  "truncated" is a content packet cut    *)
(* after the hash, "header" one cut before the group code: what an encoder *)
(* that failed half-way leaves in the buffer.                              *)
Kind == {"none", "keepalive", "link", "content", "truncated", "header"}

Packet == [kind : Kind, arrays : Arrays, hash : Hash \cup {0}]

Plain(kind) == [kind |-> kind, arrays |-> NoArrays, hash |-> 0]

None == Plain("none")

Keepalive == Plain("keepalive")

Link(arrays) == [kind |-> "link", arrays |-> arrays, hash |-> 0]

Content(hash) == [kind |-> "content", arrays |-> NoArrays, hash |-> hash]

(* What a node can send, and so what one has to expect of its peers: link  *)
(* groups have one array, which uccn_process_link_group never leaves empty *)
(* and uccn_prepare_discovery_packet may.                                  *)
Incoming ==
    {Keepalive, Plain("truncated"), Plain("header")}
    \cup {Link([side \in {"tracker"} |-> H]) : H \in SUBSET Hash}
    \cup {Link([side \in {"provider"} |-> H]) : H \in (SUBSET Hash) \ {{}}}
    \cup {Content(h) : h \in Hash}

-----------------------------------------------------------------------------
(* The node *)

Slot == 1 .. MaxPeers

Peer == [address : Address \cup {NoAddress},
         alive : BOOLEAN,
         next_remote_deadline : Nat,
         next_local_deadline : Nat,
         content_hash : [Side -> Nat],   \* tracked_ and provided_content_hash
         num_links : 0 .. SizeMod - 1]

Node == [peers : [Slot -> Peer],
         num_peers : 0 .. MaxPeers,
         endpoints : [Side -> SUBSET Resource],
         links : [Side -> [Resource -> SUBSET Slot]],
         outgoing : Packet]

NewPeer(a, deadline, alive) ==
    [address |-> a, alive |-> alive,
     next_remote_deadline |-> deadline, next_local_deadline |-> 0,
     content_hash |-> [side \in Side |-> 0], num_links |-> 0]

(* What the memory of a node holds after uccn_node_init.                   *)
uccn_node_init ==
    [peers |-> [s \in Slot |-> NewPeer(NoAddress, 0, FALSE)],
     num_peers |-> 0,
     endpoints |-> [side \in Side |-> {}],
     links |-> [side \in Side |-> [r \in Resource |-> {}]],
     outgoing |-> None]

Registered(n) == 1 .. n.num_peers

-----------------------------------------------------------------------------
(* Endpoints: uccn_track registers a tracker, uccn_advertise a provider.   *)
(* A resource whose hash is taken on its side is refused.                  *)

(* Fault: the hashes of other endpoints are not looked at.                 *)
CollidesNever(n, side, r) == FALSE

Collides(n, side, r) ==
    \E q \in n.endpoints[side] : q # r /\ ResourceHash[q] = ResourceHash[r]

uccn_add_endpoint(n, side, r) ==
    IF Collides(n, side, r) THEN n
    ELSE [n EXCEPT !.endpoints[side] = @ \cup {r}]

-----------------------------------------------------------------------------
(* Links between endpoints and peers *)

(* ret is -1 when the list is full, which is tested before the duplicate,  *)
(* 0 for a duplicate, and 1 for a new link.                                *)
uccn_link(n, side, r, s) ==
    IF Cardinality(n.links[side][r]) >= MaxPeers THEN [ret |-> -1, node |-> n]
    ELSE IF s \in n.links[side][r] THEN [ret |-> 0, node |-> n]
    ELSE [ret |-> 1,
          node |-> [n EXCEPT !.links[side][r] = @ \cup {s},
                             !.peers[s].num_links = (@ + 1) % SizeMod]]

(* Slot s after links of a side have become lists and its count num.       *)
SetLinks(n, side, s, lists, num) ==
    [n EXCEPT !.links[side] = lists, !.peers[s].num_links = num % SizeMod]

(* Fault: the endpoint forgets the peer, the peer still counts the link.   *)
UnlinkUncounted(n, side, s) ==
    SetLinks(n, side, s, [r \in Resource |-> n.links[side][r] \ {s}],
             n.peers[s].num_links)

(* uccn_unlink_trackers and uccn_unlink_providers: uccn_unlink on every    *)
(* endpoint of a side.                                                     *)
uccn_unlink_all(n, side, s) ==
    LET cut == {r \in Resource : s \in n.links[side][r]}
    IN  SetLinks(n, side, s, [r \in Resource |-> n.links[side][r] \ {s}],
                 n.peers[s].num_links - Cardinality(cut))

(* Fault: every endpoint is taken for a listed one.                        *)
MatchingAny(n, side, H) == n.endpoints[side]

(* The endpoints of a side whose hash is listed in H.                      *)
Matching(n, side, H) == {r \in n.endpoints[side] : ResourceHash[r] \in H}

(* uccn_link_trackers and uccn_link_providers, on every hash of H, for a   *)
(* slot uccn_unlink_all has just removed from every list of the side: no   *)
(* list can be full (lemma LinkNeverFull) and every match is a new link.   *)
uccn_link_all(n, side, s, H) ==
    LET new == Matching(n, side, H)
    IN  SetLinks(n, side, s,
                 [r \in Resource |-> IF r \in new THEN n.links[side][r] \cup {s}
                                                  ELSE n.links[side][r]],
                 n.peers[s].num_links + Cardinality(new))

(* Fault: what the peer does not list any more is not unlinked.            *)
ProcessArrayKeeping(n, s, remote, H) ==
    LET local == Other(remote)
    IN  IF n.peers[s].content_hash[remote] = Crc32(H)
        THEN [node |-> n, linked |-> {}]
        ELSE [node |-> [uccn_link_all(n, local, s, H) EXCEPT
                            !.peers[s].content_hash[remote] = Crc32(H)],
              linked |-> {ResourceHash[r] : r \in Matching(n, local, H)}]

(* Fault: the reply confirms every hash, the ones without endpoint too.    *)
ProcessArrayConfirming(n, s, remote, H) ==
    LET local    == Other(remote)
        relinked == uccn_link_all(uccn_unlink_all(n, local, s), local, s, H)
    IN  IF n.peers[s].content_hash[remote] = Crc32(H)
        THEN [node |-> n, linked |-> {}]
        ELSE [node |-> [relinked EXCEPT
                            !.peers[s].content_hash[remote] = Crc32(H)],
              linked |-> H]

(* One array of a link group, H, the peer's endpoints on its side remote:  *)
(* unless its checksum is the one the peer's last array had, all local     *)
(* endpoints of the other side are unlinked from the peer, and the ones    *)
(* listed are linked again.  linked is what the reply will list.           *)
ProcessArray(n, s, remote, H) ==
    LET local    == Other(remote)
        relinked == uccn_link_all(uccn_unlink_all(n, local, s), local, s, H)
    IN  IF n.peers[s].content_hash[remote] = Crc32(H)
        THEN [node |-> n, linked |-> {}]
        ELSE [node |-> [relinked EXCEPT
                            !.peers[s].content_hash[remote] = Crc32(H)],
              linked |-> {ResourceHash[r] : r \in Matching(n, local, H)}]

-----------------------------------------------------------------------------
(* Incoming packets *)

(* The hashes of both arrays go to one local array, the tracked ones first *)
(* as uccn_process_link_group writes them, so that a provided array that   *)
(* follows a tracked one is processed as the two together.  A hash of 0    *)
(* ends the group; the reply is built only when the whole group is read.   *)
uccn_process_link_group(n, s, arrays) ==
    LET Has(side) == side \in DOMAIN arrays
        tracked   == IF Has("tracker") THEN arrays["tracker"] ELSE {}
        hashes    == IF Has("provider") THEN tracked \cup arrays["provider"]
                                        ELSE tracked
        first     == IF Has("tracker") THEN ProcessArray(n, s, "tracker", tracked)
                     ELSE [node |-> n, linked |-> {}]
        second    == IF Has("provider")
                     THEN ProcessArray(first.node, s, "provider", hashes)
                     ELSE [node |-> first.node, linked |-> {}]
        linked    == [side \in Side |->
                          IF side = "provider" THEN first.linked ELSE second.linked]
        answered  == {side \in Side : linked[side] # {}}
        reply     == IF answered = {} THEN None
                     ELSE Link([side \in answered |-> linked[side]])
    IN  IF 0 \in tracked
        THEN [ret |-> -1, node |-> [n EXCEPT !.outgoing = None]]
        ELSE IF 0 \in hashes
        THEN [ret |-> -1, node |-> [first.node EXCEPT !.outgoing = None]]
        ELSE [ret |-> 0, node |-> [second.node EXCEPT !.outgoing = reply]]

(* Whether the resource's unpack takes the blob, refuses it, or the blob   *)
(* has no bytes.                                                           *)
Blob == {"good", "bad", "empty"}

(* Fault: the tracker's callback gets the content, its sender no link.     *)
ProcessContentUnlinked(n, s, hash, blob) ==
    [ret |-> IF hash = 0 \/ blob # "good" THEN -1 ELSE 0,
     node |-> [n EXCEPT !.outgoing = None]]

(* Content is handed to the tracker's callback and its sender linked; no   *)
(* reply is ever left in the outgoing buffer.                              *)
uccn_process_content_group(n, s, hash, blob) ==
    LET takers == Matching(n, "tracker", {hash})
        taker  == CHOOSE r \in takers : TRUE
        linked == uccn_link([n EXCEPT !.outgoing = None], "tracker", taker, s)
    IN  IF \/ hash = 0
           \/ blob = "empty"
           \/ takers # {} /\ blob = "bad"
        THEN [ret |-> -1, node |-> [n EXCEPT !.outgoing = None]]
        ELSE IF takers = {}
        THEN [ret |-> 0, node |-> [n EXCEPT !.outgoing = None]]
        ELSE linked

(* A keepalive is a nil: no group is read and the outgoing buffer keeps    *)
(* what the node sent last.                                                *)
uccn_process_packet(n, s, p, blob) ==
    CASE p.kind = "link"      -> uccn_process_link_group(n, s, p.arrays)
      [] p.kind = "content"   -> uccn_process_content_group(n, s, p.hash, blob)
      [] p.kind = "truncated" -> [ret |-> -1, node |-> [n EXCEPT !.outgoing = None]]
      [] p.kind = "header"    -> [ret |-> -1, node |-> n]
      [] OTHER                -> [ret |-> 0, node |-> n]

(* Fault: the address is not looked up in the table.                       *)
RegisterAgain(n, a, now) ==
    IF n.num_peers >= MaxPeers THEN [slot |-> 0, node |-> n]
    ELSE [slot |-> n.num_peers + 1,
          node |-> [n EXCEPT
              !.num_peers = @ + 1,
              !.peers[n.num_peers + 1] = NewPeer(a, now + LivelinessTimeout, TRUE)]]

(* Fault: the deadline of a known peer is not moved.                       *)
RegisterStale(n, a, now) ==
    LET known == {s \in Registered(n) : n.peers[s].address = a}
    IN  IF n.num_peers >= MaxPeers \/ known = {} THEN RegisterAgain(n, a, now)
        ELSE [slot |-> CHOOSE s \in known : TRUE, node |-> n]

(* slot 0 is NULL: a node whose table is full refuses every address, the   *)
(* ones in the table included.                                             *)
uccn_register_peer(n, a, now) ==
    LET known    == {s \in Registered(n) : n.peers[s].address = a}
        slot     == IF known = {} THEN n.num_peers + 1
                    ELSE CHOOSE s \in known : \A t \in known : s <= t
        deadline == now + LivelinessTimeout
    IN  IF n.num_peers >= MaxPeers THEN [slot |-> 0, node |-> n]
        ELSE IF known # {}
        THEN [slot |-> slot,
              node |-> [n EXCEPT !.peers[slot].next_remote_deadline = deadline]]
        ELSE [slot |-> slot,
              node |-> [n EXCEPT !.num_peers = slot,
                                 !.peers[slot] = NewPeer(a, deadline, TRUE)]]

(* reply is what uccn_process_incoming hands to sendto.                    *)
uccn_process_incoming(n, a, p, blob, now) ==
    LET registered == uccn_register_peer(n, a, now)
        processed  == uccn_process_packet(registered.node, registered.slot, p, blob)
    IN  IF registered.slot = 0 THEN [ret |-> -1, node |-> n, reply |-> None]
        ELSE [ret |-> processed.ret, node |-> processed.node,
              reply |-> IF processed.ret < 0 THEN None
                        ELSE processed.node.outgoing]

-----------------------------------------------------------------------------
(* Outgoing packets *)

(* Fault: the local deadline moves also where sendto has failed.           *)
PostUnsent(n, r, reached, now) ==
    [n EXCEPT !.outgoing = Content(ResourceHash[r]),
              !.peers = [s \in Slot |->
                  IF s \in n.links["provider"][r]
                  THEN [n.peers[s] EXCEPT
                            !.next_local_deadline = now + LivelinessAssertTimeout]
                  ELSE n.peers[s]]]

(* The slots a post sends to; the ones of reached are where sendto worked. *)
uccn_post(n, r, reached, now) ==
    [n EXCEPT !.outgoing = Content(ResourceHash[r]),
              !.peers = [s \in Slot |->
                  IF s \in reached
                  THEN [n.peers[s] EXCEPT
                            !.next_local_deadline = now + LivelinessAssertTimeout]
                  ELSE n.peers[s]]]

(* A post whose pack function fails has written the content header over    *)
(* the last packet and left the length of the buffer as it was.            *)
PostPackFailed(n, r) ==
    [n EXCEPT !.outgoing =
        CASE @.kind = "content"   -> Content(ResourceHash[r])
          [] @.kind = "keepalive" -> Plain("header")
          [] @.kind = "link"      -> Plain("truncated")
          [] OTHER                -> @]

(* A post whose content does not fit the buffer: what fits stays in it.    *)
PostTooBig(n) == [n EXCEPT !.outgoing = Plain("truncated")]

(* The slots whose keepalive is due.                                       *)
Due(n, now) == {s \in Registered(n) : now >= n.peers[s].next_local_deadline}

(* Fault: TIMESPEC_ZERO, the deadline of a new peer, is moved like others. *)
AssertFromZero(n, reached, now) ==
    [n EXCEPT !.outgoing = Keepalive,
              !.peers = [s \in Slot |->
                  IF s \in reached
                  THEN [n.peers[s] EXCEPT
                            !.next_local_deadline = @ + LivelinessAssertTimeout]
                  ELSE n.peers[s]]]

(* uccn_assert_liveliness sends to the due slots of reached, the ones      *)
(* before the first sendto that fails.                                     *)
uccn_assert_liveliness(n, reached, now) ==
    [n EXCEPT !.outgoing = Keepalive,
              !.peers = [s \in Slot |->
                  IF s \in reached
                  THEN [n.peers[s] EXCEPT !.next_local_deadline =
                            (IF @ = 0 THEN now ELSE @) + LivelinessAssertTimeout]
                  ELSE n.peers[s]]]

(* The trackers no peer provides for yet.                                  *)
Unlinked(n) == {r \in n.endpoints["tracker"] : n.links["tracker"][r] = {}}

(* Fault: the packet lists the resources in place of their hashes.         *)
DiscoverPointers(n) == Link([side \in {"tracker"} |-> Unlinked(n)])

(* Fault: the packet also lists the providers.                             *)
DiscoverBoth(n) ==
    Link([side \in Side |-> IF side = "tracker"
                            THEN {ResourceHash[r] : r \in Unlinked(n)}
                            ELSE {ResourceHash[r] : r \in n.endpoints[side]}])

uccn_prepare_discovery_packet(n) ==
    Link([side \in {"tracker"} |-> {ResourceHash[r] : r \in Unlinked(n)}])

uccn_discover_peers(n) == [n EXCEPT !.outgoing = uccn_prepare_discovery_packet(n)]

-----------------------------------------------------------------------------
(* Probing *)

(* Fault: a peer is dead when the node is late in sending to it.           *)
MarkAliveLocally(n, now) ==
    [n EXCEPT !.peers = [s \in Slot |->
        IF s \in Registered(n)
        THEN [n.peers[s] EXCEPT !.alive = n.peers[s].next_local_deadline >= now]
        ELSE n.peers[s]]]

MarkAlive(n, now) ==
    [n EXCEPT !.peers = [s \in Slot |->
        IF s \in Registered(n)
        THEN [n.peers[s] EXCEPT !.alive = n.peers[s].next_remote_deadline >= now]
        ELSE n.peers[s]]]

(* Leaves num_links of the peer as it is.                                  *)
uccn_unlink_dead_peers(n) ==
    [n EXCEPT !.links = [side \in Side |-> [r \in Resource |->
        {s \in n.links[side][r] : n.peers[s].alive}]]]

Survivors(n) == {s \in Registered(n) : n.peers[s].alive /\ n.peers[s].num_links # 0}

(* The members of a set of slots in increasing order (a singleton).        *)
InOrder(S) ==
    {q \in UNION {[1 .. k -> S] : k \in 0 .. MaxPeers} :
        /\ \A i, j \in DOMAIN q : i < j => q[i] < q[j]
        /\ \A s \in S : \E i \in DOMAIN q : q[i] = s}

(* Fault: only the addresses are shifted.                                  *)
CompactAddresses(n, q) ==
    [n EXCEPT !.num_peers = Len(q),
              !.peers = [s \in Slot |->
                  IF s <= Len(q)
                  THEN [n.peers[s] EXCEPT !.address = n.peers[q[s]].address]
                  ELSE n.peers[s]]]

(* Each removal shifts the peers behind it one slot down, structs and all, *)
(* and touches no pointer to them.  The slots freed at the end keep copies *)
(* of the last peer.                                                       *)
Compact(n, q) ==
    [n EXCEPT !.num_peers = Len(q),
              !.peers = [s \in Slot |->
                  IF s <= Len(q) THEN n.peers[q[s]]
                  ELSE IF s <= n.num_peers THEN n.peers[n.num_peers]
                  ELSE n.peers[s]]]

(* The node probing leaves, as the set of that node.                       *)
uccn_probe_endpoints(n, now) ==
    LET probed == uccn_unlink_dead_peers(MarkAlive(n, now))
    IN  {Compact(probed, q) : q \in InOrder(Survivors(probed))}

(* Some slot of m holds another peer than it does in n.                    *)
Moves(n, m) ==
    \E s \in Registered(m) : m.peers[s].address # n.peers[s].address

=============================================================================
