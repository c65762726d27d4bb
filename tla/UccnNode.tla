------------------------------ MODULE UccnNode ------------------------------
(***************************************************************************)
(* One node among peers that send it any packet a node can send, with its  *)
(* handlers run in any order: what uccn.c promises whatever the schedule   *)
(* of uccn_spin_until and of the threads that track, advertise and post.   *)
(* Every handler runs with the node's mutex held, so each is one action,   *)
(* but for uccn_post, which begins with a test outside the mutex.          *)
(* SpinNode adds the schedule and implements this module.                  *)
(***************************************************************************)
EXTENDS NodeOps

CONSTANTS
    MaxTime,   \* the clock stops here
    TickStep   \* by how much time may pass at once

ASSUME ClockAssumption ==
    /\ MaxTime \in Nat \ {0}
    /\ TickStep \subseteq Nat \ {0}

VARIABLES
    node,    \* struct uccn_node_s
    now,     \* CLOCK_MONOTONIC
    posting, \* providers with an uccn_post that has yet to get the mutex
    asked,   \* history: the last tracked array the node took from a peer
    heard,   \* history: when the last datagram from a peer was read, or 0
    moved    \* history: whether probing has moved a peer to another slot

vars == <<node, now, posting, asked, heard, moved>>

TypeOK ==
    /\ node \in Node
    /\ now \in 1 .. MaxTime
    /\ posting \in SUBSET Resource
    /\ asked \in [Address -> SUBSET Hash]
    /\ heard \in [Address -> Nat]
    /\ moved \in BOOLEAN

Init ==
    /\ node = uccn_node_init
    /\ now = 1
    /\ posting = {}
    /\ asked = [a \in Address |-> {}]
    /\ heard = [a \in Address |-> 0]
    /\ moved = FALSE

-----------------------------------------------------------------------------
(* uccn_track (side "tracker") and uccn_advertise (side "provider").       *)
AddEndpoint(side, r) ==
    /\ node' = uccn_add_endpoint(node, side, r)
    /\ UNCHANGED <<now, posting, asked, heard, moved>>

(* uccn_post reads num_peers before it locks the mutex; without links it   *)
(* returns at once.                                                        *)
BeginPost(r) ==
    /\ r \in node.endpoints["provider"]
    /\ node.links["provider"][r] # {}
    /\ posting' = posting \cup {r}
    /\ UNCHANGED <<node, now, asked, heard, moved>>

(* The rest of the post, with the links there are by now.  Its sendto      *)
(* works for the slots in reached and is skipped for the others.           *)
Post(r, reached) ==
    /\ r \in posting
    /\ reached \subseteq node.links["provider"][r]
    /\ node' = uccn_post(node, r, reached, now)
    /\ posting' = posting \ {r}
    /\ UNCHANGED <<now, asked, heard, moved>>

(* The pack function fails, or its content does not fit the packet.        *)
PostFailed(r) ==
    /\ r \in posting
    /\ \/ node' = PostPackFailed(node, r)
       \/ node' = PostTooBig(node)
    /\ posting' = posting \ {r}
    /\ UNCHANGED <<now, asked, heard, moved>>

(* The registered addresses.                                               *)
Known(n) == {n.peers[s].address : s \in Registered(n)}

(* The last tracked array of a, as it stands after packet p.               *)
Asked(a, p) ==
    IF /\ node.num_peers < MaxPeers
       /\ p.kind = "link"
       /\ "tracker" \in DOMAIN p.arrays
       /\ 0 \notin p.arrays["tracker"]
    THEN p.arrays["tracker"]
    ELSE asked[a]

(* A packet arrives from a.  Whether the sendto of the reply works shows   *)
(* only in the value returned.                                             *)
Receive(a, p, blob) ==
    /\ node' = uccn_process_incoming(node, a, p, blob, now).node
    /\ asked' = [asked EXCEPT ![a] = Asked(a, p)]
    /\ heard' = IF a \in Known(node') THEN [heard EXCEPT ![a] = now] ELSE heard
    /\ UNCHANGED <<now, posting, moved>>

(* Keepalives go to the due peers in the order of their slots, up to the   *)
(* first failure.                                                          *)
AssertLiveliness(reached) ==
    /\ \/ reached = Due(node, now)
       \/ \E f \in Due(node, now) : reached = {s \in Due(node, now) : s < f}
    /\ node' = uccn_assert_liveliness(node, reached, now)
    /\ UNCHANGED <<now, posting, asked, heard, moved>>

DiscoverPeers ==
    /\ node' = uccn_discover_peers(node)
    /\ UNCHANGED <<now, posting, asked, heard, moved>>

(* The history of a peer ends with it.                                     *)
ProbeEndpoints ==
    /\ node' \in uccn_probe_endpoints(node, now)
    /\ asked' = [a \in Address |-> IF a \in Known(node') THEN asked[a] ELSE {}]
    /\ heard' = [a \in Address |-> IF a \in Known(node') THEN heard[a] ELSE 0]
    /\ moved' = (moved \/ Moves(node, node'))
    /\ UNCHANGED <<now, posting>>

Tick ==
    /\ \E d \in TickStep : now' = now + d /\ now' <= MaxTime
    /\ UNCHANGED <<node, posting, asked, heard, moved>>

-----------------------------------------------------------------------------
Next ==
    \/ \E side \in Side, r \in Resource : AddEndpoint(side, r)
    \/ \E r \in Resource : BeginPost(r)
    \/ \E r \in Resource, reached \in SUBSET Slot : Post(r, reached)
    \/ \E r \in Resource : PostFailed(r)
    \/ \E a \in Address, p \in Incoming :
           \E blob \in IF p.kind = "content" THEN Blob ELSE {"good"} :
               Receive(a, p, blob)
    \/ \E reached \in SUBSET Slot : AssertLiveliness(reached)
    \/ DiscoverPeers
    \/ ProbeEndpoints
    \/ Tick

(* What uccn.c may do with a node under any schedule of its handlers.  As  *)
(* a property of SpinNode: uccn_spin_until and the threads beside it take  *)
(* no other step, with the tests of uccn_post and of the timers in the     *)
(* places where the code has them.                                         *)
Spec == Init /\ [][Next]_vars

-----------------------------------------------------------------------------
(* Properties *)

(* No two registered peers have the same address: uccn_register_peer finds *)
(* a peer it knows whatever the compactions of uccn_probe_endpoints and    *)
(* the copies they leave behind.                                           *)
UniquePeers ==
    \A s, t \in Registered(node) :
        node.peers[s].address = node.peers[t].address => s = t

(* The slots an endpoint of the node points to.                            *)
LinksOf(s) == {e \in Side \X Resource : s \in node.links[e[1]][e[2]]}

(* As long as no peer has changed slots, num_links of every registered     *)
(* peer is the number of endpoint lists that point to it, and no list      *)
(* points to a slot that is not registered: what uccn_link and uccn_unlink *)
(* count is what uccn_probe_endpoints relies on to drop a peer.            *)
LinksCounted ==
    ~moved =>
        /\ \A s \in Registered(node) :
               node.peers[s].num_links = Cardinality(LinksOf(s))
        /\ \A s \in Slot \ Registered(node) : LinksOf(s) = {}

(* As long as no peer has changed slots, a provider is linked only to      *)
(* peers that listed its hash in the last tracked array they sent.         *)
SubscribersOnly ==
    ~moved =>
        \A r \in Resource : \A s \in node.links["provider"][r] :
            ResourceHash[r] \in asked[node.peers[s].address]

(* The liveliness deadline of a registered peer counts from the last       *)
(* datagram read from it: as uccn.c line 337 has it, a node that has "Too  *)
(* many peers" ignores new ones, and none of the ones it has.              *)
DeadlinesCurrent ==
    \A s \in Registered(node) :
        node.peers[s].next_remote_deadline
            = heard[node.peers[s].address] + LivelinessTimeout

(* The endpoints of one side have distinct hashes: a packet's hash names   *)
(* at most one tracker, and one provider, of the node.                     *)
DistinctHashes ==
    \A side \in Side : \A q, r \in node.endpoints[side] :
        ResourceHash[q] = ResourceHash[r] => q = r

(* As long as no peer has changed slots, no step drops a peer that an      *)
(* endpoint points to and whose liveliness deadline has not passed, and    *)
(* one that is kept loses no link by the probe that drops another.         *)
LivePeersKept ==
    [][\A s \in Registered(node) :
          /\ ~moved
          /\ LinksOf(s) # {}
          /\ node.peers[s].next_remote_deadline >= now
          => \E t \in Registered(node') :
                 /\ node'.peers[t].address = node.peers[s].address
                 /\ node'.num_peers < node.num_peers =>
                        \A side \in Side, r \in Resource :
                            s \in node.links[side][r] => s \in node'.links[side][r]]_vars

-----------------------------------------------------------------------------
(* The directory that the peer table stands for: the registered addresses  *)
(* with their liveliness deadlines.                                        *)
SlotOf(n, a) == CHOOSE s \in Registered(n) : n.peers[s].address = a

Deadlines(n) ==
    [a \in Known(n) |-> n.peers[SlotOf(n, a)].next_remote_deadline]

Directory == INSTANCE PeerDirectory WITH
    deadline <- Deadlines(node), Timeout <- LivelinessTimeout

(* The table implements the directory: whatever compactions move where and *)
(* whatever copies they leave behind, a step adds at most the sender of a  *)
(* datagram, drops only by a probe, keeps no dead peer through a probe and *)
(* never gives one peer the deadline of another.                           *)
DirectoryImplemented == Directory!Spec

=============================================================================
