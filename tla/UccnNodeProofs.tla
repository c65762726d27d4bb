--------------------------- MODULE UccnNodeProofs ---------------------------
(***************************************************************************)
(* Theorems about one node, for any number of addresses, resources, slots  *)
(* and any checksum.                                                       *)
(***************************************************************************)
EXTENDS UccnNode, NodeOpsProofs

(* The specification *)

(* The history of what peers asked for holds sets of hashes.               *)
LEMMA AskedType ==
    ASSUME TypeOK, NEW a \in Address, NEW p \in Packet
    PROVE  Asked(a, p) \in SUBSET Hash
<1>1. PICK D \in SUBSET Side : p.arrays \in [D -> SUBSET Hash]
  BY DEF Packet, Arrays
<1> QED
  BY <1>1 DEF Asked, TypeOK

(* The inductive invariant: the types, and what the types do not say of    *)
(* the peer table and of the endpoints.                                    *)
IndInv == TypeOK /\ UniquePeers /\ DistinctHashes

(* Every handler of a node, run in any order on any packets, keeps the     *)
(* node's memory well formed, its peers distinct and its hashes distinct.  *)
THEOREM Invariance == Spec => []IndInv
<1>1. Init => IndInv
  <2> SUFFICES ASSUME Init PROVE IndInv
    OBVIOUS
  <2>1. TypeOK
    <3>1. node \in Node /\ moved \in BOOLEAN
      BY InitType DEF Init
    <3>2. now \in 1 .. MaxTime
      BY ClockAssumption DEF Init
    <3>3. /\ asked \in [Address -> SUBSET Hash] /\ heard \in [Address -> Nat]
          /\ posting \in SUBSET Resource
      BY DEF Init
    <3> QED
      BY <3>1, <3>2, <3>3 DEF TypeOK
  <2>2. UniquePeers
    BY DEF Init, UniquePeers, uccn_node_init, Registered
  <2>3. DistinctHashes
    BY DEF Init, DistinctHashes, uccn_node_init
  <2> QED
    BY <2>1, <2>2, <2>3 DEF IndInv
<1>2. IndInv /\ [Next]_vars => IndInv'
  <2> SUFFICES ASSUME IndInv, [Next]_vars PROVE IndInv'
    OBVIOUS
  <2>1. /\ node \in Node /\ now \in 1 .. MaxTime /\ now \in Nat
        /\ asked \in [Address -> SUBSET Hash] /\ heard \in [Address -> Nat]
        /\ moved \in BOOLEAN /\ posting \in SUBSET Resource
        /\ Unique(node)
    BY ClockAssumption DEF IndInv, TypeOK, UniquePeers, Unique
  <2>2. ASSUME node' \in Node, Unique(node'), node'.endpoints = node.endpoints,
               now' = now, posting' \in SUBSET Resource,
               asked' \in [Address -> SUBSET Hash],
               heard' \in [Address -> Nat], moved' \in BOOLEAN
        PROVE  IndInv'
    BY <2>1, <2>2 DEF IndInv, TypeOK, UniquePeers, Unique, DistinctHashes
  <2>3. ASSUME node' \in Node, SameOccupants(node, node'), posting' \in SUBSET Resource,
               UNCHANGED <<now, asked, heard, moved>>
        PROVE  IndInv'
    BY <2>1, <2>2, <2>3, SameOccupantsUnique DEF SameOccupants
  <2>4. ASSUME NEW side \in Side, NEW r \in Resource, AddEndpoint(side, r)
        PROVE  IndInv'
    <3>1. node' \in Node /\ node' = uccn_add_endpoint(node, side, r)
      BY <2>1, <2>4, AddEndpointType DEF AddEndpoint
    <3>2. node'.peers = node.peers /\ node'.num_peers = node.num_peers
      BY <2>1, <3>1 DEF uccn_add_endpoint, Node
    <3>3. UniquePeers'
      BY <2>1, <3>2 DEF UniquePeers, Unique, Registered
    <3>4. TypeOK'
      BY <2>1, <2>4, <3>1 DEF TypeOK, AddEndpoint
    <3>5. DistinctHashes'
      BY <2>1, <3>1 DEF IndInv, DistinctHashes, uccn_add_endpoint, Collides, Node
    <3> QED
      BY <3>3, <3>4, <3>5 DEF IndInv
  <2>5. ASSUME NEW r \in Resource, NEW reached \in SUBSET Slot, Post(r, reached)
        PROVE  IndInv'
    BY <2>1, <2>3, <2>5, PostType DEF Post
  <2>6. ASSUME NEW r \in Resource, PostFailed(r)
        PROVE  IndInv'
    BY <2>1, <2>3, <2>6, PostFailedType, SameTableOccupants DEF PostFailed
  <2>7. ASSUME NEW a \in Address, NEW p \in Incoming, NEW blob, Receive(a, p, blob)
        PROVE  IndInv'
    <3>1. p \in Packet
      BY <2>7, IncomingPackets
    <3>2. node' \in Node /\ Unique(node') /\ node'.endpoints = node.endpoints
      BY <2>1, <2>7, <3>1, ProcessIncoming DEF Receive
    <3>3. Asked(a, p) \in SUBSET Hash
      BY <3>1, AskedType DEF IndInv
    <3>4. asked' \in [Address -> SUBSET Hash] /\ heard' \in [Address -> Nat]
      BY <2>1, <2>7, <3>3 DEF Receive
    <3> QED
      BY <2>1, <2>2, <2>7, <3>2, <3>4 DEF Receive
  <2>8. ASSUME NEW reached \in SUBSET Slot, AssertLiveliness(reached)
        PROVE  IndInv'
    BY <2>1, <2>3, <2>8, AssertLivelinessType DEF AssertLiveliness
  <2>9. CASE DiscoverPeers
    BY <2>1, <2>3, <2>9, DiscoverType, SameTableOccupants DEF DiscoverPeers
  <2>10. CASE ProbeEndpoints
    <3>1. node' \in Node /\ Unique(node') /\ node'.endpoints = node.endpoints
      BY <2>1, <2>10, ProbeKeeps DEF ProbeEndpoints
    <3>2. moved' \in BOOLEAN
      BY <2>10 DEF ProbeEndpoints
    <3>3. asked' \in [Address -> SUBSET Hash]
      BY <2>1, <2>10 DEF ProbeEndpoints
    <3>4. heard' \in [Address -> Nat]
      BY <2>1, <2>10 DEF ProbeEndpoints
    <3> QED
      BY <2>1, <2>2, <2>10, <3>1, <3>2, <3>3, <3>4 DEF ProbeEndpoints
  <2>11. CASE Tick
    <3>1. now' \in 1 .. MaxTime
      BY <2>1, <2>11, ClockAssumption DEF Tick
    <3> QED
      BY <2>1, <2>11, <3>1
         DEF Tick, IndInv, TypeOK, UniquePeers, Unique, DistinctHashes
  <2>12. ASSUME NEW r \in Resource, BeginPost(r)
         PROVE  IndInv'
    BY <2>1, <2>2, <2>12 DEF BeginPost
  <2>13. CASE UNCHANGED vars
    BY <2>1, <2>2, <2>13 DEF vars
  <2> QED
    BY <2>4, <2>5, <2>6, <2>7, <2>8, <2>9, <2>10, <2>11, <2>12, <2>13 DEF Next
<1> QED
  BY <1>1, <1>2, PTL DEF Spec

(* The memory of a node keeps its types: num_peers and every slot an       *)
(* endpoint points to stay within node->peers.                             *)
THEOREM TypeCorrect == Spec => []TypeOK
BY Invariance, PTL DEF IndInv

(* uccn_register_peer never registers an address twice.                    *)
THEOREM PeersUnique == Spec => []UniquePeers
BY Invariance, PTL DEF IndInv

(* uccn_track and uccn_advertise refuse every resource whose hash is taken.*)
THEOREM HashesDistinct == Spec => []DistinctHashes
BY Invariance, PTL DEF IndInv

-----------------------------------------------------------------------------
(* The table of peers implements PeerDirectory.                            *)

(* What the directory is read from.                                        *)
SamePeers(n, m) ==
    /\ m.num_peers = n.num_peers
    /\ \A s \in Slot :
          /\ m.peers[s].address = n.peers[s].address
          /\ m.peers[s].next_remote_deadline = n.peers[s].next_remote_deadline

(* Deadlines gives the deadline of every registered peer, and of no other. *)
LEMMA DeadlineOfSlot ==
    ASSUME NEW n \in Node, Unique(n), NEW s \in Registered(n)
    PROVE  /\ n.peers[s].address \in Known(n)
           /\ Deadlines(n)[n.peers[s].address] = n.peers[s].next_remote_deadline
<1> DEFINE a == n.peers[s].address
<1>1. a \in Known(n)
  BY DEF Known
<1>2. /\ SlotOf(n, a) \in Registered(n)
      /\ n.peers[SlotOf(n, a)].address = a
  BY DEF SlotOf
<1>3. SlotOf(n, a) = s
  BY <1>2 DEF Unique
<1> QED
  BY <1>1, <1>3 DEF Deadlines

(* The directory lists the registered addresses.                           *)
LEMMA DeadlinesDomain ==
    ASSUME NEW n
    PROVE  /\ DOMAIN Deadlines(n) = Known(n)
           /\ Deadlines(n) = [a \in Known(n) |-> Deadlines(n)[a]]
BY DEF Deadlines

(* A table with the same occupants and deadlines is the same directory.    *)
LEMMA SameDirectory ==
    ASSUME NEW n \in Node, NEW m \in Node, Unique(n), SamePeers(n, m)
    PROVE  /\ Unique(m)
           /\ Known(m) = Known(n)
           /\ Deadlines(m) = Deadlines(n)
<1>1. Unique(m)
  BY SlotsRegistered DEF SamePeers, Unique, Registered
<1>2. Registered(m) = Registered(n) /\ Registered(n) \subseteq Slot
  BY SlotsRegistered DEF SamePeers, Registered
<1>3. Known(m) = Known(n)
  BY <1>2 DEF Known, SamePeers
<1>4. \A a \in Known(n) : Deadlines(m)[a] = Deadlines(n)[a]
  <2> SUFFICES ASSUME NEW s \in Registered(n)
               PROVE  Deadlines(m)[n.peers[s].address] = Deadlines(n)[n.peers[s].address]
    BY DEF Known
  <2>1. /\ m.peers[s].address = n.peers[s].address
        /\ m.peers[s].next_remote_deadline = n.peers[s].next_remote_deadline
    BY <1>2 DEF SamePeers
  <2> QED
    BY <1>1, <1>2, <2>1, DeadlineOfSlot
<1> QED
  BY <1>1, <1>3, <1>4, DeadlinesDomain

(* A table that is not full is a directory that is not full.               *)
LEMMA RoomInDirectory ==
    ASSUME NEW n \in Node, n.num_peers # MaxPeers
    PROVE  Cardinality(Known(n)) < MaxPeers
<1> DEFINE f == [s \in Registered(n) |-> n.peers[s].address]
<1>1. n.num_peers \in Nat /\ n.num_peers < MaxPeers
  <2>1. n.num_peers \in 0 .. MaxPeers
    BY DEF Node
  <2> QED
    BY <2>1, BoundAssumption
<1>2. IsFiniteSet(Registered(n)) /\ Cardinality(Registered(n)) = n.num_peers
  <2>1. 1 \in Int /\ n.num_peers \in Int
    BY <1>1
  <2>2. /\ IsFiniteSet(1 .. n.num_peers)
        /\ Cardinality(1 .. n.num_peers)
             = IF 1 > n.num_peers THEN 0 ELSE n.num_peers - 1 + 1
    BY <2>1, FS_Interval
  <2> QED
    BY <1>1, <2>2 DEF Registered
<1>3. f \in Surjection(Registered(n), Known(n))
  <2>1. f \in [Registered(n) -> Known(n)]
    BY DEF Known
  <2>2. \A a \in Known(n) : \E s \in Registered(n) : f[s] = a
    BY DEF Known
  <2> QED
    BY <2>1, <2>2, Fun_IsSurj
<1>4. IsFiniteSet(Known(n)) /\ Cardinality(Known(n)) <= n.num_peers
  BY <1>2, <1>3, FS_Surjection
<1>5. Cardinality(Known(n)) \in Nat
  BY <1>4, FS_CardinalityType
<1> QED
  BY <1>1, <1>4, <1>5, BoundAssumption

(* Registering an address: it gets its deadline, the others keep theirs.   *)
Renewed(n, a, d) ==
    [b \in Known(n) \cup {a} |-> IF b = a THEN d ELSE Deadlines(n)[b]]

(* A registration is a Hear of the directory.                              *)
LEMMA RegistersDirectory ==
    ASSUME NEW n \in Node, NEW m \in Node, Unique(n), NEW slot, NEW a, NEW d,
           Registers(n, m, slot, a, d)
    PROVE  Known(m) = Known(n) \cup {a} /\ Deadlines(m) = Renewed(n, a, d)
<1>1. Unique(m)
  BY RegistersUnique
<1>2. /\ Registered(m) = Registered(n) \cup {slot}
      /\ Registered(n) \subseteq Slot
      /\ slot \in Registered(n) => n.peers[slot].address = a
  BY RegistersSlots
<1>3. \A s \in Registered(n) : m.peers[s].address = n.peers[s].address
  BY <1>2 DEF Registers
<1>4. Known(m) = Known(n) \cup {a}
  <2>1. m.peers[slot].address = a
    BY DEF Registers
  <2>2. ASSUME NEW b \in Known(m) PROVE b \in Known(n) \cup {a}
    BY <1>2, <1>3, <2>1 DEF Known
  <2>3. ASSUME NEW b \in Known(n) \cup {a} PROVE b \in Known(m)
    BY <1>2, <1>3, <2>1 DEF Known
  <2> QED
    BY <2>2, <2>3
<1>5. Deadlines(m)[a] = d
  BY <1>1, <1>2, DeadlineOfSlot DEF Registers
<1>6. \A b \in Known(n) \ {a} : Deadlines(m)[b] = Deadlines(n)[b]
  <2> SUFFICES ASSUME NEW b \in Known(n), b # a
               PROVE  Deadlines(m)[b] = Deadlines(n)[b]
    OBVIOUS
  <2>1. PICK s \in Registered(n) : n.peers[s].address = b
    BY DEF Known
  <2>2. s # slot
    BY <1>2, <2>1
  <2>3. s \in Registered(m) /\ m.peers[s] = n.peers[s]
    BY <1>2, <2>2 DEF Registers
  <2> QED
    BY <1>1, <2>1, <2>3, DeadlineOfSlot
<1>7. \A b \in Known(m) : Deadlines(m)[b] = IF b = a THEN d ELSE Deadlines(n)[b]
  BY <1>4, <1>5, <1>6
<1> QED
  BY <1>4, <1>7, DeadlinesDomain DEF Renewed

(* Probing drops addresses, every dead one among them, and moves nothing.  *)
LEMMA ProbeDirectory ==
    ASSUME NEW n \in Node, Unique(n), NEW now_ \in Nat,
           NEW m \in uccn_probe_endpoints(n, now_)
    PROVE  /\ Known(m) \subseteq Known(n)
           /\ \A a \in Known(m) : Deadlines(n)[a] >= now_
           /\ Deadlines(m) = [a \in Known(m) |-> Deadlines(n)[a]]
<1>1. m \in Node /\ Unique(m)
  BY ProbeKeeps
<1>2. PICK k \in 0 .. MaxPeers : \E q \in [1 .. k -> Registered(n)] :
          Renumbered(n, m, k, q, now_)
  BY ProbeEffect
<1>3. PICK q \in [1 .. k -> Registered(n)] : Renumbered(n, m, k, q, now_)
  BY <1>2
<1>4. Registered(m) = 1 .. k
  BY <1>3 DEF Registered, Renumbered
<1>5. ASSUME NEW a \in Known(m)
      PROVE  /\ a \in Known(n)
             /\ Deadlines(n)[a] >= now_
             /\ Deadlines(m)[a] = Deadlines(n)[a]
  <2>1. PICK i \in 1 .. k : m.peers[i].address = a
    BY <1>4 DEF Known
  <2>2. /\ q[i] \in Registered(n)
        /\ n.peers[q[i]].address = a
        /\ m.peers[i].next_remote_deadline = n.peers[q[i]].next_remote_deadline
    BY <1>1, <1>3, <2>1, RenumberedPeers
  <2>3. n.peers[q[i]].next_remote_deadline >= now_
    BY <1>3, <2>2 DEF Renumbered, Survives, Live
  <2>4. /\ a \in Known(n)
        /\ Deadlines(n)[a] = n.peers[q[i]].next_remote_deadline
    BY <2>2, DeadlineOfSlot
  <2>5. Deadlines(m)[a] = m.peers[i].next_remote_deadline
    BY <1>1, <1>4, <2>1, DeadlineOfSlot
  <2> QED
    BY <2>2, <2>3, <2>4, <2>5
<1> QED
  BY <1>5, DeadlinesDomain

-----------------------------------------------------------------------------
(* What a step of the node does to its peer table and the clock, and to    *)
(* the history of what it read: only a full table ignores a datagram.      *)
TableStep ==
    /\ node' \in Node
    /\ \/ /\ SamePeers(node, node') /\ now' = now
          /\ heard' = heard \/ node.num_peers = MaxPeers
       \/ \E a \in Address, w \in Node, slot \in Slot :
             /\ node.num_peers # MaxPeers
             /\ Registers(node, w, slot, a, now + LivelinessTimeout)
             /\ SamePeers(w, node') /\ now' = now
             /\ heard' = [heard EXCEPT ![a] = now]
       \/ /\ node' \in uccn_probe_endpoints(node, now) /\ now' = now
          /\ heard' = [a \in Address |-> IF a \in Known(node') THEN heard[a] ELSE 0]
       \/ node' = node /\ Tick

(* Every step of the node is one of these.                                 *)
LEMMA NextTableStep ==
    ASSUME IndInv, [Next]_vars
    PROVE  TableStep
<1>1. node \in Node /\ now \in Nat /\ SamePeers(node, node)
  BY ClockAssumption DEF IndInv, TypeOK, SamePeers
<1>2. ASSUME node' \in Node, SameOccupants(node, node'), now' = now, heard' = heard
      PROVE  TableStep
  BY <1>2 DEF TableStep, SameOccupants, SamePeers
<1>3. ASSUME NEW side \in Side, NEW r \in Resource, AddEndpoint(side, r)
      PROVE  TableStep
  <2>1. node'.peers = node.peers /\ node'.num_peers = node.num_peers
    BY <1>1, <1>3 DEF AddEndpoint, uccn_add_endpoint, Node
  <2>2. node' \in Node /\ now' = now /\ heard' = heard
    BY <1>1, <1>3, AddEndpointType DEF AddEndpoint
  <2> QED
    BY <2>1, <2>2 DEF TableStep, SamePeers
<1>4. ASSUME NEW r \in Resource, BeginPost(r) PROVE TableStep
  BY <1>1, <1>4 DEF BeginPost, TableStep
<1>5. ASSUME NEW r \in Resource, NEW reached \in SUBSET Slot, Post(r, reached)
      PROVE  TableStep
  BY <1>1, <1>2, <1>5, PostType DEF Post
<1>6. ASSUME NEW r \in Resource, PostFailed(r) PROVE TableStep
  BY <1>1, <1>2, <1>6, PostFailedType, SameTableOccupants DEF PostFailed
<1>7. ASSUME NEW a \in Address, NEW p \in Incoming, NEW blob, Receive(a, p, blob)
      PROVE  TableStep
  <2>1. p \in Packet
    BY <1>7, IncomingPackets
  <2>2. /\ node' \in Node
        /\ node.num_peers = MaxPeers => node' = node
        /\ node.num_peers # MaxPeers =>
              \E w \in Node, slot \in Slot : Serves(node, node', w, slot, a, p, blob, now)
    BY <1>1, <1>7, <2>1, IncomingEffect DEF Receive
  <2>3. now' = now
    BY <1>7 DEF Receive
  <2>4. CASE node.num_peers = MaxPeers
    BY <1>1, <2>2, <2>3, <2>4 DEF TableStep
  <2>5. CASE node.num_peers # MaxPeers
    <3>1. PICK w \in Node, slot \in Slot : Serves(node, node', w, slot, a, p, blob, now)
      BY <2>2, <2>5
    <3>2. SamePeers(w, node') /\ Registers(node, w, slot, a, now + LivelinessTimeout)
      BY <3>1 DEF Serves, SameTable, SamePeers
    <3>3. a \in Known(node')
      BY <3>2 DEF Known, Registers, SamePeers, Registered
    <3>4. heard' = [heard EXCEPT ![a] = now]
      BY <1>7, <3>3 DEF Receive
    <3> QED
      BY <2>2, <2>3, <2>5, <3>2, <3>4 DEF TableStep
  <2> QED
    BY <2>4, <2>5
<1>8. ASSUME NEW reached \in SUBSET Slot, AssertLiveliness(reached) PROVE TableStep
  BY <1>1, <1>2, <1>8, AssertLivelinessType DEF AssertLiveliness
<1>9. CASE DiscoverPeers
  BY <1>1, <1>2, <1>9, DiscoverType, SameTableOccupants DEF DiscoverPeers
<1>10. CASE ProbeEndpoints
  BY <1>1, <1>10, ProbeKeeps DEF ProbeEndpoints, TableStep
<1>11. CASE Tick
  BY <1>1, <1>11 DEF Tick, TableStep
<1>12. CASE UNCHANGED vars
  BY <1>1, <1>12 DEF vars, TableStep
<1> QED
  BY <1>3, <1>4, <1>5, <1>6, <1>7, <1>8, <1>9, <1>10, <1>11, <1>12 DEF Next

(* Every registered peer has a real address: uccn_register_peer is the     *)
(* only one that adds to the table.                                        *)
Addressed == Known(node) \subseteq Address

(* The directory counts as the table does.                                 *)
LEMMA SameCardinality == \A S : Directory!Cardinality(S) = Cardinality(S)
BY Zenon DEF Cardinality, Directory!Cardinality

(* Every step of the node is a step of the directory or leaves it alone.   *)
LEMMA DirectoryStep ==
    ASSUME IndInv, Addressed, [Next]_vars
    PROVE  Addressed' /\ [Directory!Next]_(Directory!vars)
<1>1. node \in Node /\ Unique(node) /\ now \in Nat /\ node' \in Node
  BY ClockAssumption, NextTableStep DEF IndInv, TypeOK, UniquePeers, Unique, TableStep
<1>2. Deadlines(node)' = Deadlines(node') /\ (Known(node))' = Known(node')
  BY DEF Deadlines, Known, SlotOf, Registered
<1>3. CASE SamePeers(node, node') /\ now' = now
  <2>1. Known(node') = Known(node) /\ Deadlines(node') = Deadlines(node)
    BY <1>1, <1>3, SameDirectory
  <2> QED
    BY <1>2, <1>3, <2>1 DEF Addressed, Directory!vars
<1>4. ASSUME NEW a \in Address, NEW w \in Node, NEW slot \in Slot,
             node.num_peers # MaxPeers,
             Registers(node, w, slot, a, now + LivelinessTimeout),
             SamePeers(w, node'), now' = now
      PROVE  Addressed' /\ Directory!Next
  <2>1. /\ Known(w) = Known(node) \cup {a}
        /\ Deadlines(w) = Renewed(node, a, now + LivelinessTimeout)
    BY <1>1, <1>4, RegistersDirectory
  <2>2. Deadlines(node') = Deadlines(w) /\ Known(node') = Known(w)
    BY <1>1, <1>4, RegistersUnique, SameDirectory
  <2>3. DOMAIN Deadlines(node) = Known(node)
    BY DeadlinesDomain
  <2>4. Deadlines(node)' = [b \in DOMAIN Deadlines(node) \cup {a} |->
                              IF b = a THEN now + LivelinessTimeout
                              ELSE Deadlines(node)[b]]
    BY <1>2, <2>1, <2>2, <2>3, Zenon DEF Renewed
  <2>5. Cardinality(Known(node)) < MaxPeers
    BY <1>1, <1>4, RoomInDirectory
  <2>6. Directory!Hear(a)
    <3>1. Directory!Cardinality(DOMAIN Deadlines(node)) < MaxPeers
      BY <2>3, <2>5, SameCardinality
    <3> QED
      BY <1>4, <2>4, <3>1, Zenon DEF Directory!Hear
  <2>7. Addressed'
    BY <1>2, <2>1, <2>2 DEF Addressed
  <2> QED
    BY <2>6, <2>7 DEF Directory!Next
<1>5. CASE node' \in uccn_probe_endpoints(node, now) /\ now' = now
  <2>1. /\ Known(node') \subseteq Known(node)
        /\ \A a \in Known(node') : Deadlines(node)[a] >= now
        /\ Deadlines(node') = [a \in Known(node') |-> Deadlines(node)[a]]
    BY <1>1, <1>5, ProbeDirectory
  <2>2. DOMAIN Deadlines(node) = Known(node)
    BY DeadlinesDomain
  <2>3. Known(node') \in SUBSET Address
    BY <2>1 DEF Addressed
  <2>4. Directory!Probe(Known(node'))
    BY <1>2, <1>5, <2>1, <2>2 DEF Directory!Probe
  <2> QED
    BY <1>2, <2>3, <2>4 DEF Directory!Next, Addressed
<1>6. CASE node' = node /\ Tick
  <2>1. Directory!Tick
    BY <1>2, <1>6 DEF Tick, Directory!Tick
  <2> QED
    BY <1>2, <1>6, <2>1 DEF Directory!Next, Addressed
<1> QED
  BY <1>3, <1>4, <1>5, <1>6, NextTableStep DEF TableStep

(* Registered peers always have an address.                                *)
LEMMA AddressedInvariance == Spec => []Addressed
<1>1. Init => Addressed
  BY DEF Init, uccn_node_init, Registered, Known, Addressed
<1>2. IndInv /\ Addressed /\ [Next]_vars => Addressed'
  BY DirectoryStep
<1> QED
  BY <1>1, <1>2, Invariance, PTL DEF Spec

(* The peer table is a directory of addresses and deadlines: a datagram    *)
(* adds or renews its sender only, a probe drops every dead peer and gives *)
(* no survivor the deadline of another, and nothing else touches it.       *)
THEOREM TableImplementsDirectory == Spec => DirectoryImplemented
<1>1. Init => Directory!Init /\ Addressed
  <2> SUFFICES ASSUME Init PROVE Directory!Init /\ Addressed
    OBVIOUS
  <2>1. Registered(node) = {}
    BY DEF Init, uccn_node_init, Registered
  <2>2. Known(node) = {}
    BY <2>1 DEF Known
  <2>3. Deadlines(node) = [a \in {} |-> 0]
    BY <2>2, DeadlinesDomain
  <2> QED
    BY <2>2, <2>3 DEF Init, Directory!Init, Addressed
<1>2. IndInv /\ Addressed /\ [Next]_vars => Addressed' /\ [Directory!Next]_(Directory!vars)
  BY DirectoryStep
<1> QED
  BY <1>1, <1>2, Invariance, PTL DEF Spec, DirectoryImplemented, Directory!Spec

-----------------------------------------------------------------------------
(* The table has room for one more than all the peers there are.           *)
Roomy == IsFiniteSet(Address) /\ Cardinality(Address) < MaxPeers

(* Then it is never full: no address takes two slots.                      *)
LEMMA NeverFull ==
    ASSUME Roomy, NEW n \in Node, Unique(n), Known(n) \subseteq Address
    PROVE  n.num_peers # MaxPeers
<1> DEFINE f == [s \in Registered(n) |-> n.peers[s].address]
<1>1. n.num_peers \in Nat
  <2>1. n.num_peers \in 0 .. MaxPeers
    BY DEF Node
  <2> QED
    BY <2>1, BoundAssumption
<1>2. Cardinality(Registered(n)) = n.num_peers
  BY <1>1, FS_Interval DEF Registered
<1>3. f \in Injection(Registered(n), Address)
  <2>1. f \in [Registered(n) -> Address]
    BY DEF Known
  <2>2. \A s, t \in Registered(n) : f[s] = f[t] => s = t
    BY DEF Unique
  <2> QED
    BY <2>1, <2>2, Fun_IsInj
<1>4. n.num_peers <= Cardinality(Address)
  BY <1>2, <1>3, FS_Injection DEF Roomy
<1>5. Cardinality(Address) \in Nat
  BY FS_CardinalityType DEF Roomy
<1> QED
  BY <1>1, <1>4, <1>5, BoundAssumption DEF Roomy

(* DeadlinesCurrent, by address instead of by slot.                        *)
Current(n, h) ==
    \A a \in Known(n) : Deadlines(n)[a] = h[a] + LivelinessTimeout

(* A table that is never full renews the deadline of whoever is heard,     *)
(* and of no one else.                                                     *)
LEMMA CurrentStep ==
    ASSUME Roomy, IndInv, Addressed, Current(node, heard), [Next]_vars
    PROVE  Current(node', heard')
<1>1. /\ node \in Node /\ Unique(node) /\ now \in Nat /\ node' \in Node
      /\ Known(node) \subseteq Address /\ heard \in [Address -> Nat]
  BY ClockAssumption, NextTableStep
     DEF IndInv, TypeOK, UniquePeers, Unique, TableStep, Addressed
<1>2. node.num_peers # MaxPeers
  BY <1>1, NeverFull
<1>3. CASE SamePeers(node, node') /\ heard' = heard
  <2>1. Known(node') = Known(node) /\ Deadlines(node') = Deadlines(node)
    BY <1>1, <1>3, SameDirectory
  <2> QED
    BY <1>3, <2>1 DEF Current
<1>4. ASSUME NEW a \in Address, NEW w \in Node, NEW slot \in Slot,
             Registers(node, w, slot, a, now + LivelinessTimeout),
             SamePeers(w, node'), heard' = [heard EXCEPT ![a] = now]
      PROVE  Current(node', heard')
  <2>1. /\ Known(w) = Known(node) \cup {a}
        /\ Deadlines(w) = Renewed(node, a, now + LivelinessTimeout)
    BY <1>1, <1>4, RegistersDirectory
  <2>2. Deadlines(node') = Deadlines(w) /\ Known(node') = Known(w)
    BY <1>1, <1>4, RegistersUnique, SameDirectory
  <2>3. ASSUME NEW b \in Known(node')
        PROVE  Deadlines(node')[b] = heard'[b] + LivelinessTimeout
    <3>1. Deadlines(node')[b] = IF b = a THEN now + LivelinessTimeout ELSE Deadlines(node)[b]
      BY <2>1, <2>2 DEF Renewed
    <3>2. b \in Address /\ (b # a => b \in Known(node))
      BY <1>1, <2>1, <2>2
    <3>3. heard'[b] = IF b = a THEN now ELSE heard[b]
      BY <1>1, <1>4, <3>2
    <3> QED
      BY <3>1, <3>2, <3>3 DEF Current
  <2> QED
    BY <2>3 DEF Current
<1>5. CASE /\ node' \in uccn_probe_endpoints(node, now)
           /\ heard' = [a \in Address |-> IF a \in Known(node') THEN heard[a] ELSE 0]
  <2>1. /\ Known(node') \subseteq Known(node)
        /\ Deadlines(node') = [a \in Known(node') |-> Deadlines(node)[a]]
    BY <1>1, <1>5, ProbeDirectory
  <2>2. ASSUME NEW a \in Known(node')
        PROVE  Deadlines(node')[a] = heard'[a] + LivelinessTimeout
    BY <1>1, <1>5, <2>1 DEF Current
  <2> QED
    BY <2>2 DEF Current
<1>6. CASE node' = node /\ Tick
  BY <1>6 DEF Tick
<1> QED
  BY <1>2, <1>3, <1>4, <1>5, <1>6, NextTableStep DEF TableStep

(* With room for every peer and one more, the deadline of each counts from *)
(* the last datagram read from it, across compactions and re-registration; *)
(* the full table of uccn_register_peer is the only way to lose one.       *)
THEOREM DeadlinesAlwaysCurrent ==
    ASSUME Roomy
    PROVE  Spec => []DeadlinesCurrent
<1>1. Init => Current(node, heard)
  BY DEF Init, uccn_node_init, Registered, Known, Current
<1>2. IndInv /\ Addressed /\ Current(node, heard) /\ [Next]_vars => Current(node, heard)'
  <2>1. Current(node, heard)' = Current(node', heard')
    BY DEF Current, Known, Deadlines, SlotOf, Registered
  <2> QED
    BY <2>1, CurrentStep
<1>3. IndInv /\ Current(node, heard) => DeadlinesCurrent
  <2> SUFFICES ASSUME IndInv, Current(node, heard), NEW s \in Registered(node)
               PROVE  node.peers[s].next_remote_deadline
                          = heard[node.peers[s].address] + LivelinessTimeout
    BY DEF DeadlinesCurrent
  <2>1. node \in Node /\ Unique(node)
    BY DEF IndInv, TypeOK, UniquePeers, Unique
  <2> QED
    BY <2>1, DeadlineOfSlot DEF Current
<1> QED
  BY <1>1, <1>2, <1>3, Invariance, AddressedInvariance, PTL DEF Spec

=============================================================================
