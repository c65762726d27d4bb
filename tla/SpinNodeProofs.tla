--------------------------- MODULE SpinNodeProofs ---------------------------
(***************************************************************************)
(* The node under the schedule of uccn_spin_until implements the node of   *)
(* UccnNode, so that what is proved of that node for every schedule holds  *)
(* for the one the code has; and what a node promises about its timers,    *)
(* its keepalives and its dead peers, by how late it may be.               *)
(***************************************************************************)
EXTENDS SpinNode, UccnLinksProofs

(* A datagram that an iteration reads is one that UccnNode's node receives.*)
LEMMA IncomingReceives ==
    ASSUME NEW descriptor, NEW next, Incoming1(descriptor, next)
    PROVE  Next
<1>1. PICK a \in Address, p \in Incoming :
          \E blob \in IF p.kind = "content" THEN Blob ELSE {"good"} :
              Receive(a, p, blob)
    BY DEF Incoming1
<1> QED
    BY <1>1 DEF Next

(* Every step of uccn_spin_until, and of the threads beside it, is a step  *)
(* of UccnNode or leaves its node, clock and history as they are.          *)
LEMMA SpinStep == SpinNext => [Next]_vars
<1> SUFFICES ASSUME SpinNext PROVE [Next]_vars
    OBVIOUS
<1>1. CASE Spin \/ Wake \/ Stopped \/ ReadClock \/ Sleep
    BY <1>1 DEF Spin, Wake, Stopped, ReadClock, Sleep
<1>2. CASE Unicast
  <2>1. CASE Incoming1("unicast", "broadcast")
      BY <2>1, IncomingReceives
  <2>2. CASE Skip("unicast", "broadcast")
      BY <2>2 DEF Skip
  <2> QED
      BY <1>2, <2>1, <2>2 DEF Unicast
<1>3. CASE BroadcastIn
  <2>1. CASE Incoming1("broadcast", "clock")
      BY <2>1, IncomingReceives
  <2>2. CASE OwnBroadcast \/ Skip("broadcast", "clock")
      BY <2>2 DEF OwnBroadcast, Skip
  <2> QED
      BY <1>3, <2>1, <2>2 DEF BroadcastIn
<1>4. CASE Assert
  <2>1. CASE NotDue("assert", "probe")
      BY <2>1 DEF NotDue
  <2>2. CASE \E reached \in SUBSET Slot : AssertLiveliness(reached)
      BY <2>2 DEF Next
  <2> QED
      BY <1>4, <2>1, <2>2 DEF Assert
<1>5. CASE Probe
    BY <1>5 DEF Probe, NotDue, Next
<1>6. CASE Discover \/ DiscoverFailed
    BY <1>6 DEF Discover, DiscoverFailed, Next
<1>7. CASE Api
  <2>1. CASE \E side \in Side, r \in Resource : AddEndpoint(side, r)
      BY <2>1 DEF Next
  <2>2. CASE \E r \in Resource, reached \in SUBSET Slot : Post(r, reached)
      BY <2>2 DEF Next
  <2>3. CASE \E r \in Resource : PostFailed(r)
      BY <2>3 DEF Next
  <2> QED
      BY <1>7, <2>1, <2>2, <2>3 DEF Api
<1>8. CASE SpinTick
    BY <1>8 DEF SpinTick, Next
<1>9. ASSUME NEW r \in Resource, ApiBeginPost(r) PROVE Next
    BY <1>9 DEF ApiBeginPost, Next
<1> QED
    BY <1>1, <1>2, <1>3, <1>4, <1>5, <1>6, <1>7, <1>8, <1>9 DEF SpinNext

(* The node that uccn_spin_until drives does only what a node of UccnNode  *)
(* may do.                                                                 *)
THEOREM SpinImplements == SpinSpec => Spec
<1>1. SpinInit => Init
    BY DEF SpinInit
<1>2. [SpinNext]_spinVars => [Next]_vars
    BY SpinStep DEF spinVars
<1> QED
    BY <1>1, <1>2, PTL DEF SpinSpec, Spec

(* A node that spins registers no address twice, counts its links, and its *)
(* table is a directory of addresses and deadlines.                        *)
THEOREM SpinPeers ==
    SpinSpec => []UniquePeers /\ []LinksCounted /\ DirectoryImplemented /\ LivePeersKept
BY SpinImplements, PeersUnique, LinksAlwaysCounted, TableImplementsDirectory,
   LivePeersAlwaysKept, PTL

-----------------------------------------------------------------------------
(* Types *)

(* A set of times that is not empty has an earliest one.                   *)
LEMMA EarliestOfTimes ==
    ASSUME NEW T \in SUBSET Nat, T # {}
    PROVE  Earliest(T) \in T /\ Earliest(T) \in Nat /\ \A u \in T : Earliest(T) <= u
<1>1. \E t \in T : \A u \in T : t <= u
  BY FirstExists
<1> QED
  BY <1>1 DEF Earliest

(* The next assertion of liveliness is due no later than any peer's local  *)
(* deadline, and no later than one timeout from now.                       *)
LEMMA NextAssertIs ==
    ASSUME NEW n \in Node, now \in Nat
    PROVE  /\ NextAssert(n) \in Nat
           /\ NextAssert(n) <= now + LivelinessAssertTimeout
           /\ \A s \in Registered(n) : NextAssert(n) <= n.peers[s].next_local_deadline
           /\ \/ NextAssert(n) = now + LivelinessAssertTimeout
              \/ \E s \in Registered(n) : NextAssert(n) = n.peers[s].next_local_deadline
<1> DEFINE T == {now + LivelinessAssertTimeout}
                \cup {n.peers[s].next_local_deadline : s \in Registered(n)}
<1>1. T \in SUBSET Nat /\ T # {}
  BY SlotsRegistered, TimeoutAssumption DEF Node, Peer
<1>2. NextAssert(n) = Earliest(T)
  BY DEF NextAssert
<1>3. Earliest(T) \in T /\ Earliest(T) \in Nat /\ \A u \in T : Earliest(T) <= u
  <2> HIDE DEF T
  <2> QED
    BY <1>1, EarliestOfTimes
<1> QED
  BY <1>2, <1>3

(* The next probe is due no later than one probe timeout from now.         *)
LEMMA NextProbeIs ==
    ASSUME NEW n \in Node, now \in Nat
    PROVE  NextProbe(n) \in Nat /\ NextProbe(n) <= now + EndpointProbeTimeout
<1> DEFINE T == {now + EndpointProbeTimeout}
                \cup {n.peers[s].next_remote_deadline : s \in Registered(n)}
<1>1. T \in SUBSET Nat /\ T # {}
  BY SlotsRegistered, PeriodAssumption DEF Node, Peer
<1>2. NextProbe(n) = Earliest(T)
  BY DEF NextProbe
<1>3. Earliest(T) \in T /\ Earliest(T) \in Nat /\ \A u \in T : Earliest(T) <= u
  <2> HIDE DEF T
  <2> QED
    BY <1>1, EarliestOfTimes
<1> QED
  BY <1>2, <1>3

(* The deadline of a sleep is the earliest of the timers and the timeout.  *)
LEMMA DeadlineIs ==
    ASSUME timeout \in Nat, timer \in [Timer -> Nat]
    PROVE  LET T == {timeout} \cup {timer[t] : t \in Timer}
           IN  /\ Earliest(T) \in Nat
               /\ Earliest(T) = timeout \/ \E t \in Timer : Earliest(T) = timer[t]
               /\ \A t \in Timer : Earliest(T) <= timer[t]
<1> DEFINE T == {timeout} \cup {timer[t] : t \in Timer}
<1>1. T \in SUBSET Nat /\ T # {}
  OBVIOUS
<1>2. Earliest(T) \in T /\ Earliest(T) \in Nat /\ \A u \in T : Earliest(T) <= u
  <2> HIDE DEF T
  <2> QED
    BY <1>1, EarliestOfTimes
<1> QED
  BY <1>2

(* What the thread keeps beside the node.                                  *)
LocalsOK ==
    /\ pc \in {"idle", "sleep", "poll"} \cup Working \cup {Abort[t] : t \in Timer}
    /\ locked \in BOOLEAN
    /\ ready \in SUBSET Descriptor
    /\ timer \in [Timer -> Nat]
    /\ active \in 0 .. Cardinality(Resource)
    /\ current \in Nat /\ timeout \in Nat /\ wake \in Nat
    /\ last \in [Address -> Nat]

(* The number of active trackers is at most that of the resources.         *)
LEMMA ActiveType ==
    ASSUME NEW A \in SUBSET Resource
    PROVE  Cardinality(A) \in 0 .. Cardinality(Resource)
<1>1. /\ Cardinality(A) \in Nat /\ Cardinality(Resource) \in Nat
      /\ Cardinality(A) <= Cardinality(Resource)
  BY ResourceAssumption, FS_Subset, FS_CardinalityType
<1> QED
  BY <1>1

(* Every step keeps the locals of uccn_spin_until well formed.             *)
LEMMA LocalsStep ==
    ASSUME IndInv, IndInv', LocalsOK, [SpinNext]_spinVars
    PROVE  LocalsOK'
<1>1. node \in Node /\ node' \in Node /\ now \in Nat /\ now' \in Nat
  BY ClockAssumption DEF IndInv, TypeOK
<1>2. Timer = {"assert", "probe", "discovery"} /\ 0 \in 0 .. Cardinality(Resource)
  BY ActiveType, FS_EmptySet DEF Timer
<1> USE DEF LocalsOK
<1>3. ASSUME NEW A, SentTo(A) PROVE last' \in [Address -> Nat]
  BY <1>1, <1>3 DEF SentTo
<1>4. ASSUME Return, last' \in [Address -> Nat] PROVE LocalsOK'
  BY <1>2, <1>4 DEF Return, NoLocals
<1>5. ASSUME NEW next \in Working, GoTo(next), ready' \in SUBSET Descriptor,
             last' \in [Address -> Nat]
      PROVE  LocalsOK'
  BY <1>5 DEF GoTo
<1>6. ASSUME NEW t \in Timer, NEW time \in Nat, NEW next \in Working,
             Fired(t, time, next), active' \in 0 .. Cardinality(Resource),
             last' \in [Address -> Nat]
      PROVE  LocalsOK'
  BY <1>6 DEF Fired
<1>7. CASE Spin
  BY <1>1, <1>7, PeriodAssumption DEF Spin, Working
<1>8. CASE Wake
  BY <1>1, <1>8 DEF Wake, Working
<1>9. CASE Stopped
  BY <1>2, <1>9 DEF Stopped, NoLocals
<1>10. ASSUME NEW d, NEW next \in Working, Incoming1(d, next) PROVE LocalsOK'
  <2>1. last' \in [Address -> Nat] /\ (Return \/ (GoTo(next) /\ ready' \in SUBSET Descriptor))
    BY <1>3, <1>10 DEF Incoming1
  <2> QED
    BY <1>4, <1>5, <2>1
<1>11. ASSUME NEW d, NEW next \in Working, Skip(d, next) PROVE LocalsOK'
  BY <1>5, <1>11 DEF Skip
<1>12. CASE Unicast
  BY <1>10, <1>11, <1>12 DEF Unicast, Working
<1>13. CASE BroadcastIn
  BY <1>5, <1>10, <1>11, <1>13 DEF BroadcastIn, OwnBroadcast, Working
<1>14. CASE ReadClock
  BY <1>1, <1>14 DEF ReadClock, Working
<1>15. ASSUME NEW t, NEW next \in Working, NotDue(t, next) PROVE LocalsOK'
  BY <1>5, <1>15 DEF NotDue
<1>16. CASE Assert
  <2>1. CASE NotDue("assert", "probe")
    BY <1>15, <2>1 DEF Working
  <2>2. CASE ~NotDue("assert", "probe")
    <3>1. /\ last' \in [Address -> Nat]
          /\ Return \/ (Fired("assert", NextAssert(node'), "probe") /\ active' = active)
      BY <1>3, <1>16, <2>2 DEF Assert
    <3>2. NextAssert(node') \in Nat
      BY <1>1, NextAssertIs
    <3> QED
      BY <1>2, <1>4, <1>6, <3>1, <3>2 DEF Working
  <2> QED
    BY <2>1, <2>2
<1>17. CASE Probe
  <2>1. CASE NotDue("probe", "discover")
    BY <1>15, <2>1 DEF Working
  <2>2. CASE ~NotDue("probe", "discover")
    <3> DEFINE A == {r \in node'.endpoints["tracker"] : node'.links["tracker"][r] # {}}
    <3>1. /\ Fired("probe", NextProbe(node'), "discover") /\ last' = last
          /\ active' = Cardinality(A)
      BY <1>17, <2>2 DEF Probe
    <3>2. A \in SUBSET Resource
      BY <1>1 DEF Node, Side
    <3> HIDE DEF A
    <3>3. active' \in 0 .. Cardinality(Resource)
      BY <3>1, <3>2, ActiveType
    <3>4. NextProbe(node') \in Nat
      BY <1>1, NextProbeIs
    <3> QED
      BY <1>2, <1>6, <3>1, <3>3, <3>4 DEF Working
  <2> QED
    BY <2>1, <2>2
<1>18. CASE Discover
  <2>1. /\ timer' = timer \/ timer' = [timer EXCEPT !["discovery"] = @ + PeerDiscoveryPeriod]
        /\ pc' \in {"sleep", Abort["discovery"]}
        /\ last' \in [Address -> Nat]
        /\ locked' = FALSE /\ UNCHANGED <<ready, current, active, timeout, wake>>
    BY <1>3, <1>18 DEF Discover
  <2>2. timer' \in [Timer -> Nat]
    BY <1>2, <2>1, PeriodAssumption
  <2> QED
    BY <1>2, <2>1, <2>2
<1>19. CASE DiscoverFailed
  BY <1>4, <1>19 DEF DiscoverFailed
<1>20. CASE Sleep
  <2> DEFINE T == {timeout} \cup {timer[t] : t \in Timer}
             e == Earliest(T)
  <2>1. e \in Nat
    BY DeadlineIs
  <2>2. /\ \/ pc' = "idle" /\ NoLocals
           \/ /\ pc' = "poll" /\ current' = now /\ wake' = now + Distance(e, now)
              /\ UNCHANGED <<ready, timer, active, timeout>>
        /\ UNCHANGED <<locked, last>>
    BY <1>20 DEF Sleep
  <2> HIDE DEF e
  <2>3. now + Distance(e, now) \in Nat
    BY <1>1, <2>1 DEF Distance
  <2> QED
    BY <1>1, <1>2, <2>2, <2>3 DEF NoLocals
<1>21. CASE Api
  <2>1. /\ last' \in [Address -> Nat] /\ locked' \in BOOLEAN
        /\ UNCHANGED <<pc, ready, current, timer, active, timeout, wake>>
    BY <1>3, <1>21 DEF Api
  <2> QED
    BY <2>1
<1>22. ASSUME NEW r \in Resource, ApiBeginPost(r) PROVE LocalsOK'
  BY <1>22 DEF ApiBeginPost, spin
<1>23. CASE SpinTick
  BY <1>23 DEF SpinTick, spin
<1>24. CASE UNCHANGED spinVars
  BY <1>24 DEF spinVars, spin
<1> QED
  BY <1>7, <1>8, <1>9, <1>12, <1>13, <1>14, <1>16, <1>17, <1>18, <1>19, <1>20, <1>21,
     <1>22, <1>23, <1>24 DEF SpinNext

(* The locals of uccn_spin_until stay well formed.                         *)
LEMMA LocalsInvariance == SpinSpec => []LocalsOK
<1>1. SpinInit => LocalsOK
  <2> SUFFICES ASSUME SpinInit PROVE LocalsOK
    OBVIOUS
  <2>1. 0 \in 0 .. Cardinality(Resource)
    BY ActiveType, FS_EmptySet
  <2>2. timer \in [Timer -> Nat] /\ last \in [Address -> Nat]
    BY DEF SpinInit
  <2> QED
    BY <2>1, <2>2 DEF SpinInit, LocalsOK
<1>2. IndInv /\ IndInv' /\ LocalsOK /\ [SpinNext]_spinVars => LocalsOK'
  BY LocalsStep
<1> QED
  BY <1>1, <1>2, SpinImplements, Invariance, PTL DEF SpinSpec

(* The locals of uccn_spin_until keep their types: no timer, no deadline   *)
(* and no count of active trackers leaves its range.                       *)
THEOREM SpinTypeCorrect == SpinSpec => []SpinTypeOK
<1>1. IndInv /\ LocalsOK => SpinTypeOK
  BY DEF IndInv, LocalsOK, SpinTypeOK
<1> QED
  BY <1>1, SpinImplements, Invariance, LocalsInvariance, PTL

-----------------------------------------------------------------------------
(* A node that is never late: time passes only in pselect, and pselect     *)
(* returns when it should.                                                 *)
Punctual == MaxLag = 0 /\ ~MayIdle

Running == Working \cup {"sleep", "poll"}

(* When the node next sends keepalives, and next probes, at the latest.    *)
AssertBound == IF pc \in Running THEN timer["assert"] ELSE now

ProbeBound == IF pc \in Running THEN timer["probe"] ELSE now

(* The peers of n, to which the node last sent at L, hear from it in time  *)
(* if it sends keepalives at assertion, and are dropped in time if it      *)
(* probes at probing.                                                      *)
InTime(n, L, assertion, probing) ==
    \A s \in Registered(n) :
        LET peer == n.peers[s]
            sent == L[peer.address]
        IN  /\ peer.next_local_deadline = 0 => assertion <= sent + LivelinessAssertTimeout
            /\ peer.next_local_deadline # 0 =>
                  /\ assertion <= peer.next_local_deadline
                  /\ peer.next_local_deadline <= sent + LivelinessAssertTimeout
            /\ probing <= peer.next_remote_deadline + EndpointProbeTimeout

(* The timers are ahead of the clock, once past the step that sets them    *)
(* strictly so, and pselect does not sleep beyond any of them.             *)
TimersAhead ==
    /\ pc \in Working \cup {"sleep"} => current = now
    /\ pc \in Running => \A t \in Timer : now <= timer[t]
    /\ AssertBound <= now + LivelinessAssertTimeout
    /\ ProbeBound <= now + EndpointProbeTimeout
    /\ pc \in {"probe", "discover", "sleep"} => now < timer["assert"]
    /\ pc \in {"discover", "sleep"} => now < timer["probe"]
    /\ pc = "sleep" => now < timer["discovery"]
    /\ pc = "poll" => now <= wake /\ \A t \in Timer : wake <= timer[t]

SentBefore == \A a \in Address : last[a] <= now

(* The inductive invariant of a punctual node.                             *)
PunctualInv ==
    /\ AssertTimeAhead /\ DiscoveryTimeAhead
    /\ TimersAhead
    /\ SentBefore
    /\ InTime(node, last, AssertBound, ProbeBound)

-----------------------------------------------------------------------------
(* A bound on the clock holds later as well.                               *)
LEMMA Later ==
    ASSUME NEW t \in Nat, NEW x \in Nat, NEW y \in Nat, NEW k \in Nat
    PROVE  /\ t <= x + k /\ y > x => t <= y + k
           /\ t <= x => t <= x + k
OBVIOUS

(* Sooner is in time as well.                                              *)
LEMMA InTimeSooner ==
    ASSUME NEW n \in Node, Known(n) \subseteq Address, NEW L \in [Address -> Nat],
           NEW ta \in Nat, NEW tp \in Nat, InTime(n, L, ta, tp),
           NEW ua \in Nat, NEW up \in Nat, ua <= ta, up <= tp
    PROVE  InTime(n, L, ua, up)
<1> SUFFICES ASSUME NEW s \in Registered(n)
             PROVE  LET peer == n.peers[s]
                        sent == L[peer.address]
                    IN  /\ peer.next_local_deadline = 0 =>
                              ua <= sent + LivelinessAssertTimeout
                        /\ peer.next_local_deadline # 0 =>
                              /\ ua <= peer.next_local_deadline
                              /\ peer.next_local_deadline <= sent + LivelinessAssertTimeout
                        /\ up <= peer.next_remote_deadline + EndpointProbeTimeout
  BY DEF InTime
<1> DEFINE a == n.peers[s].address
           d == n.peers[s].next_local_deadline
           r == n.peers[s].next_remote_deadline
<1>1. a \in Address /\ d \in Nat /\ r \in Nat
  BY SlotsRegistered DEF Known, Node, Peer
<1>2. L[a] \in Nat
  BY <1>1
<1>3. /\ d = 0 => ta <= L[a] + LivelinessAssertTimeout
      /\ d # 0 => ta <= d /\ d <= L[a] + LivelinessAssertTimeout
      /\ tp <= r + EndpointProbeTimeout
  BY DEF InTime
<1> HIDE DEF a, d, r
<1>4. /\ d = 0 => ua <= L[a] + LivelinessAssertTimeout
      /\ d # 0 => ua <= d /\ d <= L[a] + LivelinessAssertTimeout
      /\ up <= r + EndpointProbeTimeout
  BY <1>1, <1>2, <1>3, TimeoutAssumption, PeriodAssumption
<1> QED
  BY <1>4 DEF a, d, r

(* And so is what was sent later.                                          *)
LEMMA InTimeSentLater ==
    ASSUME NEW n \in Node, Known(n) \subseteq Address, NEW L \in [Address -> Nat],
           NEW ta \in Nat, NEW tp \in Nat, InTime(n, L, ta, tp),
           NEW M \in [Address -> Nat], \A a \in Address : L[a] <= M[a]
    PROVE  InTime(n, M, ta, tp)
<1> SUFFICES ASSUME NEW s \in Registered(n)
             PROVE  LET peer == n.peers[s]
                        sent == M[peer.address]
                    IN  /\ peer.next_local_deadline = 0 =>
                              ta <= sent + LivelinessAssertTimeout
                        /\ peer.next_local_deadline # 0 =>
                              /\ ta <= peer.next_local_deadline
                              /\ peer.next_local_deadline <= sent + LivelinessAssertTimeout
                        /\ tp <= peer.next_remote_deadline + EndpointProbeTimeout
  BY DEF InTime
<1> DEFINE a == n.peers[s].address
           d == n.peers[s].next_local_deadline
           r == n.peers[s].next_remote_deadline
<1>1. a \in Address /\ d \in Nat /\ r \in Nat
  BY SlotsRegistered DEF Known, Node, Peer
<1>2. L[a] \in Nat /\ M[a] \in Nat /\ L[a] <= M[a]
  BY <1>1
<1>3. /\ d = 0 => ta <= L[a] + LivelinessAssertTimeout
      /\ d # 0 => ta <= d /\ d <= L[a] + LivelinessAssertTimeout
      /\ tp <= r + EndpointProbeTimeout
  BY DEF InTime
<1> HIDE DEF a, d, r
<1>4. /\ d = 0 => ta <= M[a] + LivelinessAssertTimeout
      /\ d # 0 => ta <= d /\ d <= M[a] + LivelinessAssertTimeout
      /\ tp <= r + EndpointProbeTimeout
  BY <1>1, <1>2, <1>3, TimeoutAssumption, PeriodAssumption
<1> QED
  BY <1>4 DEF a, d, r

(* Tables with the same occupants and deadlines.                           *)
LEMMA InTimeSame ==
    ASSUME NEW n \in Node, NEW m \in Node, m.num_peers = n.num_peers,
           \A s \in Slot : /\ m.peers[s].address = n.peers[s].address
                           /\ m.peers[s].next_remote_deadline = n.peers[s].next_remote_deadline
                           /\ m.peers[s].next_local_deadline = n.peers[s].next_local_deadline,
           NEW L, NEW ta, NEW tp, InTime(n, L, ta, tp)
    PROVE  InTime(m, L, ta, tp)
<1>1. Registered(m) = Registered(n) /\ Registered(n) \subseteq Slot
  BY SlotsRegistered DEF Registered
<1> QED
  BY <1>1 DEF InTime

(* A peer that is met counts as sent to, one that is known keeps its       *)
(* local deadline.                                                         *)
LEMMA InTimeRegisters ==
    ASSUME NEW n \in Node, NEW w \in Node, NEW slot, NEW a \in Address, NEW t \in Nat,
           Registers(n, w, slot, a, t + LivelinessTimeout),
           NEW L \in [Address -> Nat], NEW ta \in Nat, NEW tp \in Nat,
           ta <= t + LivelinessAssertTimeout, tp <= t + EndpointProbeTimeout,
           slot \notin Registered(n) => L[a] = t,
           InTime(n, L, ta, tp)
    PROVE  InTime(w, L, ta, tp)
<1>1. Registered(w) = Registered(n) \cup {slot} /\ Registered(n) \subseteq Slot
  BY RegistersSlots
<1>2. ASSUME NEW s \in Registered(w), s # slot
      PROVE  s \in Registered(n) /\ w.peers[s] = n.peers[s]
  BY <1>1, <1>2 DEF Registers
<1> DEFINE d == w.peers[slot].next_local_deadline
           r == w.peers[slot].next_remote_deadline
<1>3. w.peers[slot].address = a /\ r = t + LivelinessTimeout
  BY DEF Registers
<1>4. tp <= r + EndpointProbeTimeout
  BY <1>3, TimeoutAssumption, PeriodAssumption
<1>5. CASE slot \in Registered(n)
  <2>1. n.peers[slot].address = a /\ d = n.peers[slot].next_local_deadline
    <3>1. n.num_peers \in Nat
      BY BoundAssumption DEF Node
    <3> QED
      BY <1>5, <3>1 DEF Registers, Registered
  <2>2. /\ d = 0 => ta <= L[a] + LivelinessAssertTimeout
        /\ d # 0 => ta <= d /\ d <= L[a] + LivelinessAssertTimeout
    BY <1>5, <2>1 DEF InTime
  <2> QED
    BY <1>1, <1>2, <1>3, <1>4, <2>2 DEF InTime
<1>6. CASE slot \notin Registered(n)
  <2>1. d = 0
    BY <1>6 DEF Registers
  <2> QED
    BY <1>1, <1>2, <1>3, <1>4, <1>6, <2>1 DEF InTime
<1> QED
  BY <1>5, <1>6

(* Sending at t to the slots in reached moves their deadlines to one       *)
(* assertion timeout from t.                                               *)
LEMMA InTimeSends ==
    ASSUME NEW n \in Node, NEW m \in Node, SameOccupants(n, m),
           Known(n) \subseteq Address, NEW t \in Nat, NEW reached \in SUBSET Slot,
           \A s \in Registered(n) :
               m.peers[s].next_local_deadline
                   = IF s \in reached THEN t + LivelinessAssertTimeout
                     ELSE n.peers[s].next_local_deadline,
           NEW L \in [Address -> Nat], NEW M \in [Address -> Nat],
           \A a \in Address : L[a] <= M[a],
           \A s \in Registered(n) \cap reached : M[n.peers[s].address] = t,
           NEW ta \in Nat, NEW tp \in Nat, ta <= t + LivelinessAssertTimeout,
           InTime(n, L, ta, tp)
    PROVE  InTime(m, M, ta, tp)
<1>1. Registered(m) = Registered(n) /\ Registered(n) \subseteq Slot
  BY SlotsRegistered DEF Registered, SameOccupants
<1>2. InTime(n, M, ta, tp)
  BY InTimeSentLater
<1>3. ASSUME NEW s \in Registered(n)
      PROVE  LET peer == m.peers[s]
                 sent == M[peer.address]
             IN  /\ peer.next_local_deadline = 0 =>
                       ta <= sent + LivelinessAssertTimeout
                 /\ peer.next_local_deadline # 0 =>
                       /\ ta <= peer.next_local_deadline
                       /\ peer.next_local_deadline <= sent + LivelinessAssertTimeout
                 /\ tp <= peer.next_remote_deadline + EndpointProbeTimeout
  <2>1. /\ m.peers[s].address = n.peers[s].address
        /\ m.peers[s].next_remote_deadline = n.peers[s].next_remote_deadline
    BY <1>1 DEF SameOccupants
  <2>2. tp <= n.peers[s].next_remote_deadline + EndpointProbeTimeout
    BY <1>2 DEF InTime
  <2>3. CASE s \in reached
    <3>1. /\ m.peers[s].next_local_deadline = t + LivelinessAssertTimeout
          /\ M[m.peers[s].address] = t
      BY <2>1, <2>3
    <3> QED
      BY <2>1, <2>2, <3>1, TimeoutAssumption
  <2>4. CASE s \notin reached
    <3>1. m.peers[s].next_local_deadline = n.peers[s].next_local_deadline
      BY <2>4
    <3> QED
      BY <1>2, <2>1, <3>1 DEF InTime
  <2> QED
    BY <2>3, <2>4
<1> QED
  BY <1>1, <1>3 DEF InTime

(* Who survives a probe has a deadline that has not passed.                *)
LEMMA InTimeProbe ==
    ASSUME NEW n \in Node, NEW t \in Nat, NEW m \in uccn_probe_endpoints(n, t),
           NEW L, NEW ta \in Nat, NEW tp \in Nat, InTime(n, L, ta, tp),
           NEW up \in Nat, up <= t + EndpointProbeTimeout
    PROVE  InTime(m, L, ta, up)
<1>1. m \in Node
  BY ProbeEffect
<1>2. PICK k \in 0 .. MaxPeers : \E q \in [1 .. k -> Registered(n)] :
          Renumbered(n, m, k, q, t)
  BY ProbeEffect
<1>3. PICK q \in [1 .. k -> Registered(n)] : Renumbered(n, m, k, q, t)
  BY <1>2
<1>4. Registered(m) = 1 .. k
  BY <1>3 DEF Registered, Renumbered
<1>5. ASSUME NEW i \in 1 .. k
      PROVE  /\ q[i] \in Registered(n)
             /\ m.peers[i].address = n.peers[q[i]].address
             /\ m.peers[i].next_local_deadline = n.peers[q[i]].next_local_deadline
             /\ up <= m.peers[i].next_remote_deadline + EndpointProbeTimeout
  <2>1. /\ q[i] \in Registered(n) /\ q[i] \in Slot
        /\ m.peers[i].address = n.peers[q[i]].address
        /\ m.peers[i].next_local_deadline = n.peers[q[i]].next_local_deadline
        /\ m.peers[i].next_remote_deadline = n.peers[q[i]].next_remote_deadline
    BY <1>1, <1>3, RenumberedPeers
  <2>2. n.peers[q[i]].next_remote_deadline >= t
    BY <1>3, <2>1 DEF Renumbered, Survives, Live
  <2>3. n.peers[q[i]].next_remote_deadline \in Nat
    BY <2>1 DEF Node, Peer
  <2> QED
    BY <2>1, <2>2, <2>3, PeriodAssumption
<1> QED
  BY <1>4, <1>5 DEF InTime

(* The local deadlines that sending leaves.                                *)
LEMMA PostDeadlines ==
    ASSUME NEW n \in Node, NEW r \in Resource, NEW reached, NEW t \in Nat, NEW s \in Slot
    PROVE  uccn_post(n, r, reached, t).peers[s].next_local_deadline
               = IF s \in reached THEN t + LivelinessAssertTimeout
                 ELSE n.peers[s].next_local_deadline
<1>1. n.peers[s] \in Peer
  BY DEF Node
<1> QED
  BY <1>1 DEF uccn_post, Node, Peer

(* The local deadlines after uccn_assert_liveliness.                       *)
LEMMA AssertDeadlines ==
    ASSUME NEW n \in Node, NEW reached, NEW t \in Nat, NEW s \in Slot
    PROVE  LET d == n.peers[s].next_local_deadline
           IN  uccn_assert_liveliness(n, reached, t).peers[s].next_local_deadline
                   = IF s \in reached
                     THEN (IF d = 0 THEN t ELSE d) + LivelinessAssertTimeout ELSE d
<1>1. n.peers[s] \in Peer
  BY DEF Node
<1> QED
  BY <1>1 DEF uccn_assert_liveliness, Node, Peer

(* What is sent is sent now, and later than what was sent before.          *)
LEMMA SentLater ==
    ASSUME now \in Nat, now' = now, last \in [Address -> Nat], SentBefore,
           last' = last \/ \E A : SentTo(A)
    PROVE  SentBefore' /\ \A a \in Address : last[a] <= last'[a]
BY DEF SentTo, SentBefore

(* Incoming datagrams leave the peers in time, new ones included, if the   *)
(* node sends keepalives and probes no later than it would plan to now.    *)
LEMMA IncomingInTime ==
    ASSUME IndInv, IndInv', Addressed, SentBefore,
           last \in [Address -> Nat], last' \in [Address -> Nat],
           NEW ta \in Nat, ta <= now + LivelinessAssertTimeout,
           NEW tp \in Nat, tp <= now + EndpointProbeTimeout,
           InTime(node, last, ta, tp),
           NEW d, NEW next, Incoming1(d, next)
    PROVE  now' = now /\ SentBefore' /\ InTime(node', last', ta, tp)
<1>1. /\ node \in Node /\ node' \in Node /\ now \in Nat
      /\ Known(node) \subseteq Address
  BY ClockAssumption DEF IndInv, TypeOK, Addressed
<1>2. PICK a \in Address, p \in Incoming, delivered \in BOOLEAN :
        \E blob \in IF p.kind = "content" THEN Blob ELSE {"good"} :
            LET result == uccn_process_incoming(node, a, p, blob, now)
                answer == result.reply # None
                known  == \E s \in Registered(node) : node.peers[s].address = a
            IN  /\ d \in ready
                /\ Receive(a, p, blob)
                /\ SentTo(IF (answer /\ delivered) \/ (~known /\ result.node # node)
                          THEN {a} ELSE {})
                /\ IF result.ret < 0 \/ (answer /\ ~delivered)
                   THEN Return
                   ELSE GoTo(next) /\ ready' = ready \ {d}
  BY Zenon DEF Incoming1
<1> DEFINE known == \E s \in Registered(node) : node.peers[s].address = a
<1>3. PICK blob :
        /\ Receive(a, p, blob)
        /\ \E A : SentTo(A) /\ (~known /\ node' # node => a \in A)
  BY <1>2 DEF Receive
<1>4. now' = now /\ node' = uccn_process_incoming(node, a, p, blob, now).node
  BY <1>3 DEF Receive
<1>5. SentBefore' /\ \A b \in Address : last[b] <= last'[b]
  <2>1. PICK A : SentTo(A)
    BY <1>3
  <2> QED
    BY <1>1, <1>4, <2>1, SentLater
<1>6. ~known /\ node' # node => last'[a] = now
  BY <1>3 DEF SentTo
<1>7. p \in Packet
  BY IncomingPackets
<1>8. /\ node.num_peers = MaxPeers => node' = node
      /\ node.num_peers # MaxPeers =>
            \E w \in Node, slot \in Slot : Serves(node, node', w, slot, a, p, blob, now)
  BY <1>1, <1>4, <1>7, IncomingEffect
<1>9. InTime(node, last', ta, tp)
  BY <1>1, <1>5, InTimeSentLater
<1>10. CASE node.num_peers = MaxPeers
  BY <1>4, <1>5, <1>8, <1>9, <1>10
<1>11. CASE node.num_peers # MaxPeers
  <2>1. PICK w \in Node, slot \in Slot : Serves(node, node', w, slot, a, p, blob, now)
    BY <1>8, <1>11
  <2>2. /\ Registers(node, w, slot, a, now + LivelinessTimeout)
        /\ SameTable(w, node')
    BY <2>1 DEF Serves
  <2>3. ASSUME slot \notin Registered(node) PROVE last'[a] = now
    <3>1. ~known
      BY <1>1, <2>2, <2>3, RegistersSlots
    <3>2. node'.num_peers = node.num_peers + 1 /\ node.num_peers \in Nat
      BY <1>1, <2>2, <2>3, BoundAssumption DEF Registers, SameTable, Node
    <3> QED
      BY <1>6, <3>1, <3>2
  <2>4. InTime(w, last', ta, tp)
    BY <1>1, <1>9, <2>2, <2>3, InTimeRegisters
  <2>5. InTime(node', last', ta, tp)
    BY <1>1, <2>2, <2>4, InTimeSame DEF SameTable
  <2> QED
    BY <1>4, <1>5, <2>5
<1> QED
  BY <1>10, <1>11

(* So do the calls of other threads.                                       *)
LEMMA ApiInTime ==
    ASSUME IndInv, IndInv', Addressed, SentBefore,
           last \in [Address -> Nat], last' \in [Address -> Nat],
           NEW ta \in Nat, ta <= now + LivelinessAssertTimeout,
           NEW tp \in Nat, tp <= now + EndpointProbeTimeout,
           InTime(node, last, ta, tp),
           Api
    PROVE  now' = now /\ SentBefore' /\ InTime(node', last', ta, tp)
<1>1. /\ node \in Node /\ node' \in Node /\ now \in Nat
      /\ Known(node) \subseteq Address
  BY ClockAssumption DEF IndInv, TypeOK, Addressed
<1>2. ASSUME NEW side \in Side, NEW r \in Resource, AddEndpoint(side, r), last' = last
      PROVE  now' = now /\ SentBefore' /\ InTime(node', last', ta, tp)
  <2>1. node'.peers = node.peers /\ node'.num_peers = node.num_peers /\ now' = now
    BY <1>1, <1>2 DEF AddEndpoint, uccn_add_endpoint, Node
  <2>2. InTime(node', last', ta, tp)
    BY <1>1, <1>2, <2>1, InTimeSame
  <2> QED
    BY <1>1, <1>2, <2>1, <2>2, SentLater
<1>3. ASSUME NEW r \in Resource, NEW reached \in SUBSET Slot, Post(r, reached),
             SentTo(AddressesOf(reached))
      PROVE  now' = now /\ SentBefore' /\ InTime(node', last', ta, tp)
  <2>1. node' = uccn_post(node, r, reached, now) /\ now' = now
    BY <1>3 DEF Post
  <2>2. SentBefore' /\ \A a \in Address : last[a] <= last'[a]
    BY <1>1, <1>3, <2>1, SentLater
  <2>3. ASSUME NEW s \in Registered(node)
        PROVE  /\ node'.peers[s].next_local_deadline
                    = IF s \in reached THEN now + LivelinessAssertTimeout
                      ELSE node.peers[s].next_local_deadline
               /\ s \in reached => last'[node.peers[s].address] = now
    <3>1. s \in Slot /\ node.peers[s].address \in Address
      BY <1>1, SlotsRegistered DEF Known
    <3>2. s \in reached => last'[node.peers[s].address] = now
      BY <1>3, <3>1 DEF SentTo, AddressesOf
    <3> QED
      BY <1>1, <2>1, <3>1, <3>2, PostDeadlines
  <2>4. SameOccupants(node, node')
    BY <1>1, <2>1, PostType
  <2>5. InTime(node', last', ta, tp)
    BY <1>1, <2>2, <2>3, <2>4, InTimeSends
  <2> QED
    BY <2>1, <2>2, <2>5
<1>4. ASSUME NEW r \in Resource, PostFailed(r), last' = last
      PROVE  now' = now /\ SentBefore' /\ InTime(node', last', ta, tp)
  <2>1. SameTable(node, node') /\ now' = now
    BY <1>1, <1>4, PostFailedType DEF PostFailed
  <2>2. InTime(node', last', ta, tp)
    BY <1>1, <1>4, <2>1, InTimeSame DEF SameTable
  <2> QED
    BY <1>1, <1>4, <2>1, <2>2, SentLater
<1> QED
  BY <1>2, <1>3, <1>4 DEF Api

(* Every step of a punctual loop keeps its timers ahead of the clock and   *)
(* in step with the deadlines of the peers.                                *)
LEMMA PunctualStep ==
    ASSUME Punctual, IndInv, IndInv', Addressed, LocalsOK, LocalsOK', PunctualInv,
           [SpinNext]_spinVars
    PROVE  PunctualInv'
<1>1. /\ node \in Node /\ node' \in Node /\ now \in Nat /\ now' \in Nat
      /\ Known(node) \subseteq Address
      /\ last \in [Address -> Nat] /\ last' \in [Address -> Nat]
      /\ timer \in [Timer -> Nat] /\ timer' \in [Timer -> Nat]
      /\ current \in Nat /\ timeout \in Nat /\ wake \in Nat
  BY ClockAssumption DEF IndInv, TypeOK, LocalsOK, Addressed
<1>2. Timer = {"assert", "probe", "discovery"}
  BY DEF Timer
<1>3. /\ Running = {"unicast", "broadcast", "clock", "assert", "probe", "discover",
                    "sleep", "poll"}
      /\ Working \cup {"sleep"} = Running \ {"poll"}
  BY DEF Running, Working
<1>4. /\ AssertBound \in Nat /\ now <= AssertBound
      /\ AssertBound <= now + LivelinessAssertTimeout
      /\ ProbeBound \in Nat /\ now <= ProbeBound
      /\ ProbeBound <= now + EndpointProbeTimeout
  BY <1>1, <1>2 DEF PunctualInv, TimersAhead, AssertBound, ProbeBound
<1>5. InTime(node, last, AssertBound, ProbeBound) /\ SentBefore
  BY DEF PunctualInv
<1>6. LivelinessAssertTimeout \in Nat \ {0} /\ EndpointProbeTimeout \in Nat
      /\ PeerDiscoveryPeriod \in Nat \ {0}
  BY TimeoutAssumption, PeriodAssumption
\* The ways a step ends: outside the loop, or inside it with the same timers.
<1>7. ASSUME pc' \notin Running \cup {"assert_abort", "discovery_abort"}, now' = now,
             SentBefore', Known(node') \subseteq Address,
             InTime(node', last', AssertBound, ProbeBound)
      PROVE  PunctualInv'
  <2>1. AssertBound' = now /\ ProbeBound' = now
    BY <1>7 DEF AssertBound, ProbeBound
  <2>2. InTime(node', last', now, now)
    BY <1>1, <1>4, <1>7, InTimeSooner
  <2>3. TimersAhead'
    BY <1>1, <1>3, <1>6, <1>7, <2>1 DEF TimersAhead
  <2>4. InTime(node, last, AssertBound, ProbeBound)'
    BY <2>1, <2>2 DEF InTime, Registered
  <2> QED
    BY <1>7, <2>3, <2>4 DEF PunctualInv, AssertTimeAhead, DiscoveryTimeAhead
<1>8. ASSUME pc \in Running, pc' \in Running, timer' = timer, TimersAhead', SentBefore',
             InTime(node', last', AssertBound, ProbeBound)
      PROVE  PunctualInv'
  <2>1. AssertBound' = AssertBound /\ ProbeBound' = ProbeBound
    BY <1>8 DEF AssertBound, ProbeBound
  <2>2. InTime(node, last, AssertBound, ProbeBound)'
    BY <1>8, <2>1 DEF InTime, Registered
  <2> QED
    BY <1>3, <1>8, <2>2 DEF PunctualInv, AssertTimeAhead, DiscoveryTimeAhead
<1>9. ASSUME NEW A, SentTo(A), now' = now
      PROVE  SentBefore' /\ \A a \in Address : last[a] <= last'[a]
  BY <1>1, <1>5, <1>9, SentLater
<1>10. ASSUME last' = last, now' = now
       PROVE  SentBefore' /\ \A a \in Address : last[a] <= last'[a]
  BY <1>1, <1>5, <1>10 DEF SentBefore
<1>11. ASSUME SameTable(node, node'), \A a \in Address : last[a] <= last'[a]
       PROVE  InTime(node', last', AssertBound, ProbeBound)
  <2>1. InTime(node, last', AssertBound, ProbeBound)
    BY <1>1, <1>4, <1>5, <1>11, InTimeSentLater
  <2> QED
    BY <1>1, <1>11, <2>1, InTimeSame DEF SameTable
<1>12. SameTable(node, node)
  BY DEF SameTable
<1>13. Known(node') \subseteq Address
  <2>1. Next \/ UNCHANGED vars
    BY SpinStep DEF spinVars
  <2> QED
    BY <2>1, DirectoryStep DEF Addressed, Known, Registered
<1>14. CASE Spin
  <2>1. /\ now' = now /\ last' = last /\ node' = node /\ pc = "idle" /\ pc' = "unicast"
        /\ current' = now /\ timer' = [t \in Timer |-> now]
    BY <1>14 DEF Spin, vars
  <2>2. /\ AssertBound = now /\ ProbeBound = now /\ AssertBound' = now /\ ProbeBound' = now
    BY <1>2, <1>3, <2>1 DEF AssertBound, ProbeBound
  <2>3. TimersAhead'
    BY <1>1, <1>2, <1>3, <1>6, <2>1, <2>2 DEF TimersAhead
  <2>4. InTime(node, last, AssertBound, ProbeBound)'
    BY <1>5, <2>1, <2>2 DEF InTime, Registered
  <2> QED
    BY <1>10, <2>1, <2>3, <2>4 DEF PunctualInv, AssertTimeAhead, DiscoveryTimeAhead
<1>15. CASE Wake
  <2>1. /\ now' = now /\ last' = last /\ node' = node /\ pc = "poll" /\ pc' = "unicast"
        /\ current' = now /\ timer' = timer
    BY <1>15 DEF Wake, vars
  <2>2. TimersAhead'
    BY <1>1, <1>2, <1>3, <1>4, <2>1 DEF TimersAhead, PunctualInv, AssertBound, ProbeBound
  <2> QED
    BY <1>3, <1>5, <1>8, <1>10, <2>1, <2>2
<1>16. CASE Stopped
  <2>1. now' = now /\ last' = last /\ node' = node /\ pc' = "idle"
    BY <1>16 DEF Stopped, vars
  <2> QED
    BY <1>3, <1>5, <1>7, <1>10, <1>13, <2>1
\* A step of an iteration that goes on to one of its first steps.
<1>17. ASSUME pc \in Running \ {"poll"}, NEW next \in {"broadcast", "clock"}, GoTo(next),
              now' = now, SentBefore', InTime(node', last', AssertBound, ProbeBound)
       PROVE  PunctualInv'
  <2>1. pc' = next /\ timer' = timer /\ current' = current
    BY <1>17 DEF GoTo
  <2>2. TimersAhead'
    BY <1>1, <1>2, <1>3, <1>4, <1>17, <2>1
       DEF TimersAhead, PunctualInv, AssertBound, ProbeBound
  <2> QED
    BY <1>3, <1>8, <1>17, <2>1, <2>2
<1>18. ASSUME pc \in Running \ {"poll"}, NEW next \in {"broadcast", "clock"}, NEW d,
              Skip(d, next)
       PROVE  PunctualInv'
  <2>1. now' = now /\ last' = last /\ node' = node /\ GoTo(next)
    BY <1>18 DEF Skip, vars
  <2> QED
    BY <1>5, <1>10, <1>17, <1>18, <2>1
<1>19. ASSUME pc \in Running \ {"poll"}, NEW next \in {"broadcast", "clock"}, NEW d,
              Incoming1(d, next)
       PROVE  PunctualInv'
  <2>1. now' = now /\ SentBefore' /\ InTime(node', last', AssertBound, ProbeBound)
    BY <1>1, <1>4, <1>5, <1>19, IncomingInTime
  <2>2. Return \/ GoTo(next)
    BY <1>19 DEF Incoming1
  <2>3. CASE Return
    BY <1>3, <1>7, <1>13, <2>1, <2>3 DEF Return
  <2>4. CASE GoTo(next)
    BY <1>17, <1>19, <2>1, <2>4
  <2> QED
    BY <2>2, <2>3, <2>4
<1>20. CASE Unicast
  BY <1>3, <1>18, <1>19, <1>20 DEF Unicast
<1>21. CASE BroadcastIn
  <2>1. CASE OwnBroadcast
    <3>1. now' = now /\ last' = last /\ node' = node /\ GoTo("clock") /\ pc = "broadcast"
      BY <1>21, <2>1 DEF OwnBroadcast, BroadcastIn, vars
    <3> QED
      BY <1>3, <1>5, <1>10, <1>17, <3>1
  <2> QED
    BY <1>3, <1>18, <1>19, <1>21, <2>1 DEF BroadcastIn
<1>22. CASE ReadClock
  <2>1. /\ now' = now /\ last' = last /\ node' = node /\ pc = "clock" /\ pc' = "assert"
        /\ current' = now /\ timer' = timer
    BY <1>22 DEF ReadClock, vars
  <2>2. TimersAhead'
    BY <1>1, <1>2, <1>3, <1>4, <2>1 DEF TimersAhead, PunctualInv, AssertBound, ProbeBound
  <2> QED
    BY <1>3, <1>5, <1>8, <1>10, <2>1, <2>2
<1>23. CASE Assert
  <2>1. pc = "assert" /\ current = now /\ AssertBound = timer["assert"]
        /\ ProbeBound = timer["probe"]
    BY <1>3, <1>23 DEF Assert, PunctualInv, TimersAhead, AssertBound, ProbeBound
  <2>2. CASE NotDue("assert", "probe")
    <3>1. /\ now' = now /\ last' = last /\ node' = node /\ pc' = "probe"
          /\ timer' = timer /\ current' = current /\ current < timer["assert"]
      BY <2>2 DEF NotDue, GoTo, vars
    <3>2. TimersAhead'
      BY <1>1, <1>2, <1>3, <1>4, <2>1, <3>1
         DEF TimersAhead, PunctualInv, AssertBound, ProbeBound
    <3> QED
      BY <1>3, <1>5, <1>8, <1>10, <2>1, <3>1, <3>2
  <2>3. CASE ~NotDue("assert", "probe")
    <3>1. PICK reached \in SUBSET Slot :
            /\ AssertLiveliness(reached)
            /\ SentTo(AddressesOf(reached))
            /\ IF reached = Due(node, now)
               THEN Fired("assert", NextAssert(node'), "probe")
               ELSE Return
      BY <1>23, <2>3 DEF Assert
    <3>2. /\ reached \subseteq Due(node, now) /\ now' = now
          /\ node' = uccn_assert_liveliness(node, reached, now)
      BY <3>1 DEF AssertLiveliness
    <3>3. SentBefore' /\ \A a \in Address : last[a] <= last'[a]
      BY <1>9, <3>1, <3>2
    <3>4. ASSUME NEW s \in Registered(node)
          PROVE  /\ node'.peers[s].next_local_deadline
                      = IF s \in reached THEN now + LivelinessAssertTimeout
                        ELSE node.peers[s].next_local_deadline
                 /\ s \in reached => last'[node.peers[s].address] = now
      <4> DEFINE d == node.peers[s].next_local_deadline
      <4>1. s \in Slot /\ d \in Nat /\ node.peers[s].address \in Address
        BY <1>1, SlotsRegistered DEF Known, Node, Peer
      <4>2. node'.peers[s].next_local_deadline
              = IF s \in reached
                THEN (IF d = 0 THEN now ELSE d) + LivelinessAssertTimeout ELSE d
        BY <1>1, <3>2, <4>1, AssertDeadlines
      <4>3. s \in reached => now >= d
        BY <3>2 DEF Due
      <4>4. d # 0 => AssertBound <= d
        BY <1>5 DEF InTime
      <4> HIDE DEF d
      <4>5. s \in reached => (IF d = 0 THEN now ELSE d) = now
        BY <1>1, <1>4, <4>1, <4>3, <4>4
      <4>6. s \in reached => last'[node.peers[s].address] = now
        BY <3>1, <4>1 DEF SentTo, AddressesOf
      <4> QED
        BY <4>2, <4>5, <4>6 DEF d
    <3>5. InTime(node', last', AssertBound, ProbeBound)
      <4>1. SameOccupants(node, node')
        BY <1>1, <3>2, AssertLivelinessType
      <4> QED
        BY <1>1, <1>4, <1>5, <3>3, <3>4, <4>1, InTimeSends
    <3>6. CASE reached # Due(node, now)
      BY <1>3, <1>7, <1>13, <3>1, <3>2, <3>3, <3>5, <3>6 DEF Return
    <3>7. CASE reached = Due(node, now)
      <4> DEFINE e == NextAssert(node')
      <4>1. Registered(node') = Registered(node)
        BY <1>1, <3>2, AssertLivelinessType DEF SameOccupants, Registered
      <4>2. ASSUME NEW s \in Registered(node) PROVE node'.peers[s].next_local_deadline > now
        <5>1. node.peers[s].next_local_deadline \in Nat
          BY <1>1, SlotsRegistered DEF Node, Peer
        <5>2. s \notin reached => ~(now >= node.peers[s].next_local_deadline)
          BY <3>7 DEF Due
        <5> QED
          BY <1>1, <1>6, <3>4, <5>1, <5>2
      <4>3. /\ e \in Nat /\ e <= now + LivelinessAssertTimeout
            /\ \A s \in Registered(node) : e <= node'.peers[s].next_local_deadline
            /\ \/ e = now + LivelinessAssertTimeout
               \/ \E s \in Registered(node) : e = node'.peers[s].next_local_deadline
        BY <1>1, <4>1, NextAssertIs
      <4>4. e > now
        BY <1>1, <1>6, <4>2, <4>3
      <4>5. Fired("assert", e, "probe")
        BY <3>1, <3>7
      <4> HIDE DEF e
      <4>6. pc' = "probe" /\ timer' = [timer EXCEPT !["assert"] = e] /\ current' = now
        BY <2>1, <4>4, <4>5 DEF Fired
      <4>7. timer'["assert"] = e /\ timer'["probe"] = timer["probe"]
            /\ timer'["discovery"] = timer["discovery"]
        BY <1>1, <1>2, <4>6
      <4>8. AssertBound' = e /\ ProbeBound' = ProbeBound
        BY <1>3, <2>1, <4>6, <4>7 DEF AssertBound, ProbeBound
      <4>9. InTime(node', last', e, ProbeBound)
        <5>1. \A s \in Registered(node) :
                  /\ node'.peers[s].next_local_deadline # 0
                  /\ e <= node'.peers[s].next_local_deadline
          BY <1>1, <4>2, <4>3
        <5> QED
          BY <3>5, <4>1, <5>1 DEF InTime
      <4>10. \A t \in Timer : now <= timer[t]
        BY <1>3, <2>1 DEF PunctualInv, TimersAhead
      <4>11. TimersAhead'
        BY <1>1, <1>2, <1>3, <1>4, <3>2, <4>3, <4>4, <4>6, <4>7, <4>8, <4>10 DEF TimersAhead
      <4>12. InTime(node, last, AssertBound, ProbeBound)'
        BY <4>8, <4>9 DEF InTime, Registered
      <4> QED
        BY <3>3, <4>6, <4>11, <4>12 DEF PunctualInv, AssertTimeAhead, DiscoveryTimeAhead
    <3> QED
      BY <3>6, <3>7
  <2> QED
    BY <2>2, <2>3
<1>24. CASE Probe
  <2>1. pc = "probe" /\ current = now /\ AssertBound = timer["assert"]
        /\ ProbeBound = timer["probe"] /\ now < timer["assert"]
        /\ \A t \in Timer : now <= timer[t]
    BY <1>3, <1>24 DEF Probe, PunctualInv, TimersAhead, AssertBound, ProbeBound
  <2>2. CASE NotDue("probe", "discover")
    <3>1. /\ now' = now /\ last' = last /\ node' = node /\ pc' = "discover"
          /\ timer' = timer /\ current' = current /\ current < timer["probe"]
      BY <2>2 DEF NotDue, GoTo, vars
    <3>2. TimersAhead'
      BY <1>1, <1>2, <1>3, <1>4, <2>1, <3>1
         DEF TimersAhead, AssertBound, ProbeBound
    <3> QED
      BY <1>3, <1>5, <1>8, <1>10, <2>1, <3>1, <3>2
  <2>3. CASE ~NotDue("probe", "discover")
    <3> DEFINE e == NextProbe(node')
    <3>1. /\ node' \in uccn_probe_endpoints(node, now) /\ now' = now /\ last' = last
          /\ Fired("probe", e, "discover")
      BY <1>24, <2>3 DEF Probe, ProbeEndpoints
    <3>2. e \in Nat /\ e <= now + EndpointProbeTimeout
      BY <1>1, NextProbeIs
    <3> HIDE DEF e
    <3>3. InTime(node', last', AssertBound, e)
      BY <1>1, <1>4, <1>5, <3>1, <3>2, InTimeProbe
    <3>4. InTime(node', last', AssertBound, ProbeBound)
      BY <1>1, <1>4, <1>5, <3>1, InTimeProbe
    <3>5. CASE ~(e > current)
      <4>1. pc' = "probe_abort"
        BY <3>1, <3>5 DEF Fired, Abort
      <4> QED
        BY <1>3, <1>7, <1>10, <1>13, <3>1, <3>4, <4>1
    <3>6. CASE e > current
      <4>1. pc' = "discover" /\ timer' = [timer EXCEPT !["probe"] = e] /\ current' = now
        BY <2>1, <3>1, <3>6 DEF Fired
      <4>2. timer'["assert"] = timer["assert"] /\ timer'["probe"] = e
            /\ timer'["discovery"] = timer["discovery"]
        BY <1>1, <1>2, <4>1
      <4>3. AssertBound' = AssertBound /\ ProbeBound' = e
        BY <1>3, <2>1, <4>1, <4>2 DEF AssertBound, ProbeBound
      <4>4. TimersAhead'
        BY <1>1, <1>2, <1>3, <1>4, <2>1, <3>1, <3>2, <3>6, <4>1, <4>2, <4>3 DEF TimersAhead
      <4>5. InTime(node, last, AssertBound, ProbeBound)'
        BY <3>3, <4>3 DEF InTime, Registered
      <4> QED
        BY <1>10, <3>1, <4>1, <4>4, <4>5 DEF PunctualInv, AssertTimeAhead, DiscoveryTimeAhead
    <3> QED
      BY <3>5, <3>6
  <2> QED
    BY <2>2, <2>3
<1>25. ASSUME DiscoverPeers PROVE SameTable(node, node') /\ now' = now
  BY <1>1, <1>25, DiscoverType DEF DiscoverPeers
<1>26. CASE Discover
  <2>1. pc = "discover" /\ current = now /\ AssertBound = timer["assert"]
        /\ ProbeBound = timer["probe"] /\ now < timer["assert"] /\ now < timer["probe"]
        /\ now <= timer["discovery"]
    BY <1>2, <1>3, <1>26 DEF Discover, PunctualInv, TimersAhead, AssertBound, ProbeBound
  <2>2. current' = current
    BY <1>26 DEF Discover
  <2>3. CASE current < timer["discovery"]
    <3>1. /\ now' = now /\ last' = last /\ node' = node /\ pc' = "sleep" /\ timer' = timer
      <4>1. ~(current >= timer["discovery"])
        BY <1>1, <1>2, <2>3
      <4> QED
        BY <1>26, <4>1 DEF Discover, vars
    <3>2. TimersAhead'
      BY <1>1, <1>2, <1>3, <1>4, <2>1, <2>2, <2>3, <3>1
         DEF TimersAhead, AssertBound, ProbeBound
    <3> QED
      BY <1>3, <1>5, <1>8, <1>10, <2>1, <3>1, <3>2
  <2>4. CASE current >= timer["discovery"]
    <3>1. /\ \/ DiscoverPeers /\ SentTo(Address)
             \/ UNCHANGED <<vars, last>>
          /\ timer' = [timer EXCEPT !["discovery"] = @ + PeerDiscoveryPeriod]
          /\ pc' = IF timer'["discovery"] > current THEN "sleep" ELSE Abort["discovery"]
      BY <1>1, <1>26, <2>4 DEF Discover
    <3>2. SameTable(node, node') /\ now' = now
      BY <1>12, <1>25, <3>1 DEF vars
    <3>3. SentBefore' /\ \A a \in Address : last[a] <= last'[a]
      BY <1>9, <1>10, <3>1, <3>2
    <3>4. timer'["assert"] = timer["assert"] /\ timer'["probe"] = timer["probe"]
          /\ timer'["discovery"] = timer["discovery"] + PeerDiscoveryPeriod
      BY <1>1, <1>2, <3>1
    <3>5. timer["discovery"] \in Nat
      BY <1>1, <1>2
    <3>6. timer'["discovery"] > current /\ timer'["discovery"] > now /\ pc' = "sleep"
      BY <1>1, <1>6, <2>1, <3>1, <3>4, <3>5
    <3>7. AssertBound' = AssertBound /\ ProbeBound' = ProbeBound
      BY <1>3, <2>1, <3>4, <3>6 DEF AssertBound, ProbeBound
    <3>8. TimersAhead'
      BY <1>1, <1>2, <1>3, <1>4, <2>1, <2>2, <3>2, <3>4, <3>6, <3>7 DEF TimersAhead
    <3>9. InTime(node', last', AssertBound, ProbeBound)
      BY <1>11, <3>2, <3>3
    <3>10. InTime(node, last, AssertBound, ProbeBound)'
      BY <3>7, <3>9 DEF InTime, Registered
    <3> QED
      BY <3>3, <3>6, <3>8, <3>10 DEF PunctualInv, AssertTimeAhead, DiscoveryTimeAhead
  <2> QED
    BY <1>1, <1>26, <2>3, <2>4 DEF Discover
<1>27. CASE DiscoverFailed
  <2>1. SameTable(node, node') /\ now' = now /\ last' = last /\ pc' = "idle"
    BY <1>25, <1>27 DEF DiscoverFailed, Return
  <2> QED
    BY <1>3, <1>7, <1>10, <1>11, <1>13, <2>1
<1>28. CASE Sleep
  <2> DEFINE T == {timeout} \cup {timer[t] : t \in Timer}
             e == Earliest(T)
  <2>1. /\ pc = "sleep" /\ now' = now /\ last' = last /\ node' = node
        /\ \/ pc' = "idle"
           \/ /\ now < timeout
              /\ pc' = "poll" /\ wake' = now + Distance(e, now) /\ timer' = timer
    BY <1>28 DEF Sleep, vars
  <2>2. CASE pc' = "idle"
    BY <1>3, <1>5, <1>7, <1>10, <1>13, <2>1, <2>2
  <2>3. CASE pc' # "idle"
    <3>1. /\ e = timeout \/ \E t \in Timer : e = timer[t]
          /\ \A t \in Timer : e <= timer[t]
      BY <1>1, DeadlineIs
    <3>2. e \in Nat
      BY <1>1, DeadlineIs
    <3> HIDE DEF e
    <3>3. \A t \in Timer : now < timer[t]
      BY <1>2, <2>1 DEF PunctualInv, TimersAhead
    <3>4. now < e
      BY <2>1, <2>3, <3>1, <3>3
    <3>5. wake' = e
      BY <1>1, <2>1, <2>3, <3>2, <3>4 DEF Distance
    <3>6. pc' = "poll" /\ timer' = timer
      BY <2>1, <2>3
    <3>7. AssertBound' = AssertBound /\ ProbeBound' = ProbeBound
      BY <1>3, <2>1, <3>6 DEF AssertBound, ProbeBound
    <3>8. TimersAhead'
      BY <1>1, <1>2, <1>3, <1>4, <2>1, <3>1, <3>2, <3>3, <3>4, <3>5, <3>6, <3>7
         DEF TimersAhead
    <3> QED
      BY <1>3, <1>5, <1>8, <1>10, <2>1, <3>6, <3>8
  <2> QED
    BY <2>2, <2>3
\* Steps of other threads.
<1>29. ASSUME now' = now, UNCHANGED <<pc, current, timer, wake>>, SentBefore',
              InTime(node', last', AssertBound, ProbeBound)
       PROVE  PunctualInv'
  <2>1. AssertBound' = AssertBound /\ ProbeBound' = ProbeBound
    BY <1>29 DEF AssertBound, ProbeBound
  <2>2. TimersAhead'
    BY <1>29, <2>1 DEF TimersAhead, PunctualInv
  <2>3. InTime(node, last, AssertBound, ProbeBound)'
    BY <1>29, <2>1 DEF InTime, Registered
  <2> QED
    BY <1>29, <2>2, <2>3 DEF PunctualInv, AssertTimeAhead, DiscoveryTimeAhead
<1>30. CASE Api
  <2>1. UNCHANGED <<pc, current, timer, wake>>
    BY <1>30 DEF Api
  <2>2. now' = now /\ SentBefore' /\ InTime(node', last', AssertBound, ProbeBound)
    BY <1>1, <1>4, <1>5, <1>30, ApiInTime
  <2> QED
    BY <1>29, <2>1, <2>2
<1>31. ASSUME NEW r \in Resource, ApiBeginPost(r) PROVE PunctualInv'
  BY <1>5, <1>10, <1>29, <1>31 DEF ApiBeginPost, BeginPost, spin
<1>32. CASE SpinTick
  <2>1. /\ now' > now /\ node' = node /\ last' = last
        /\ UNCHANGED <<pc, current, timer, wake>>
        /\ \/ pc = "poll" /\ now' <= wake + MaxLag
           \/ pc \in Working \cup {"sleep"} /\ now' <= current + MaxLag
           \/ pc = "idle" /\ MayIdle
    BY <1>1, <1>32, ClockAssumption DEF SpinTick, Tick, spin
  <2>2. pc = "poll" /\ now' <= wake
    BY <1>1, <2>1 DEF Punctual, PunctualInv, TimersAhead
  <2>3. \A t \in Timer : wake <= timer[t] /\ now' <= timer[t]
    BY <1>1, <2>2 DEF PunctualInv, TimersAhead
  <2>4. AssertBound' = AssertBound /\ ProbeBound' = ProbeBound
    BY <1>3, <2>1, <2>2 DEF AssertBound, ProbeBound
  <2>5. TimersAhead'
    <3>1. /\ AssertBound' <= now' + LivelinessAssertTimeout
          /\ ProbeBound' <= now' + EndpointProbeTimeout
      <4> DEFINE A == AssertBound
                 P == ProbeBound
      <4>1. /\ A \in Nat /\ A <= now + LivelinessAssertTimeout
            /\ P \in Nat /\ P <= now + EndpointProbeTimeout
        BY <1>4
      <4> HIDE DEF A, P
      <4>2. A <= now' + LivelinessAssertTimeout /\ P <= now' + EndpointProbeTimeout
        <5>1. now' > now /\ now \in Nat /\ now' \in Nat
          BY <1>1, <2>1
        <5> QED
          BY <1>6, <4>1, <5>1, Later
      <4> QED
        BY <2>4, <4>2 DEF A, P
    <3>2. pc' = "poll" /\ wake' = wake /\ timer' = timer
      BY <2>1, <2>2
    <3> QED
      BY <1>3, <2>2, <2>3, <3>1, <3>2 DEF TimersAhead
  <2>6. SentBefore'
    BY <1>1, <1>5, <2>1 DEF SentBefore
  <2> QED
    BY <1>3, <1>5, <1>8, <2>1, <2>2, <2>5, <2>6
<1>33. CASE UNCHANGED spinVars
  BY <1>5, <1>10, <1>29, <1>33 DEF spinVars, vars, spin
<1> QED
  BY <1>14, <1>15, <1>16, <1>20, <1>21, <1>22, <1>23, <1>24, <1>26, <1>27, <1>28, <1>30,
     <1>31, <1>32, <1>33 DEF SpinNext

(* The inductive invariant of a punctual loop.                             *)
LEMMA PunctualInvariance ==
    ASSUME Punctual
    PROVE  SpinSpec => []PunctualInv
<1>1. SpinInit => PunctualInv
  <2> SUFFICES ASSUME SpinInit PROVE PunctualInv
    OBVIOUS
  <2>1. pc = "idle" /\ now = 1 /\ Registered(node) = {}
    BY DEF SpinInit, Init, uccn_node_init, Registered
  <2>2. AssertBound = 1 /\ ProbeBound = 1
    BY <2>1 DEF AssertBound, ProbeBound, Running, Working
  <2>3. TimersAhead
    BY <2>1, <2>2, TimeoutAssumption, PeriodAssumption DEF TimersAhead, Running, Working
  <2> QED
    BY <2>1, <2>3 DEF PunctualInv, AssertTimeAhead, DiscoveryTimeAhead, SentBefore,
                      InTime, SpinInit
<1>2. /\ IndInv /\ IndInv' /\ Addressed /\ LocalsOK /\ LocalsOK' /\ PunctualInv
      /\ [SpinNext]_spinVars
      => PunctualInv'
  BY PunctualStep
<1> QED
  BY <1>1, <1>2, SpinImplements, Invariance, AddressedInvariance, LocalsInvariance, PTL
     DEF SpinSpec

(* A node that is never late passes the assertion of uccn_spin_until on    *)
(* the time of its next keepalive.                                         *)
THEOREM PunctualAssertions ==
    ASSUME Punctual
    PROVE  SpinSpec => []AssertTimeAhead
BY PunctualInvariance, PTL DEF PunctualInv

-----------------------------------------------------------------------------
(* A node that may be late, and whose caller may pause between two spins.  *)

(* When the node next sends keepalives at the latest, once it is known: a  *)
(* timer that is due is about to be set anew.                              *)
AssertAim ==
    IF \/ pc \in {"probe", "discover", "sleep", "poll"}
       \/ pc \in Working /\ current < timer["assert"]
    THEN timer["assert"] ELSE 0

(* When the node next probes at the latest, likewise.                      *)
ProbeAim ==
    IF \/ pc \in {"discover", "sleep", "poll"}
       \/ pc \in Working /\ current < timer["probe"]
    THEN timer["probe"] ELSE 0

(* How late the loop is.  An iteration ends with its timers ahead of the   *)
(* clock as it read it; the clock has passed them by less than MaxLag when *)
(* the time to sleep is computed, and timespec_diff doubles that; pselect  *)
(* and the steps up to the next reading add MaxLag each.                   *)
Lateness ==
    /\ pc \in Working \cup {"sleep"} => current <= now /\ now <= current + MaxLag
    /\ pc \in Running => /\ timer["assert"] <= now + LivelinessAssertTimeout
                         /\ timer["probe"] <= now + EndpointProbeTimeout
    /\ pc \in {"unicast", "broadcast", "clock"} =>
           current <= timer["discovery"] + 3 * MaxLag
    /\ pc \in {"assert", "probe", "discover"} =>
           current <= timer["discovery"] + 4 * MaxLag
    /\ pc \in {"probe", "discover", "sleep"} => current < timer["assert"]
    /\ pc \in {"discover", "sleep"} => current < timer["probe"]
    /\ pc = "sleep" => current < timer["discovery"]
    /\ pc = "poll" => /\ now <= wake + MaxLag
                      /\ \A t \in Timer : wake <= timer[t] + 2 * MaxLag

(* The inductive invariant of a node that may be late.                     *)
LateInv ==
    /\ 4 * MaxLag < PeerDiscoveryPeriod => DiscoveryTimeAhead
    /\ Lateness
    /\ SentBefore
    /\ InTime(node, last, AssertAim, ProbeAim)

(* Keepalives sent at t move the deadlines that have come by one assertion *)
(* timeout, which is not beyond one from t.                                *)
LEMMA InTimeAsserts ==
    ASSUME NEW n \in Node, Known(n) \subseteq Address, NEW t \in Nat,
           NEW reached \in SUBSET Due(n, t),
           NEW L \in [Address -> Nat], NEW M \in [Address -> Nat],
           \A a \in Address : L[a] <= M[a],
           \A s \in reached : M[n.peers[s].address] = t,
           NEW tp \in Nat, InTime(n, L, 0, tp)
    PROVE  InTime(uccn_assert_liveliness(n, reached, t), M, 0, tp)
<1> DEFINE m == uccn_assert_liveliness(n, reached, t)
<1>1. m \in Node /\ SameOccupants(n, m)
  BY AssertLivelinessType DEF Due, Registered
<1>2. Registered(m) = Registered(n) /\ Registered(n) \subseteq Slot
  BY <1>1, SlotsRegistered DEF Registered, SameOccupants
<1>3. InTime(n, M, 0, tp)
  BY InTimeSentLater
<1>4. SUFFICES ASSUME NEW s \in Registered(n)
               PROVE  LET peer == m.peers[s]
                          sent == M[peer.address]
                      IN  /\ peer.next_local_deadline = 0 =>
                                0 <= sent + LivelinessAssertTimeout
                          /\ peer.next_local_deadline # 0 =>
                                /\ 0 <= peer.next_local_deadline
                                /\ peer.next_local_deadline <= sent + LivelinessAssertTimeout
                          /\ tp <= peer.next_remote_deadline + EndpointProbeTimeout
  BY <1>2 DEF InTime
<1>5. /\ m.peers[s].address = n.peers[s].address
      /\ m.peers[s].next_remote_deadline = n.peers[s].next_remote_deadline
  BY <1>1, <1>2 DEF SameOccupants
<1> DEFINE d == n.peers[s].next_local_deadline
           e == m.peers[s].next_local_deadline
           l == M[n.peers[s].address]
<1>6. d \in Nat /\ l \in Nat
  BY <1>2 DEF Known, Node, Peer
<1>7. e = IF s \in reached THEN (IF d = 0 THEN t ELSE d) + LivelinessAssertTimeout ELSE d
  BY <1>2, AssertDeadlines
<1>8. s \in reached => d <= t /\ l = t
  BY <1>6 DEF Due
<1>9. /\ d # 0 => d <= l + LivelinessAssertTimeout
      /\ tp <= n.peers[s].next_remote_deadline + EndpointProbeTimeout
  BY <1>3 DEF InTime
<1> HIDE DEF d, e, l
<1>10. 0 <= e /\ 0 <= l + LivelinessAssertTimeout /\ (e # 0 => e <= l + LivelinessAssertTimeout)
  BY <1>6, <1>7, <1>8, <1>9, TimeoutAssumption
<1> QED
  BY <1>5, <1>9, <1>10 DEF d, e, l


(* Every step keeps the node that late at most.                            *)
LEMMA LateStep ==
    ASSUME IndInv, IndInv', Addressed, LocalsOK, LocalsOK', LateInv, [SpinNext]_spinVars
    PROVE  LateInv'
<1>1. /\ node \in Node /\ node' \in Node /\ now \in Nat /\ now' \in Nat
      /\ Known(node) \subseteq Address
      /\ last \in [Address -> Nat] /\ last' \in [Address -> Nat]
      /\ timer \in [Timer -> Nat] /\ timer' \in [Timer -> Nat]
      /\ current \in Nat /\ current' \in Nat /\ timeout \in Nat /\ wake \in Nat
      /\ wake' \in Nat
  BY ClockAssumption DEF IndInv, TypeOK, LocalsOK, Addressed
<1>2. /\ Timer = {"assert", "probe", "discovery"}
      /\ timer["assert"] \in Nat /\ timer["probe"] \in Nat /\ timer["discovery"] \in Nat
      /\ timer'["assert"] \in Nat /\ timer'["probe"] \in Nat /\ timer'["discovery"] \in Nat
  BY <1>1 DEF Timer
<1>3. /\ Running = {"unicast", "broadcast", "clock", "assert", "probe", "discover",
                    "sleep", "poll"}
      /\ Working = {"unicast", "broadcast", "clock", "assert", "probe", "discover"}
  BY DEF Running, Working
<1>4. /\ LivelinessAssertTimeout \in Nat \ {0} /\ EndpointProbeTimeout \in Nat
      /\ PeerDiscoveryPeriod \in Nat \ {0} /\ MaxLag \in Nat
  BY TimeoutAssumption, PeriodAssumption
<1>5. /\ AssertAim \in Nat /\ AssertAim <= now + LivelinessAssertTimeout
      /\ ProbeAim \in Nat /\ ProbeAim <= now + EndpointProbeTimeout
      /\ AssertAim' \in Nat /\ ProbeAim' \in Nat
  BY <1>1, <1>2, <1>3, <1>4 DEF LateInv, Lateness, AssertAim, ProbeAim
<1>6. InTime(node, last, AssertAim, ProbeAim) /\ SentBefore /\ Lateness
  BY DEF LateInv
<1>7. Known(node') \subseteq Address
  <2>1. Next \/ UNCHANGED vars
    BY SpinStep DEF spinVars
  <2> QED
    BY <2>1, DirectoryStep DEF Addressed, Known, Registered
\* The ways a step ends: outside the loop, or inside it with no later aims.
<1>8. ASSUME pc' # "discovery_abort", Lateness', SentBefore',
             AssertAim' <= AssertAim, ProbeAim' <= ProbeAim,
             InTime(node', last', AssertAim, ProbeAim)
      PROVE  LateInv'
  <2>1. InTime(node', last', AssertAim', ProbeAim')
    BY <1>1, <1>5, <1>7, <1>8, InTimeSooner
  <2>2. InTime(node, last, AssertAim, ProbeAim)'
    BY <2>1 DEF InTime, Registered
  <2> QED
    BY <1>8, <2>2 DEF LateInv, DiscoveryTimeAhead
<1>9. ASSUME pc' \notin Running \cup {"discovery_abort"}, SentBefore',
             InTime(node', last', AssertAim, ProbeAim)
      PROVE  LateInv'
  <2>1. AssertAim' = 0 /\ ProbeAim' = 0
    BY <1>3, <1>9 DEF AssertAim, ProbeAim
  <2>2. Lateness'
    BY <1>3, <1>9 DEF Lateness
  <2> QED
    BY <1>5, <1>8, <1>9, <2>1, <2>2
<1>10. ASSUME now' = now, last' = last
       PROVE  SentBefore'
  BY <1>1, <1>6, <1>10 DEF SentBefore
<1>11. ASSUME SameTable(node, node'), \A a \in Address : last[a] <= last'[a]
       PROVE  InTime(node', last', AssertAim, ProbeAim)
  <2>1. InTime(node, last', AssertAim, ProbeAim)
    BY <1>1, <1>5, <1>6, <1>11, InTimeSentLater
  <2> QED
    BY <1>1, <1>11, <2>1, InTimeSame DEF SameTable
<1>12. CASE Spin
  <2>1. /\ now' = now /\ last' = last /\ node' = node /\ pc = "idle" /\ pc' = "unicast"
        /\ current' = now /\ timer' = [t \in Timer |-> now]
    BY <1>12 DEF Spin, vars
  <2>2. timer'["assert"] = now /\ timer'["probe"] = now /\ timer'["discovery"] = now
    BY <1>2, <2>1
  <2>3. AssertAim' = 0 /\ ProbeAim' = 0
    BY <1>1, <1>3, <2>1, <2>2 DEF AssertAim, ProbeAim
  <2>4. Lateness'
    BY <1>1, <1>3, <1>4, <2>1, <2>2 DEF Lateness
  <2> QED
    BY <1>5, <1>6, <1>8, <1>10, <2>1, <2>3, <2>4
<1>13. CASE Wake
  <2>1. /\ now' = now /\ last' = last /\ node' = node /\ pc = "poll" /\ pc' = "unicast"
        /\ current' = now /\ timer' = timer
    BY <1>13 DEF Wake, vars
  <2>2. AssertAim' <= AssertAim /\ ProbeAim' <= ProbeAim
    BY <1>1, <1>2, <1>3, <2>1 DEF AssertAim, ProbeAim
  <2>3. now <= wake + MaxLag /\ wake <= timer["discovery"] + 2 * MaxLag
    BY <1>2, <1>6, <2>1 DEF Lateness
  <2>4. now <= timer["discovery"] + 3 * MaxLag
    BY <1>1, <1>2, <1>4, <2>3
  <2>5. Lateness'
    BY <1>1, <1>2, <1>3, <1>4, <1>6, <2>1, <2>4 DEF Lateness
  <2> QED
    BY <1>6, <1>8, <1>10, <2>1, <2>2, <2>5
<1>14. CASE Stopped
  <2>1. now' = now /\ last' = last /\ node' = node /\ pc' = "idle"
    BY <1>14 DEF Stopped, vars
  <2> QED
    BY <1>3, <1>6, <1>9, <1>10, <2>1
\* A step of an iteration that goes on to one of its first steps.
<1>15. ASSUME pc \in {"unicast", "broadcast"}, NEW next \in {"broadcast", "clock"},
              GoTo(next), now' = now, SentBefore',
              InTime(node', last', AssertAim, ProbeAim)
       PROVE  LateInv'
  <2>1. pc' = next /\ timer' = timer /\ current' = current
    BY <1>15 DEF GoTo
  <2>2. AssertAim' = AssertAim /\ ProbeAim' = ProbeAim
    BY <1>3, <1>15, <2>1 DEF AssertAim, ProbeAim
  <2>3. Lateness'
    BY <1>3, <1>6, <1>15, <2>1 DEF Lateness
  <2> QED
    BY <1>5, <1>8, <1>15, <2>1, <2>2, <2>3
<1>16. ASSUME pc \in {"unicast", "broadcast"}, NEW next \in {"broadcast", "clock"}, NEW d,
              Skip(d, next)
       PROVE  LateInv'
  <2>1. now' = now /\ last' = last /\ node' = node /\ GoTo(next)
    BY <1>16 DEF Skip, vars
  <2> QED
    BY <1>6, <1>10, <1>15, <1>16, <2>1
<1>17. ASSUME pc \in {"unicast", "broadcast"}, NEW next \in {"broadcast", "clock"}, NEW d,
              Incoming1(d, next)
       PROVE  LateInv'
  <2>1. now' = now /\ SentBefore' /\ InTime(node', last', AssertAim, ProbeAim)
    BY <1>1, <1>5, <1>6, <1>17, IncomingInTime
  <2>2. Return \/ GoTo(next)
    BY <1>17 DEF Incoming1
  <2>3. CASE Return
    BY <1>3, <1>9, <2>1, <2>3 DEF Return
  <2>4. CASE GoTo(next)
    BY <1>15, <1>17, <2>1, <2>4
  <2> QED
    BY <2>2, <2>3, <2>4
<1>18. CASE Unicast
  BY <1>16, <1>17, <1>18 DEF Unicast
<1>19. CASE BroadcastIn
  <2>1. CASE OwnBroadcast
    <3>1. now' = now /\ last' = last /\ node' = node /\ GoTo("clock") /\ pc = "broadcast"
      BY <1>19, <2>1 DEF OwnBroadcast, BroadcastIn, vars
    <3> QED
      BY <1>6, <1>10, <1>15, <3>1
  <2> QED
    BY <1>16, <1>17, <1>19, <2>1 DEF BroadcastIn
<1>20. CASE ReadClock
  <2>1. /\ now' = now /\ last' = last /\ node' = node /\ pc = "clock" /\ pc' = "assert"
        /\ current' = now /\ timer' = timer
    BY <1>20 DEF ReadClock, vars
  <2>2. /\ current <= now /\ now <= current + MaxLag
        /\ current <= timer["discovery"] + 3 * MaxLag
    BY <1>3, <1>6, <2>1 DEF Lateness
  <2>3. now <= timer["discovery"] + 4 * MaxLag
    BY <1>1, <1>2, <1>4, <2>2
  <2>4. AssertAim' <= AssertAim /\ ProbeAim' <= ProbeAim
    BY <1>1, <1>2, <1>3, <2>1, <2>2 DEF AssertAim, ProbeAim
  <2>5. Lateness'
    BY <1>1, <1>3, <1>4, <1>6, <2>1, <2>3 DEF Lateness
  <2> QED
    BY <1>6, <1>8, <1>10, <2>1, <2>4, <2>5
<1>21. CASE Assert
  <2>1. pc = "assert" /\ ProbeAim = IF current < timer["probe"] THEN timer["probe"] ELSE 0
    BY <1>3, <1>21 DEF Assert, ProbeAim
  <2>2. /\ current <= now /\ now <= current + MaxLag
        /\ current <= timer["discovery"] + 4 * MaxLag
        /\ timer["probe"] <= now + EndpointProbeTimeout
    BY <1>3, <1>6, <2>1 DEF Lateness
  <2>3. CASE NotDue("assert", "probe")
    <3>1. /\ now' = now /\ last' = last /\ node' = node /\ pc' = "probe"
          /\ timer' = timer /\ current' = current /\ current < timer["assert"]
      BY <2>3 DEF NotDue, GoTo, vars
    <3>2. AssertAim' = AssertAim /\ ProbeAim' = ProbeAim
      BY <1>3, <2>1, <3>1 DEF AssertAim, ProbeAim
    <3>3. Lateness'
      BY <1>3, <1>6, <2>1, <3>1 DEF Lateness
    <3> QED
      BY <1>5, <1>6, <1>8, <1>10, <3>1, <3>2, <3>3
  <2>4. CASE ~NotDue("assert", "probe")
    <3>1. PICK reached \in SUBSET Slot :
            /\ current >= timer["assert"]
            /\ AssertLiveliness(reached)
            /\ SentTo(AddressesOf(reached))
            /\ IF reached = Due(node, now)
               THEN Fired("assert", NextAssert(node'), "probe")
               ELSE Return
      BY <1>21, <2>4 DEF Assert
    <3>2. /\ reached \in SUBSET Due(node, now) /\ now' = now
          /\ node' = uccn_assert_liveliness(node, reached, now)
      BY <3>1 DEF AssertLiveliness
    <3>3. SentBefore' /\ \A a \in Address : last[a] <= last'[a]
      BY <1>1, <1>6, <3>1, <3>2, SentLater
    <3>4. AssertAim = 0
      BY <1>1, <1>2, <1>3, <2>1, <3>1 DEF AssertAim
    <3>5. \A s \in reached : last'[node.peers[s].address] = now
      BY <1>1, <3>1, <3>2 DEF SentTo, AddressesOf, Due, Known
    <3>6. InTime(node', last', AssertAim, ProbeAim)
      BY <1>1, <1>5, <1>6, <3>2, <3>3, <3>4, <3>5, InTimeAsserts
    <3>7. CASE reached # Due(node, now)
      BY <1>3, <1>9, <3>1, <3>3, <3>6, <3>7 DEF Return
    <3>8. CASE reached = Due(node, now)
      <4> DEFINE e == NextAssert(node')
      <4>1. Registered(node') = Registered(node) /\ Registered(node) \subseteq Slot
        BY <1>1, <3>2, AssertLivelinessType, SlotsRegistered DEF SameOccupants, Registered
      <4>2. /\ e \in Nat /\ e <= now + LivelinessAssertTimeout
            /\ \A s \in Registered(node) : e <= node'.peers[s].next_local_deadline
        BY <1>1, <4>1, NextAssertIs
      <4>3. Fired("assert", e, "probe")
        BY <3>1, <3>8
      <4> HIDE DEF e
      <4>4. ASSUME NEW s \in Registered(node)
            PROVE  node'.peers[s].next_local_deadline # 0
        <5> DEFINE d == node.peers[s].next_local_deadline
        <5>1. d \in Nat
          BY <1>1, <4>1 DEF Node, Peer
        <5>2. node'.peers[s].next_local_deadline
                = IF s \in reached THEN (IF d = 0 THEN now ELSE d) + LivelinessAssertTimeout
                  ELSE d
          BY <1>1, <3>2, <4>1, AssertDeadlines
        <5>3. s \notin reached => ~(now >= d)
          BY <3>8 DEF Due
        <5> HIDE DEF d
        <5> QED
          BY <1>1, <1>4, <5>1, <5>2, <5>3
      <4>5. CASE ~(e > current)
        <5>1. pc' = "assert_abort"
          BY <4>3, <4>5 DEF Fired, Abort
        <5> QED
          BY <1>3, <1>9, <3>3, <3>6, <5>1
      <4>6. CASE e > current
        <5>1. pc' = "probe" /\ timer' = [timer EXCEPT !["assert"] = e] /\ current' = current
          BY <4>3, <4>6 DEF Fired
        <5>2. timer'["assert"] = e /\ timer'["probe"] = timer["probe"]
              /\ timer'["discovery"] = timer["discovery"]
          BY <1>1, <1>2, <5>1
        <5>3. AssertAim' = e /\ ProbeAim' = ProbeAim
          BY <1>3, <2>1, <5>1, <5>2 DEF AssertAim, ProbeAim
        <5>4. Lateness'
          BY <1>1, <1>3, <2>1, <2>2, <3>2, <4>2, <4>6, <5>1, <5>2 DEF Lateness
        <5>5. InTime(node', last', e, ProbeAim)
          BY <3>4, <3>6, <4>1, <4>2, <4>4 DEF InTime
        <5>6. InTime(node, last, AssertAim, ProbeAim)'
          BY <5>3, <5>5 DEF InTime, Registered
        <5> QED
          BY <3>3, <5>1, <5>4, <5>6 DEF LateInv, DiscoveryTimeAhead
      <4> QED
        BY <4>5, <4>6
    <3> QED
      BY <3>7, <3>8
  <2> QED
    BY <2>3, <2>4
<1>22. CASE Probe
  <2>1. pc = "probe" /\ AssertAim = timer["assert"]
    BY <1>22 DEF Probe, AssertAim
  <2>2. /\ current <= now /\ now <= current + MaxLag
        /\ current <= timer["discovery"] + 4 * MaxLag
        /\ timer["assert"] <= now + LivelinessAssertTimeout
        /\ current < timer["assert"]
    BY <1>3, <1>6, <2>1 DEF Lateness
  <2>3. CASE NotDue("probe", "discover")
    <3>1. /\ now' = now /\ last' = last /\ node' = node /\ pc' = "discover"
          /\ timer' = timer /\ current' = current /\ current < timer["probe"]
      BY <2>3 DEF NotDue, GoTo, vars
    <3>2. AssertAim' = AssertAim /\ ProbeAim' = ProbeAim
      BY <1>3, <2>1, <3>1 DEF AssertAim, ProbeAim
    <3>3. Lateness'
      BY <1>3, <1>6, <2>1, <3>1 DEF Lateness
    <3> QED
      BY <1>5, <1>6, <1>8, <1>10, <3>1, <3>2, <3>3
  <2>4. CASE ~NotDue("probe", "discover")
    <3> DEFINE e == NextProbe(node')
    <3>1. /\ node' \in uccn_probe_endpoints(node, now) /\ now' = now /\ last' = last
          /\ Fired("probe", e, "discover")
      BY <1>22, <2>4 DEF Probe, ProbeEndpoints
    <3>2. e \in Nat /\ e <= now + EndpointProbeTimeout
      BY <1>1, NextProbeIs
    <3> HIDE DEF e
    <3>3. InTime(node', last', AssertAim, e)
      BY <1>1, <1>5, <1>6, <3>1, <3>2, InTimeProbe
    <3>4. InTime(node', last', AssertAim, ProbeAim)
      BY <1>1, <1>5, <1>6, <3>1, InTimeProbe
    <3>5. CASE ~(e > current)
      <4>1. pc' = "probe_abort"
        BY <3>1, <3>5 DEF Fired, Abort
      <4> QED
        BY <1>3, <1>9, <1>10, <3>1, <3>4, <4>1
    <3>6. CASE e > current
      <4>1. pc' = "discover" /\ timer' = [timer EXCEPT !["probe"] = e] /\ current' = current
        BY <3>1, <3>6 DEF Fired
      <4>2. timer'["assert"] = timer["assert"] /\ timer'["probe"] = e
            /\ timer'["discovery"] = timer["discovery"]
        BY <1>1, <1>2, <4>1
      <4>3. AssertAim' = AssertAim /\ ProbeAim' = e
        BY <2>1, <4>1, <4>2 DEF AssertAim, ProbeAim
      <4>4. Lateness'
        BY <1>1, <1>3, <2>1, <2>2, <3>1, <3>2, <3>6, <4>1, <4>2 DEF Lateness
      <4>5. InTime(node, last, AssertAim, ProbeAim)'
        BY <3>3, <4>3 DEF InTime, Registered
      <4> QED
        BY <1>10, <3>1, <4>1, <4>4, <4>5 DEF LateInv, DiscoveryTimeAhead
    <3> QED
      BY <3>5, <3>6
  <2> QED
    BY <2>3, <2>4
<1>23. ASSUME DiscoverPeers PROVE SameTable(node, node') /\ now' = now
  BY <1>1, <1>23, DiscoverType DEF DiscoverPeers
<1>24. CASE Discover
  <2>1. pc = "discover" /\ current' = current
        /\ AssertAim = timer["assert"] /\ ProbeAim = timer["probe"]
    BY <1>24 DEF Discover, AssertAim, ProbeAim
  <2>2. /\ current <= now /\ now <= current + MaxLag
        /\ current <= timer["discovery"] + 4 * MaxLag
        /\ timer["assert"] <= now + LivelinessAssertTimeout /\ current < timer["assert"]
        /\ timer["probe"] <= now + EndpointProbeTimeout /\ current < timer["probe"]
    BY <1>3, <1>6, <2>1 DEF Lateness
  <2>3. CASE current < timer["discovery"]
    <3>1. /\ now' = now /\ last' = last /\ node' = node /\ pc' = "sleep" /\ timer' = timer
      <4>1. ~(current >= timer["discovery"])
        BY <1>1, <1>2, <2>3
      <4> QED
        BY <1>24, <4>1 DEF Discover, vars
    <3>2. AssertAim' = AssertAim /\ ProbeAim' = ProbeAim
      BY <2>1, <3>1 DEF AssertAim, ProbeAim
    <3>3. Lateness'
      BY <1>3, <2>1, <2>2, <2>3, <3>1 DEF Lateness
    <3> QED
      BY <1>5, <1>6, <1>8, <1>10, <3>1, <3>2, <3>3
  <2>4. CASE current >= timer["discovery"]
    <3>1. /\ \/ DiscoverPeers /\ SentTo(Address)
             \/ UNCHANGED <<vars, last>>
          /\ timer' = [timer EXCEPT !["discovery"] = @ + PeerDiscoveryPeriod]
          /\ pc' = IF timer'["discovery"] > current THEN "sleep" ELSE "discovery_abort"
      BY <1>1, <1>24, <2>4 DEF Discover, Abort
    <3>2. SameTable(node, node') /\ now' = now
      <4>1. SameTable(node, node)
        BY DEF SameTable
      <4> QED
        BY <1>23, <3>1, <4>1 DEF vars
    <3>3. SentBefore' /\ \A a \in Address : last[a] <= last'[a]
      BY <1>1, <1>6, <3>1, <3>2, SentLater
    <3>4. timer'["assert"] = timer["assert"] /\ timer'["probe"] = timer["probe"]
          /\ timer'["discovery"] = timer["discovery"] + PeerDiscoveryPeriod
      BY <1>1, <1>2, <3>1
    <3>5. InTime(node', last', AssertAim, ProbeAim)
      BY <1>11, <3>2, <3>3
    <3>6. CASE timer'["discovery"] > current
      <4>1. pc' = "sleep"
        BY <3>1, <3>6
      <4>2. AssertAim' = AssertAim /\ ProbeAim' = ProbeAim
        BY <2>1, <3>4, <4>1 DEF AssertAim, ProbeAim
      <4>3. Lateness'
        BY <1>1, <1>2, <1>3, <2>1, <2>2, <3>2, <3>4, <3>6, <4>1 DEF Lateness
      <4> QED
        BY <1>5, <1>8, <3>3, <3>5, <4>1, <4>2, <4>3
    <3>7. CASE ~(timer'["discovery"] > current)
      <4>1. pc' = "discovery_abort"
        BY <3>1, <3>7
      <4>2. ~(4 * MaxLag < PeerDiscoveryPeriod)
        BY <1>1, <1>2, <1>4, <2>2, <3>4, <3>7
      <4>3. AssertAim' = 0 /\ ProbeAim' = 0
        BY <1>3, <4>1 DEF AssertAim, ProbeAim
      <4>4. Lateness'
        BY <1>3, <4>1 DEF Lateness
      <4>5. InTime(node', last', 0, 0)
        BY <1>1, <1>5, <1>7, <3>5, InTimeSooner
      <4>6. InTime(node, last, AssertAim, ProbeAim)'
        BY <4>3, <4>5 DEF InTime, Registered
      <4> QED
        BY <3>3, <4>2, <4>4, <4>6 DEF LateInv
    <3> QED
      BY <3>6, <3>7
  <2> QED
    BY <1>1, <1>24, <2>3, <2>4 DEF Discover
<1>25. CASE DiscoverFailed
  <2>1. SameTable(node, node') /\ now' = now /\ last' = last /\ pc' = "idle"
    BY <1>23, <1>25 DEF DiscoverFailed, Return
  <2>2. InTime(node', last', AssertAim, ProbeAim)
    BY <1>1, <1>11, <2>1
  <2> QED
    BY <1>3, <1>9, <1>10, <2>1, <2>2
<1>26. CASE Sleep
  <2> DEFINE T == {timeout} \cup {timer[t] : t \in Timer}
             e == Earliest(T)
  <2>1. /\ pc = "sleep" /\ now' = now /\ last' = last /\ node' = node
        /\ \/ pc' = "idle"
           \/ /\ now < timeout
              /\ pc' = "poll" /\ wake' = now + Distance(e, now) /\ timer' = timer
    BY <1>26 DEF Sleep, vars
  <2>2. CASE pc' = "idle"
    BY <1>3, <1>6, <1>9, <1>10, <2>1, <2>2
  <2>3. CASE pc' # "idle"
    <3>1. /\ e = timeout \/ \E t \in Timer : e = timer[t]
          /\ \A t \in Timer : e <= timer[t]
      BY <1>1, DeadlineIs
    <3>2. e \in Nat
      BY <1>1, DeadlineIs
    <3> HIDE DEF e
    <3>3. /\ \A t \in Timer : current < timer[t]
          /\ now <= current + MaxLag
          /\ timer["assert"] <= now + LivelinessAssertTimeout
          /\ timer["probe"] <= now + EndpointProbeTimeout
      BY <1>2, <1>3, <1>6, <2>1 DEF Lateness
    <3>4. now < timeout /\ wake' = now + Distance(e, now) /\ pc' = "poll" /\ timer' = timer
      BY <2>1, <2>3
    <3>5. current < e \/ now < e
      BY <3>1, <3>3, <3>4
    <3>6. now <= wake' /\ wake' <= e + 2 * MaxLag
      BY <1>1, <1>4, <3>2, <3>3, <3>4, <3>5 DEF Distance
    <3>7. ASSUME NEW t \in Timer
          PROVE  wake' <= timer[t] + 2 * MaxLag
      <4>1. timer[t] \in Nat /\ e <= timer[t]
        BY <1>1, <3>1
      <4> QED
        BY <1>1, <1>4, <3>2, <3>6, <4>1
    <3>8. AssertAim' = AssertAim /\ ProbeAim' = ProbeAim
      BY <2>1, <3>4 DEF AssertAim, ProbeAim
    <3>9. Lateness'
      <4>1. now <= wake' + MaxLag
        BY <1>1, <1>4, <3>6, Later
      <4> QED
        BY <1>3, <2>1, <3>3, <3>4, <3>7, <4>1 DEF Lateness
    <3> QED
      BY <1>5, <1>6, <1>8, <1>10, <2>1, <3>4, <3>8, <3>9
  <2> QED
    BY <2>2, <2>3
\* Steps of other threads, and of the clock.
<1>27. ASSUME UNCHANGED <<pc, current, timer, wake>>, Lateness', SentBefore',
              InTime(node', last', AssertAim, ProbeAim)
       PROVE  LateInv'
  <2>1. AssertAim' = AssertAim /\ ProbeAim' = ProbeAim
    BY <1>27 DEF AssertAim, ProbeAim
  <2>2. InTime(node, last, AssertAim, ProbeAim)'
    BY <1>27, <2>1 DEF InTime, Registered
  <2> QED
    BY <1>27, <2>2 DEF LateInv, DiscoveryTimeAhead
<1>28. CASE Api
  <2>1. UNCHANGED <<pc, current, timer, wake>>
    BY <1>28 DEF Api
  <2>2. now' = now /\ SentBefore' /\ InTime(node', last', AssertAim, ProbeAim)
    BY <1>1, <1>5, <1>6, <1>28, ApiInTime
  <2>3. Lateness'
    BY <1>6, <2>1, <2>2 DEF Lateness
  <2> QED
    BY <1>27, <2>1, <2>2, <2>3
<1>29. ASSUME UNCHANGED <<pc, current, timer, wake, now, last, node>>
       PROVE  LateInv'
  <2>1. Lateness'
    BY <1>6, <1>29 DEF Lateness
  <2> QED
    BY <1>6, <1>10, <1>27, <1>29, <2>1
<1>30. ASSUME NEW r \in Resource, ApiBeginPost(r) PROVE LateInv'
  BY <1>29, <1>30 DEF ApiBeginPost, BeginPost, spin
<1>31. CASE SpinTick
  <2>1. /\ now' > now /\ node' = node /\ last' = last
        /\ UNCHANGED <<pc, current, timer, wake>>
        /\ \/ pc = "poll" /\ now' <= wake + MaxLag
           \/ pc \in Working \cup {"sleep"} /\ now' <= current + MaxLag
           \/ pc = "idle" /\ MayIdle
    BY <1>1, <1>31, ClockAssumption DEF SpinTick, Tick, spin
  <2>2. ASSUME NEW k \in Nat, NEW t \in Nat, t <= now + k
        PROVE  t <= now' + k
    BY <1>1, <2>1, <2>2, Later
  <2>3. pc \in Running => /\ timer["assert"] <= now' + LivelinessAssertTimeout
                          /\ timer["probe"] <= now' + EndpointProbeTimeout
    BY <1>2, <1>4, <1>6, <2>2 DEF Lateness
  <2>4. pc \in Working \cup {"sleep"} => current <= now'
    BY <1>1, <1>6, <2>1 DEF Lateness
  <2>5. /\ pc \in Working \cup {"sleep"} => now' <= current + MaxLag
        /\ pc = "poll" => now' <= wake + MaxLag
    BY <1>3, <2>1
  <2>6. Lateness'
    BY <1>6, <2>1, <2>3, <2>4, <2>5 DEF Lateness
  <2>7. SentBefore'
    BY <1>1, <1>6, <2>1 DEF SentBefore
  <2> QED
    BY <1>6, <1>27, <2>1, <2>6, <2>7
<1>32. CASE UNCHANGED spinVars
  BY <1>29, <1>32 DEF spinVars, vars, spin
<1> QED
  BY <1>12, <1>13, <1>14, <1>18, <1>19, <1>20, <1>21, <1>22, <1>24, <1>25, <1>26, <1>28,
     <1>30, <1>31, <1>32 DEF SpinNext

(* The inductive invariant of a loop that may be late.                     *)
LEMMA LateInvariance ==
    SpinSpec => []LateInv
<1>1. SpinInit => LateInv
  <2> SUFFICES ASSUME SpinInit PROVE LateInv
    OBVIOUS
  <2>1. pc = "idle" /\ now = 1 /\ Registered(node) = {}
    BY DEF SpinInit, Init, uccn_node_init, Registered
  <2>2. Lateness
    BY <2>1 DEF Lateness, Running, Working
  <2> QED
    BY <2>1, <2>2 DEF LateInv, DiscoveryTimeAhead, SentBefore, InTime, SpinInit
<1>2. /\ IndInv /\ IndInv' /\ Addressed /\ LocalsOK /\ LocalsOK' /\ LateInv
      /\ [SpinNext]_spinVars
      => LateInv'
  BY LateStep
<1> QED
  BY <1>1, <1>2, SpinImplements, Invariance, AddressedInvariance, LocalsInvariance, PTL
     DEF SpinSpec

(* While a node sleeps, its clock is ahead of no timer by more than three  *)
(* times its lag.                                                          *)
LEMMA TimersWhileAsleep ==
    ASSUME IndInv, LocalsOK, LateInv, pc = "poll", NEW t \in Timer
    PROVE  now <= timer[t] + 3 * MaxLag
<1>1. now \in Nat /\ wake \in Nat /\ timer[t] \in Nat /\ MaxLag \in Nat
  BY ClockAssumption, PeriodAssumption DEF IndInv, TypeOK, LocalsOK
<1>2. now <= wake + MaxLag /\ wake <= timer[t] + 2 * MaxLag
  BY DEF LateInv, Lateness
<1> QED
  BY <1>1, <1>2

(* A node passes the assertion of uccn_spin_until on the time of its next  *)
(* discovery packet if it is late by less than a quarter of the period of  *)
(* discovery, however long its caller pauses between two spins.            *)
THEOREM DiscoveryAhead ==
    ASSUME 4 * MaxLag < PeerDiscoveryPeriod
    PROVE  SpinSpec => []DiscoveryTimeAhead
BY LateInvariance, PTL DEF LateInv

(* A node sends to every peer before it is timed out, whatever posts,      *)
(* failures, new peers and pauses between two spins do to the deadlines,   *)
(* if it is late by less than a third of the time that config.h leaves     *)
(* between the two timeouts.                                               *)
THEOREM KeepalivesSent ==
    ASSUME LivelinessAssertTimeout + 3 * MaxLag < LivelinessTimeout
    PROVE  SpinSpec => []KeepaliveInTime
<1>1. IndInv /\ Addressed /\ LocalsOK /\ LateInv => KeepaliveInTime
  <2> SUFFICES ASSUME IndInv, Addressed, LocalsOK, LateInv, pc = "poll",
                      NEW s \in Registered(node)
               PROVE  now < last[node.peers[s].address] + LivelinessTimeout
    BY DEF KeepaliveInTime
  <2> DEFINE d == node.peers[s].next_local_deadline
             l == last[node.peers[s].address]
  <2>1. node \in Node /\ now \in Nat
    BY ClockAssumption DEF IndInv, TypeOK
  <2>2. d \in Nat /\ l \in Nat /\ timer["assert"] \in Nat
    BY <2>1, SlotsRegistered DEF Addressed, Known, LocalsOK, Node, Peer, Timer
  <2>3. now <= timer["assert"] + 3 * MaxLag
    BY TimersWhileAsleep DEF Timer
  <2>4. /\ d = 0 => timer["assert"] <= l + LivelinessAssertTimeout
        /\ d # 0 => timer["assert"] <= d /\ d <= l + LivelinessAssertTimeout
    BY DEF LateInv, InTime, AssertAim
  <2> HIDE DEF d, l
  <2>5. now < l + LivelinessTimeout
    BY <2>1, <2>2, <2>3, <2>4, TimeoutAssumption, PeriodAssumption
  <2> QED
    BY <2>5 DEF l
<1> QED
  BY <1>1, SpinImplements, Invariance, AddressedInvariance, LocalsInvariance,
     LateInvariance, PTL

(* However late, a node drops every peer at most a probe timeout and three *)
(* times its lag after its deadline, also one it met after its last probe. *)
THEOREM ProbesSent ==
    SpinSpec => []DeadPeersDropped
<1>1. IndInv /\ LocalsOK /\ LateInv => DeadPeersDropped
  <2> SUFFICES ASSUME IndInv, LocalsOK, LateInv, pc = "poll",
                      NEW s \in Registered(node)
               PROVE  now <= node.peers[s].next_remote_deadline + EndpointProbeTimeout
                                 + 3 * MaxLag
    BY DEF DeadPeersDropped
  <2> DEFINE r == node.peers[s].next_remote_deadline
  <2>1. node \in Node /\ now \in Nat
    BY ClockAssumption DEF IndInv, TypeOK
  <2>2. r \in Nat /\ timer["probe"] \in Nat
    BY <2>1, SlotsRegistered DEF LocalsOK, Node, Peer, Timer
  <2>3. now <= timer["probe"] + 3 * MaxLag
    BY TimersWhileAsleep DEF Timer
  <2>4. timer["probe"] <= r + EndpointProbeTimeout
    BY DEF LateInv, InTime, ProbeAim
  <2> HIDE DEF r
  <2>5. now <= r + EndpointProbeTimeout + 3 * MaxLag
    BY <2>1, <2>2, <2>3, <2>4, PeriodAssumption
  <2> QED
    BY <2>5 DEF r
<1> QED
  BY <1>1, SpinImplements, Invariance, LocalsInvariance, LateInvariance, PTL

=============================================================================
