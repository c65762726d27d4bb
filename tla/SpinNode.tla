------------------------------ MODULE SpinNode ------------------------------
(***************************************************************************)
(* uccn_spin_until: the schedule under which one thread runs the handlers  *)
(* of UccnNode, step by step, while other threads track, advertise, post   *)
(* and stop the node whenever its mutex is free.                           *)
(*                                                                         *)
(* An iteration reads a datagram from each socket that pselect found       *)
(* readable, runs the timers that are due and computes how long to sleep.  *)
(* An assertion that fails aborts the program: pc names the assertion.     *)
(***************************************************************************)
EXTENDS UccnNode

CONSTANTS
    EndpointProbeTimeout,   \* CONFIG_UCCN_ENDPOINT_PROBE_TIMEOUT_MS
    PeerDiscoveryPeriod,    \* CONFIG_UCCN_PEER_DISCOVERY_PERIOD_MS
    SpinTimeout,            \* what the callers of uccn_spin wait at most
    MaxLag,                 \* by how much an iteration, or its start, is late
    MayIdle                 \* whether time passes between two calls of uccn_spin

(* The check of config.h, lines 72 to 82.                                  *)
ASSUME PeriodAssumption ==
    /\ EndpointProbeTimeout \in Nat \ {0}
    /\ PeerDiscoveryPeriod \in Nat
    /\ EndpointProbeTimeout < PeerDiscoveryPeriod
    /\ SpinTimeout \subseteq Nat
    /\ MaxLag \in Nat
    /\ MayIdle \in BOOLEAN

VARIABLES
    pc,        \* where uccn_spin_until is
    locked,    \* node->mutex is held and no call that could release it runs
    ready,     \* rfds: what pselect found readable and is yet to be looked at
    current,   \* current_time: when the iteration woke, then its clock reading
    timer,     \* next_assert_time, next_probe_time, next_discovery_time
    active,    \* num_active_trackers
    timeout,   \* timeout_time
    wake,      \* when pselect times out
    last       \* history: when the node last sent to an address, or met it

spin == <<pc, locked, ready, current, timer, active, timeout, wake>>

spinVars == <<vars, spin, last>>

Descriptor == {"stop", "unicast", "broadcast"}

Timer == {"assert", "probe", "discovery"}

Working == {"unicast", "broadcast", "clock", "assert", "probe", "discover"}

Abort == [assert |-> "assert_abort", probe |-> "probe_abort",
          discovery |-> "discovery_abort"]

SpinTypeOK ==
    /\ TypeOK
    /\ pc \in {"idle", "sleep", "poll"} \cup Working \cup {Abort[t] : t \in Timer}
    /\ locked \in BOOLEAN
    /\ ready \in SUBSET Descriptor
    /\ timer \in [Timer -> Nat]
    /\ active \in 0 .. Cardinality(Resource)
    /\ current \in Nat /\ timeout \in Nat /\ wake \in Nat
    /\ last \in [Address -> Nat]

SpinInit ==
    /\ Init
    /\ pc = "idle"
    /\ locked = FALSE
    /\ ready = {}
    /\ current = 0
    /\ timer = [t \in Timer |-> 0]
    /\ active = 0
    /\ timeout = 0
    /\ wake = 0
    /\ last = [a \in Address |-> 0]

-----------------------------------------------------------------------------
(* The least of a non-empty set of times.                                  *)
Earliest(T) == CHOOSE t \in T : \A u \in T : t <= u

Distance(t, u) == IF t > u THEN t - u ELSE u - t

(* Addresses of slots of the node, as the node's sendto calls use them.    *)
AddressesOf(slots) == {node.peers[s].address : s \in slots} \cap Address

SentTo(addresses) ==
    last' = [a \in Address |-> IF a \in addresses THEN now ELSE last[a]]

(* The locals of uccn_spin_until when it does not run.                     *)
NoLocals ==
    /\ ready' = {}
    /\ current' = 0
    /\ timer' = [t \in Timer |-> 0]
    /\ active' = 0
    /\ timeout' = 0
    /\ wake' = 0

(* Leaving uccn_spin_until, with the mutex released.                       *)
Return ==
    /\ pc' = "idle"
    /\ locked' = FALSE
    /\ NoLocals

(* The next step of an iteration, with the mutex held.                     *)
GoTo(next) ==
    /\ pc' = next
    /\ UNCHANGED <<locked, current, timer, active, timeout, wake>>

-----------------------------------------------------------------------------
(* uccn_spin and the head of uccn_spin_until, up to the first iteration.   *)
Spin ==
    /\ pc = "idle" /\ ~locked
    /\ pc' = "unicast"
    /\ locked' = TRUE
    /\ ready' = {}
    /\ current' = now
    /\ timer' = [t \in Timer |-> now]
    /\ \E t \in SpinTimeout : timeout' = now + t
    /\ UNCHANGED <<vars, active, wake, last>>

(* pselect returns, for a descriptor or because its time is over, and the  *)
(* next iteration gets the mutex.                                          *)
Wake ==
    /\ pc = "poll" /\ ~locked
    /\ \E R \in SUBSET Descriptor : (R = {} => now >= wake) /\ ready' = R
    /\ pc' = "unicast"
    /\ locked' = TRUE
    /\ current' = now
    /\ wake' = 0
    /\ UNCHANGED <<vars, timer, active, timeout, last>>

(* The stop event ends the call; the mutex is released only if reading the *)
(* event failed.                                                           *)
Stopped ==
    /\ pc = "unicast" /\ "stop" \in ready
    /\ pc' = "idle"
    /\ NoLocals
    /\ UNCHANGED <<vars, locked, last>>

(* The iteration takes one datagram from a socket, and goes on to next.    *)
Incoming1(descriptor, next) ==
    \E a \in Address, p \in Incoming, delivered \in BOOLEAN :
        \E blob \in IF p.kind = "content" THEN Blob ELSE {"good"} :
            LET result == uccn_process_incoming(node, a, p, blob, now)
                answer == result.reply # None
                known  == \E s \in Registered(node) : node.peers[s].address = a
            IN  /\ descriptor \in ready
                /\ Receive(a, p, blob)
                /\ SentTo(IF (answer /\ delivered) \/ (~known /\ result.node # node)
                          THEN {a} ELSE {})
                /\ IF result.ret < 0 \/ (answer /\ ~delivered)
                   THEN Return
                   ELSE GoTo(next) /\ ready' = ready \ {descriptor}

Skip(descriptor, next) ==
    /\ descriptor \notin ready
    /\ GoTo(next)
    /\ UNCHANGED <<vars, ready, last>>

Unicast ==
    /\ pc = "unicast" /\ "stop" \notin ready
    /\ Incoming1("unicast", "broadcast") \/ Skip("unicast", "broadcast")

(* A broadcast of the node's own is ignored.                               *)
OwnBroadcast ==
    /\ "broadcast" \in ready
    /\ GoTo("clock")
    /\ ready' = ready \ {"broadcast"}
    /\ UNCHANGED <<vars, last>>

BroadcastIn ==
    /\ pc = "broadcast"
    /\ \/ Incoming1("broadcast", "clock")
       \/ OwnBroadcast
       \/ Skip("broadcast", "clock")

ReadClock ==
    /\ pc = "clock"
    /\ pc' = "assert"
    /\ current' = now
    /\ UNCHANGED <<vars, locked, ready, timer, active, timeout, wake, last>>

(* The timer t fires: it gets a new time, which must be ahead of current,  *)
(* or the assertion behind it fails.                                       *)
Fired(t, time, next) ==
    /\ timer' = [timer EXCEPT ![t] = time]
    /\ pc' = IF time > current THEN next ELSE Abort[t]
    /\ UNCHANGED <<locked, ready, current, timeout, wake>>

NotDue(t, next) ==
    /\ current < timer[t]
    /\ GoTo(next)
    /\ UNCHANGED <<vars, ready, last>>

(* next_deadline of uccn_assert_liveliness: the earliest local deadline.   *)
NextAssert(n) ==
    Earliest({now + LivelinessAssertTimeout}
             \cup {n.peers[s].next_local_deadline : s \in Registered(n)})

Assert ==
    /\ pc = "assert"
    /\ \/ NotDue("assert", "probe")
       \/ /\ current >= timer["assert"]
          /\ \E reached \in SUBSET Slot :
                /\ AssertLiveliness(reached)
                /\ SentTo(AddressesOf(reached))
                /\ IF reached = Due(node, now)
                   THEN /\ Fired("assert", NextAssert(node'), "probe")
                        /\ UNCHANGED active
                   ELSE Return

(* Fault: the liveliness timeout is taken for the probe timeout, and no    *)
(* deadline of a peer is looked at.                                        *)
NextProbeLate(n) == now + LivelinessTimeout

(* next_probe_time of uccn_probe_endpoints: the earliest remote deadline.  *)
NextProbe(n) ==
    Earliest({now + EndpointProbeTimeout}
             \cup {n.peers[s].next_remote_deadline : s \in Registered(n)})

(* Fault: num_active_trackers is not reset before it is counted.           *)
ProbeAccumulating ==
    /\ pc = "probe"
    /\ \/ NotDue("probe", "discover")
       \/ /\ current >= timer["probe"]
          /\ ProbeEndpoints
          /\ Fired("probe", NextProbe(node'), "discover")
          /\ active' = active + Cardinality({r \in node'.endpoints["tracker"] :
                                                node'.links["tracker"][r] # {}})
          /\ UNCHANGED last

Probe ==
    /\ pc = "probe"
    /\ \/ NotDue("probe", "discover")
       \/ /\ current >= timer["probe"]
          /\ ProbeEndpoints
          /\ Fired("probe", NextProbe(node'), "discover")
          /\ active' = Cardinality({r \in node'.endpoints["tracker"] :
                                        node'.links["tracker"][r] # {}})
          /\ UNCHANGED last

(* Fault: the timer moves only when there was something to discover.       *)
DiscoverOnDemand ==
    /\ pc = "discover"
    /\ LET due    == current >= timer["discovery"]
           demand == active < Cardinality(node.endpoints["tracker"])
           sent   == due /\ demand
       IN  /\ IF sent THEN DiscoverPeers /\ SentTo(Address) ELSE UNCHANGED <<vars, last>>
           /\ timer' = IF sent THEN [timer EXCEPT !["discovery"] = @ + PeerDiscoveryPeriod]
                       ELSE timer
           /\ pc' = IF due /\ timer'["discovery"] <= current
                    THEN Abort["discovery"] ELSE "sleep"
    /\ locked' = FALSE
    /\ UNCHANGED <<ready, current, active, timeout, wake>>

(* The end of the critical section.                                        *)
Discover ==
    /\ pc = "discover"
    /\ \/ /\ current < timer["discovery"]
          /\ pc' = "sleep"
          /\ UNCHANGED <<vars, timer, last>>
       \/ /\ current >= timer["discovery"]
          /\ \/ /\ active < Cardinality(node.endpoints["tracker"])
                /\ DiscoverPeers
                /\ SentTo(Address)
             \/ /\ active >= Cardinality(node.endpoints["tracker"])
                /\ UNCHANGED <<vars, last>>
          /\ timer' = [timer EXCEPT !["discovery"] = @ + PeerDiscoveryPeriod]
          /\ pc' = IF timer'["discovery"] > current THEN "sleep" ELSE Abort["discovery"]
    /\ locked' = FALSE
    /\ UNCHANGED <<ready, current, active, timeout, wake>>

(* The broadcast of the discovery packet fails.                            *)
DiscoverFailed ==
    /\ pc = "discover"
    /\ current >= timer["discovery"]
    /\ active < Cardinality(node.endpoints["tracker"])
    /\ DiscoverPeers
    /\ Return
    /\ UNCHANGED last

(* timespec_diff has no sign: a deadline that has passed is waited for as  *)
(* long as it is past.                                                     *)
Sleep ==
    /\ pc = "sleep"
    /\ LET next_deadline == Earliest({timeout} \cup {timer[t] : t \in Timer})
       IN  \/ now >= timeout /\ pc' = "idle" /\ NoLocals
           \/ /\ now < timeout
              /\ pc' = "poll"
              /\ current' = now
              /\ wake' = now + Distance(next_deadline, now)
              /\ UNCHANGED <<ready, timer, active, timeout>>
    /\ UNCHANGED <<vars, locked, last>>

-----------------------------------------------------------------------------
(* Fault: a post goes on whether or not the provider has peers.            *)
ApiBeginUnchecked(r) ==
    /\ r \in node.endpoints["provider"]
    /\ posting' = posting \cup {r}
    /\ UNCHANGED <<node, now, asked, heard, moved, spin, last>>

(* Another thread calls uccn_post, which waits for the mutex.              *)
ApiBeginPost(r) ==
    /\ BeginPost(r)
    /\ UNCHANGED <<spin, last>>

(* The other threads, each call with the mutex.  uccn_advertise keeps it   *)
(* when it refuses a resource.                                             *)
Api ==
    /\ ~locked
    /\ \/ \E side \in Side, r \in Resource :
              /\ AddEndpoint(side, r)
              /\ locked' = (side = "provider" /\ Collides(node, side, r))
              /\ UNCHANGED last
       \/ \E r \in Resource, reached \in SUBSET Slot :
              /\ Post(r, reached)
              /\ SentTo(AddressesOf(reached))
              /\ UNCHANGED locked
       \/ \E r \in Resource : PostFailed(r) /\ UNCHANGED <<locked, last>>
    /\ UNCHANGED <<pc, ready, current, timer, active, timeout, wake>>

(* Time passes in pselect until it returns, MaxLag late at most; in the    *)
(* steps of an iteration, callbacks included, MaxLag at most; and, if      *)
(* MayIdle, outside uccn_spin.                                             *)
SpinTick ==
    /\ Tick
    /\ \/ pc = "poll" /\ now' <= wake + MaxLag
       \/ pc \in Working \cup {"sleep"} /\ now' <= current + MaxLag
       \/ pc = "idle" /\ MayIdle
    /\ UNCHANGED <<spin, last>>

SpinNext ==
    \/ Spin \/ Wake \/ Stopped
    \/ Unicast \/ BroadcastIn \/ ReadClock
    \/ Assert \/ Probe \/ Discover \/ DiscoverFailed \/ Sleep
    \/ Api \/ (\E r \in Resource : ApiBeginPost(r))
    \/ SpinTick

SpinSpec == SpinInit /\ [][SpinNext]_spinVars

-----------------------------------------------------------------------------
(* Properties *)

(* assert(next_assert_time > current_time), uccn.c line 796.               *)
AssertTimeAhead == pc # "assert_abort"

(* assert(next_discovery_time > current_time), uccn.c line 822.            *)
DiscoveryTimeAhead == pc # "discovery_abort"

(* A node that spins sends something to each of its peers before the peer  *)
(* times it out, however posts, new peers and failures move the deadlines  *)
(* of uccn_assert_liveliness: config.h line 69, "uCCN liveliness           *)
(* assertions must be sent before it times out".                           *)
KeepaliveInTime ==
    pc = "poll" =>
        \A s \in Registered(node) :
            now < last[node.peers[s].address] + LivelinessTimeout

(* While the node sleeps, no peer is registered whose deadline passed more *)
(* than a probe timeout, and three times the node's own lag, ago: a node   *)
(* that spins probes often enough to stop sending to a dead peer, also to  *)
(* one it met after its last probe.                                        *)
DeadPeersDropped ==
    pc = "poll" =>
        \A s \in Registered(node) :
            now <= node.peers[s].next_remote_deadline + EndpointProbeTimeout
                       + 3 * MaxLag

(* Every way out of uccn_spin_until and of the calls of other threads      *)
(* leaves the mutex free, as the unlock before each break and return of    *)
(* uccn.c has it (lines 764 and 234, for instance).                        *)
MutexReleased == locked => pc \notin {"idle", "sleep", "poll"}

=============================================================================
