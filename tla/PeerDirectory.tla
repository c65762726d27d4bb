--------------------------- MODULE PeerDirectory ---------------------------
(***************************************************************************)
(* What the peer table of a uccn node promises, without slots, pointers    *)
(* and packets: a directory of the addresses the node hears from, each     *)
(* with the time until which it counts as alive.  UccnNode implements it   *)
(* under the mapping Deadlines.                                            *)
(***************************************************************************)
EXTENDS Integers, FiniteSets

CONSTANTS
    Address,   \* addresses other nodes send from
    MaxPeers,  \* how many the directory holds
    Timeout,   \* for how long an address stays alive without a datagram
    MaxTime,   \* the clock stops here
    TickStep   \* by how much time may pass at once

VARIABLES
    deadline,  \* until when each address of the directory is alive
    now        \* CLOCK_MONOTONIC

vars == <<deadline, now>>

Init ==
    /\ deadline = [a \in {} |-> 0]
    /\ now = 1

(* A datagram from a: unless the directory is full, a is in it now, and    *)
(* alive from now on; nobody else is touched.                              *)
Hear(a) ==
    /\ Cardinality(DOMAIN deadline) < MaxPeers
    /\ deadline' = [b \in DOMAIN deadline \cup {a} |->
                        IF b = a THEN now + Timeout ELSE deadline[b]]
    /\ UNCHANGED now

(* A probe keeps some of the addresses that are alive, each with its own   *)
(* deadline, and none that is dead.                                        *)
Probe(kept) ==
    /\ kept \subseteq DOMAIN deadline
    /\ \A a \in kept : deadline[a] >= now
    /\ deadline' = [a \in kept |-> deadline[a]]
    /\ UNCHANGED now

Tick ==
    /\ \E d \in TickStep : now' = now + d /\ now' <= MaxTime
    /\ UNCHANGED deadline

Next ==
    \/ \E a \in Address : Hear(a)
    \/ \E kept \in SUBSET Address : Probe(kept)
    \/ Tick

Spec == Init /\ [][Next]_vars

=============================================================================
