----------------------------- MODULE ApiLocking -----------------------------
(***************************************************************************)
(* Threads that use one node through the C++ wrapper (uccn.hpp): who holds *)
(* the node's mutex and the wrapper's mutex_, who waits for them, the      *)
(* wrapper's map of functions, and the pipe by which uccn_stop ends a      *)
(* spin.  What the calls do to peers and packets is in UccnNode; here only *)
(* matters which providers have peers, since uccn_post locks for them.     *)
(*                                                                         *)
(* Callbacks run in the middle of a spin, with the mutex held, and may     *)
(* call the node.  The mutex is not recursive: a call that locks it from a *)
(* callback never returns, so a thread needs no stack.                     *)
(***************************************************************************)
EXTENDS Integers, FiniteSets

CONSTANTS
    Thread,
    Nobody,        \* holds a mutex that is free
    Call,          \* the calls each thread's program makes
    CallbackCall,  \* the calls that callbacks make
    Resource,
    Nil,           \* no resource, and no function
    AnyFunction,   \* what a lookup that races with a change may find
    ResourceHash,
    PipeSize       \* bytes the pipe takes

ASSUME ApiAssumption ==
    /\ Nobody \notin Thread
    /\ Nil \notin Resource /\ AnyFunction \notin Resource
    /\ Call \in [Thread -> SUBSET {"spin", "track", "advertise", "post", "stop"}]
    /\ CallbackCall \subseteq {"track", "advertise", "post", "stop"}
    /\ PipeSize \in Nat \ {0}

VARIABLES
    pc,         \* where each thread is
    arg,        \* the resource of its call, or of the callback it runs
    ready,      \* whether its last pselect saw the stop event
    mutex,      \* node->mutex
    mutex_,     \* the wrapper's mutex
    functions,  \* generic_track_cpp_functions_, by hash; the function given
                \* for a resource is named by that resource
    called,     \* the function that the callback runs
    trackers, providers,
    linked,     \* the providers that have peers
    pipe,       \* bytes in the stop event's pipe
    leaked,     \* history: whether a call has returned with the mutex held
    reentered,  \* history: whether a callback has made a call that locks
    clashed     \* history: the hashes with which two resources were tracked

locks == <<mutex, mutex_>>
map == <<functions, called>>
endpoints == <<trackers, providers, linked>>
history == <<leaked, reentered, clashed>>
vars == <<pc, arg, ready, locks, map, endpoints, pipe, history>>

Hash == {ResourceHash[r] : r \in Resource}

(* The places where a thread waits for the node's mutex, and where it goes *)
(* once it has it.                                                         *)
Locking == [spin_lock |-> "spin_in", track_lock |-> "track_in",
            advertise_lock |-> "advertise_in", post_lock |-> "post_in"]

(* The places of a thread that has the node's mutex.                       *)
Inside == {"spin_in", "spin_body", "callback", "track_in", "advertise_in", "post_in"}

Place == {"idle", "spin_wait", "track_mutex_", "track_map", "track_out"}
         \cup DOMAIN Locking \cup Inside

ApiTypeOK ==
    /\ pc \in [Thread -> Place]
    /\ arg \in [Thread -> Resource \cup {Nil}]
    /\ ready \in [Thread -> BOOLEAN]
    /\ {mutex, mutex_} \subseteq Thread \cup {Nobody}
    /\ functions \in [Hash -> Resource \cup {Nil}]
    /\ called \in [Thread -> Resource \cup {Nil, AnyFunction}]
    /\ trackers \subseteq Resource
    /\ linked \subseteq providers /\ providers \subseteq Resource
    /\ pipe \in 0 .. PipeSize
    /\ {leaked, reentered} \subseteq BOOLEAN
    /\ clashed \subseteq Hash

Init ==
    /\ pc = [t \in Thread |-> "idle"]
    /\ arg = [t \in Thread |-> Nil]
    /\ ready = [t \in Thread |-> FALSE]
    /\ mutex = Nobody /\ mutex_ = Nobody
    /\ functions = [h \in Hash |-> Nil]
    /\ called = [t \in Thread |-> Nil]
    /\ trackers = {} /\ providers = {} /\ linked = {}
    /\ pipe = 0
    /\ leaked = FALSE /\ reentered = FALSE /\ clashed = {}

-----------------------------------------------------------------------------
(* t begins a call with the resource r, goes on with its call, or leaves a *)
(* call or a callback.                                                     *)
Begin(t, place, r) ==
    /\ pc' = [pc EXCEPT ![t] = place]
    /\ arg' = [arg EXCEPT ![t] = r]

Go(t, place) == Begin(t, place, arg[t])

Leave(t, place) == Begin(t, place, Nil)

(* A program, or a callback, may make the call c.                          *)
Calls(t, c) ==
    \/ pc[t] = "idle" /\ c \in Call[t]
    \/ pc[t] = "callback" /\ c \in CallbackCall

(* It makes a call with r that will lock.                                  *)
MakeCall(t, c, place, r) ==
    /\ Calls(t, c)
    /\ Begin(t, place, r)
    /\ reentered' = (reentered \/ pc[t] = "callback")
    /\ UNCHANGED <<ready, locks, map, endpoints, pipe, leaked, clashed>>

(* pthread_mutex_lock                                                      *)
Lock(t) ==
    /\ pc[t] \in DOMAIN Locking
    /\ mutex = Nobody
    /\ mutex' = t
    /\ Go(t, Locking[pc[t]])
    /\ UNCHANGED <<ready, mutex_, map, endpoints, pipe, history>>

(* The call of t leaves the mutex, or forgets to.                          *)
Unlock(t, place) ==
    /\ Leave(t, place)
    /\ mutex' = Nobody
    /\ UNCHANGED leaked

Leak(t) ==
    /\ Leave(t, "idle")
    /\ leaked' = TRUE
    /\ UNCHANGED mutex

(* Fault: the room in the pipe is not looked at.                           *)
StopUnbounded(t) ==
    /\ Calls(t, "stop")
    /\ pipe' = pipe + 1
    /\ UNCHANGED <<pc, arg, ready, locks, map, endpoints, history>>

(* node::stop: a pipe that is full refuses the byte.                       *)
Stop(t) ==
    /\ Calls(t, "stop")
    /\ pipe < PipeSize
    /\ pipe' = pipe + 1
    /\ UNCHANGED <<pc, arg, ready, locks, map, endpoints, history>>

-----------------------------------------------------------------------------
(* uccn_spin_until *)

Spin(t) ==
    /\ pc[t] = "idle" /\ "spin" \in Call[t]
    /\ Go(t, "spin_lock")
    /\ UNCHANGED <<ready, locks, map, endpoints, pipe, history>>

(* The stop event is read, and the loop left by a break that does not      *)
(* unlock, unless the read fails.                                          *)
SpinStopped(t) ==
    /\ pc[t] = "spin_in" /\ ready[t]
    /\ \/ pipe > 0 /\ pipe' = pipe - 1 /\ Leak(t)
       \/ UNCHANGED pipe /\ Unlock(t, "idle")
    /\ ready' = [ready EXCEPT ![t] = FALSE]
    /\ UNCHANGED <<mutex_, map, endpoints, reentered, clashed>>

SpinBody(t) ==
    /\ pc[t] = "spin_in" /\ ~ready[t]
    /\ Go(t, "spin_body")
    /\ UNCHANGED <<ready, locks, map, endpoints, pipe, history>>

(* Fault: the wrapper locks mutex_ before it looks the function up.        *)
CallbackGuarded(t, r) ==
    /\ pc[t] = "spin_body"
    /\ r \in trackers
    /\ Begin(t, IF mutex_ = Nobody THEN "callback" ELSE "track_mutex_", r)
    /\ called' = [called EXCEPT ![t] = functions[ResourceHash[r]]]
    /\ UNCHANGED <<ready, locks, functions, endpoints, pipe, history>>

(* Content for r has come: generic_track_c_function looks the function up  *)
(* without mutex_.  While another thread changes the map, the lookup may   *)
(* find any function or none.                                              *)
Callback(t, r) ==
    LET racing == \E u \in Thread \ {t} : pc[u] = "track_map"
    IN  /\ pc[t] = "spin_body"
        /\ r \in trackers
        /\ Begin(t, "callback", r)
        /\ called' = [called EXCEPT ![t] = IF racing THEN AnyFunction
                                           ELSE functions[ResourceHash[r]]]
        /\ UNCHANGED <<ready, locks, functions, endpoints, pipe, history>>

CallbackReturn(t) ==
    /\ pc[t] = "callback"
    /\ Leave(t, "spin_body")
    /\ called' = [called EXCEPT ![t] = Nil]
    /\ UNCHANGED <<ready, locks, functions, endpoints, pipe, history>>

(* The rest of the iteration: links come and go, and the mutex is free.    *)
(* Where a handler fails, the spin ends.                                   *)
SpinUnlock(t) ==
    /\ pc[t] = "spin_body"
    /\ linked' \in SUBSET providers
    /\ Unlock(t, "spin_wait") \/ Unlock(t, "idle")
    /\ UNCHANGED <<ready, mutex_, map, trackers, providers, pipe, reentered, clashed>>

(* Fault: the stop event is not among the descriptors.                     *)
SpinWaitDeaf(t) ==
    /\ pc[t] = "spin_wait"
    /\ Go(t, "spin_lock")
    /\ ready' = [ready EXCEPT ![t] = FALSE]
    /\ UNCHANGED <<locks, map, endpoints, pipe, history>>

(* pselect returns for a datagram, a timer or the stop event; the stop     *)
(* event is ready whenever the pipe holds a byte.                          *)
SpinWait(t) ==
    /\ pc[t] = "spin_wait"
    /\ Go(t, "spin_lock")
    /\ ready' = [ready EXCEPT ![t] = pipe > 0]
    /\ UNCHANGED <<locks, map, endpoints, pipe, history>>

(* The spin's timeout has come, or pselect has failed.                     *)
SpinTimeout(t) ==
    /\ pc[t] = "spin_wait"
    /\ Leave(t, "idle")
    /\ UNCHANGED <<ready, locks, map, endpoints, pipe, history>>

-----------------------------------------------------------------------------
(* node::track: generic_track and uccn_track *)

Track(t, r) == MakeCall(t, "track", "track_mutex_", r)

TrackMutex(t) ==
    /\ pc[t] = "track_mutex_"
    /\ mutex_ = Nobody
    /\ mutex_' = t
    /\ Go(t, "track_map")
    /\ UNCHANGED <<ready, mutex, map, endpoints, pipe, history>>

(* Fault: the map is left alone.                                           *)
TrackMapForgetful(t) ==
    /\ pc[t] = "track_map"
    /\ Go(t, "track_lock")
    /\ UNCHANGED <<ready, locks, map, endpoints, pipe, history>>

(* The function replaces the one for the resource's hash, whether or not   *)
(* uccn_track takes the resource afterwards.                               *)
TrackMap(t) ==
    LET h == ResourceHash[arg[t]]
    IN  /\ pc[t] = "track_map"
        /\ functions' = [functions EXCEPT ![h] = arg[t]]
        /\ clashed' = IF functions[h] \in {Nil, arg[t]} THEN clashed
                      ELSE clashed \cup {h}
        /\ Go(t, "track_lock")
        /\ UNCHANGED <<ready, locks, called, endpoints, pipe, leaked, reentered>>

(* Fault: a refusal returns without unlocking, as in uccn_advertise.       *)
TrackInForgetful(t) ==
    LET r == arg[t]
        collides == \E q \in trackers : q # r /\ ResourceHash[q] = ResourceHash[r]
    IN  /\ pc[t] = "track_in"
        /\ trackers' = IF collides THEN trackers ELSE trackers \cup {r}
        /\ Leave(t, "track_out")
        /\ mutex' = IF collides THEN mutex ELSE Nobody
        /\ UNCHANGED <<ready, mutex_, map, providers, linked, pipe, history>>

TrackIn(t) ==
    LET r == arg[t]
        collides == \E q \in trackers : q # r /\ ResourceHash[q] = ResourceHash[r]
    IN  /\ pc[t] = "track_in"
        /\ trackers' = IF collides THEN trackers ELSE trackers \cup {r}
        /\ Unlock(t, "track_out")
        /\ UNCHANGED <<ready, mutex_, map, providers, linked, pipe, reentered, clashed>>

(* Fault: an exception leaves mutex_ locked.                               *)
TrackOutLocked(t) ==
    /\ pc[t] = "track_out"
    /\ Go(t, "idle")
    /\ UNCHANGED <<ready, locks, map, endpoints, pipe, history>>

(* The lock_guard ends, with or without an exception.                      *)
TrackOut(t) ==
    /\ pc[t] = "track_out"
    /\ mutex_' = Nobody
    /\ Leave(t, "idle")
    /\ UNCHANGED <<ready, mutex, map, endpoints, pipe, history>>

-----------------------------------------------------------------------------
(* node::advertise and record_provider::post *)

Advertise(t, r) == MakeCall(t, "advertise", "advertise_lock", r)

(* A resource whose hash is taken is refused, with the mutex held.         *)
AdvertiseIn(t) ==
    LET r == arg[t]
    IN  /\ pc[t] = "advertise_in"
        /\ IF \E q \in providers : q # r /\ ResourceHash[q] = ResourceHash[r]
           THEN Leak(t) /\ UNCHANGED providers
           ELSE Unlock(t, "idle") /\ providers' = providers \cup {r}
        /\ UNCHANGED <<ready, mutex_, map, trackers, linked, pipe, reentered, clashed>>

(* num_peers is tested before the mutex is locked; without peers the call  *)
(* returns at once.                                                        *)
Post(t, r) == r \in linked /\ MakeCall(t, "post", "post_lock", r)

(* Every exit unlocks but one: clock_gettime fails after a sendto.         *)
PostIn(t) ==
    /\ pc[t] = "post_in"
    /\ \/ Unlock(t, "idle")
       \/ arg[t] \in linked /\ Leak(t)
    /\ UNCHANGED <<ready, mutex_, map, endpoints, pipe, reentered, clashed>>

-----------------------------------------------------------------------------
Spinner == {t \in Thread : "spin" \in Call[t]}

(* What a thread does once it has called.                                  *)
Proceed(t) ==
    \/ SpinStopped(t) \/ SpinBody(t) \/ SpinWait(t) \/ CallbackReturn(t)
    \/ TrackMap(t) \/ TrackIn(t) \/ TrackOut(t)
    \/ AdvertiseIn(t) \/ PostIn(t)

Next ==
    \E t \in Thread :
        \/ Stop(t) \/ Spin(t) \/ SpinTimeout(t)
        \/ Lock(t) \/ TrackMutex(t) \/ SpinUnlock(t)
        \/ Proceed(t)
        \/ \E r \in Resource :
               Track(t, r) \/ Advertise(t, r) \/ Post(t, r) \/ Callback(t, r)

(* A thread that can go on does.  A thread that waits for a mutex gets it  *)
(* if it is free time and again: the spinning thread, the only one that    *)
(* locks in a loop, sleeps in between.  An iteration ends: a datagram      *)
(* holds a bounded number of contents.                                     *)
Fairness ==
    /\ \A t \in Thread : WF_vars(Proceed(t)) /\ SF_vars(Lock(t) \/ TrackMutex(t))
    /\ \A t \in Spinner : SF_vars(SpinUnlock(t))

Spec == Init /\ [][Next]_vars /\ Fairness

-----------------------------------------------------------------------------
(* Properties *)

(* u holds what t waits for.                                               *)
WaitsFor(t, u) ==
    \/ pc[t] \in DOMAIN Locking /\ mutex = u
    \/ pc[t] = "track_mutex_" /\ mutex_ = u

(* Something has gone wrong that hangs the node for good.                  *)
Broken == leaked \/ reentered

(* The two mutexes never deadlock two threads, wherever they are: nobody   *)
(* waits for a thread that waits in turn for it.  generic_track takes them *)
(* in the order mutex_, mutex, and a callback, which has the second, reads *)
(* the map without the first.                                              *)
NoDeadlock ==
    ~Broken => \A t, u \in Thread : ~(WaitsFor(t, u) /\ WaitsFor(u, t))

(* A callback runs the function given with its resource, and there is one, *)
(* even if content comes before track has returned; unless another one     *)
(* with its hash has replaced the function, though uccn_track refuses it   *)
(* (uccn.hpp line 321), or the map is read while it changes (line 334).    *)
RightFunction ==
    \A t \in Thread :
        pc[t] = "callback" /\ called[t] # AnyFunction
            /\ ResourceHash[arg[t]] \notin clashed
        => called[t] = arg[t]

(* The mutex is free whenever nobody is between lock and unlock, unless    *)
(* one of the three exits without unlock was taken: a stop, a refused      *)
(* advertise, a clock that fails.                                          *)
MutexAccounted ==
    ~Broken => \/ mutex = Nobody
               \/ mutex \in Thread /\ pc[mutex] \in Inside

(* Every call but a spin returns, unless the node is broken.               *)
CallsReturn ==
    \A t \in Thread :
        pc[t] \notin {"idle", "spin_wait", "spin_lock", "spin_in", "spin_body", "callback"}
        ~> (pc[t] = "idle" \/ Broken)

(* A stop ends the spin, whenever it comes: before the spin has begun,     *)
(* between two iterations, or from a callback of the spin itself.          *)
StopEndsSpin ==
    \A t \in Spinner :
        (pipe > 0 /\ pc[t] \in {"spin_lock", "spin_in", "spin_body", "spin_wait", "callback"})
        ~> (pc[t] = "idle" \/ Broken)

=============================================================================
