-------------------------- MODULE ApiLockingProofs --------------------------
(***************************************************************************)
(* Theorems about the locking of the API, for any number of threads that   *)
(* make any calls, from their programs and from their callbacks.           *)
(***************************************************************************)
EXTENDS ApiLocking, TLAPS

(* The places of a call that needs its resource.                           *)
Carrying == {"track_mutex_", "track_map", "track_lock", "track_in",
             "advertise_lock", "advertise_in"}

Arguments == \A t \in Thread : pc[t] \in Carrying => arg[t] \in Resource

(* The places of a thread that has the wrapper's mutex_.                   *)
Inside_ == {"track_map", "track_lock", "track_in", "track_out"}

(* Who is between lock and unlock is the owner, of each mutex; the owner   *)
(* of mutex_ is always there, the owner of mutex unless it is lost.        *)
Owners ==
    /\ \A t \in Thread : pc[t] \in Inside => mutex = t
    /\ \A t \in Thread : pc[t] \in Inside_ <=> mutex_ = t
    /\ MutexAccounted

(* The map has the function of every resource that is tracked or about to  *)
(* be, unless another resource has come with its hash.                     *)
Tracked(r) ==
    \/ r \in trackers
    \/ \E t \in Thread : pc[t] \in {"track_lock", "track_in"} /\ arg[t] = r

Mapped ==
    \A r \in Resource :
        Tracked(r) /\ ResourceHash[r] \notin clashed
        => functions[ResourceHash[r]] = r

IndInv == ApiTypeOK /\ Arguments /\ Owners /\ Mapped /\ RightFunction

(* What the thread t may do.                                               *)
Step(t) ==
    \/ Stop(t) \/ Spin(t) \/ SpinTimeout(t)
    \/ Lock(t) \/ TrackMutex(t) \/ SpinUnlock(t)
    \/ Proceed(t)
    \/ \E r \in Resource :
           Track(t, r) \/ Advertise(t, r) \/ Post(t, r) \/ Callback(t, r)

-----------------------------------------------------------------------------
(* A step of t moves nobody else.                                          *)
LEMMA BeginEffect ==
    ASSUME ApiTypeOK, NEW t \in Thread, NEW place \in Place,
           NEW r \in Resource \cup {Nil}, Begin(t, place, r)
    PROVE  /\ pc' \in [Thread -> Place]
           /\ arg' \in [Thread -> Resource \cup {Nil}]
           /\ pc'[t] = place /\ arg'[t] = r
           /\ \A u \in Thread \ {t} : pc'[u] = pc[u] /\ arg'[u] = arg[u]
BY DEF Begin, ApiTypeOK

(* A thread that begins a call has the resource that the call needs.       *)
LEMMA ArgumentsStep ==
    ASSUME ApiTypeOK, Arguments, NEW t \in Thread, NEW place \in Place,
           NEW r \in Resource \cup {Nil}, Begin(t, place, r),
           place \in Carrying => r \in Resource
    PROVE  Arguments'
BY BeginEffect DEF Arguments

(* Where a thread that waits for the node's mutex is once it has it.       *)
LEMMA LockingPlaces ==
    /\ \A p \in DOMAIN Locking :
         /\ Locking[p] \in Place /\ Locking[p] \in Inside
         /\ Locking[p] \in Carrying => p \in Carrying
         /\ Locking[p] \in Inside_ <=> p \in Inside_
         /\ p \notin Inside
         /\ Locking[p] \notin {"callback", "track_lock", "track_map"}
         /\ Locking[p] = "track_in" => p = "track_lock"
    /\ DOMAIN Locking = {"spin_lock", "track_lock", "advertise_lock", "post_lock"}
BY DEF Locking, Place, Inside, Inside_, Carrying

(* The types, with the arguments of the calls.                             *)
LEMMA TypeStep ==
    ASSUME ApiTypeOK, Arguments, NEW t \in Thread, Step(t)
    PROVE  ApiTypeOK' /\ Arguments'
<1>1. arg[t] \in Resource \cup {Nil} /\ pc[t] \in Place
  BY DEF ApiTypeOK
<1>2. ASSUME NEW place \in Place, NEW r \in Resource \cup {Nil}, Begin(t, place, r),
             place \in Carrying => r \in Resource,
             ready' \in [Thread -> BOOLEAN],
             {mutex', mutex_'} \subseteq Thread \cup {Nobody},
             UNCHANGED <<functions, trackers, providers, clashed>>,
             linked' \subseteq providers,
             called' \in [Thread -> Resource \cup {Nil, AnyFunction}],
             pipe' \in 0 .. PipeSize,
             leaked' \in BOOLEAN, reentered' \in BOOLEAN
      PROVE  ApiTypeOK' /\ Arguments'
  <2>1. Arguments'
    BY <1>2, ArgumentsStep
  <2>2. pc' \in [Thread -> Place] /\ arg' \in [Thread -> Resource \cup {Nil}]
    BY <1>2, BeginEffect
  <2> QED
    BY <1>2, <2>1, <2>2 DEF ApiTypeOK
<1>3. \A r \in Resource : ResourceHash[r] \in Hash
  BY DEF Hash
<1>4. CASE Stop(t)
  <2>1. pipe' \in 0 .. PipeSize
    BY <1>4, ApiAssumption DEF Stop, ApiTypeOK
  <2> QED
    BY <1>4, <2>1 DEF Stop, ApiTypeOK, Arguments, locks, map, endpoints, history
<1>5. CASE Spin(t)
  BY <1>1, <1>2, <1>5 DEF Spin, Go, ApiTypeOK, locks, map, endpoints, history, Place, Locking, Carrying
<1>6. CASE SpinTimeout(t)
  BY <1>1, <1>2, <1>6 DEF SpinTimeout, Leave, ApiTypeOK, locks, map, endpoints, history, Place, Carrying
<1>7. CASE Lock(t)
  BY <1>1, <1>2, <1>7, LockingPlaces DEF Lock, Go, ApiTypeOK, map, endpoints, history, Arguments
<1>8. CASE TrackMutex(t)
  BY <1>1, <1>2, <1>8 DEF TrackMutex, Go, ApiTypeOK, map, endpoints, history, Place, Carrying, Arguments
<1>9. CASE SpinUnlock(t)
  BY <1>1, <1>2, <1>9 DEF SpinUnlock, Unlock, Leave, ApiTypeOK, map, Place, Carrying
<1>10. CASE Proceed(t)
  <2>1. CASE SpinStopped(t)
    <3>1. pipe' \in 0 .. PipeSize
      BY <2>1, ApiAssumption DEF SpinStopped, ApiTypeOK
    <3> QED
      BY <1>1, <1>2, <2>1, <3>1 DEF SpinStopped, Leak, Unlock, Leave, ApiTypeOK, map, endpoints, Place, Carrying
  <2>2. CASE SpinBody(t)
    BY <1>1, <1>2, <2>2 DEF SpinBody, Go, ApiTypeOK, locks, map, endpoints, history, Place, Inside, Carrying
  <2>3. CASE SpinWait(t)
    <3>1. ready' \in [Thread -> BOOLEAN]
      BY <2>3 DEF SpinWait, ApiTypeOK
    <3> QED
      BY <1>1, <1>2, <2>3, <3>1 DEF SpinWait, Go, ApiTypeOK, locks, map, endpoints, history, Place, Locking, Carrying
  <2>4. CASE CallbackReturn(t)
    BY <1>1, <1>2, <2>4 DEF CallbackReturn, Leave, ApiTypeOK, locks, endpoints, history, Place, Inside, Carrying
  <2>5. CASE TrackMap(t)
    <3>1. arg[t] \in Resource
      BY <2>5 DEF TrackMap, Arguments, Carrying
    <3>2. "track_lock" \in Place
      BY DEF Place, Locking
    <3>3. Arguments' /\ pc' \in [Thread -> Place] /\ arg' \in [Thread -> Resource \cup {Nil}]
      BY <2>5, <3>1, <3>2, ArgumentsStep, BeginEffect DEF TrackMap, Go
    <3>4. functions' \in [Hash -> Resource \cup {Nil}] /\ clashed' \subseteq Hash
      BY <1>3, <2>5, <3>1 DEF TrackMap, ApiTypeOK
    <3> QED
      BY <2>5, <3>3, <3>4 DEF TrackMap, ApiTypeOK, locks, endpoints
  <2>6. CASE TrackIn(t)
    <3>1. arg[t] \in Resource
      BY <2>6 DEF TrackIn, Arguments, Carrying
    <3>2. "track_out" \in Place /\ "track_out" \notin Carrying
      BY DEF Place, Carrying
    <3>3. Arguments' /\ pc' \in [Thread -> Place] /\ arg' \in [Thread -> Resource \cup {Nil}]
      BY <2>6, <3>2, ArgumentsStep, BeginEffect DEF TrackIn, Unlock, Leave
    <3>4. trackers' \subseteq Resource
      BY <2>6, <3>1 DEF TrackIn, ApiTypeOK
    <3> QED
      BY <2>6, <3>3, <3>4 DEF TrackIn, Unlock, ApiTypeOK, map
  <2>7. CASE TrackOut(t)
    BY <1>1, <1>2, <2>7 DEF TrackOut, Leave, ApiTypeOK, map, endpoints, history, Place, Carrying
  <2>8. CASE AdvertiseIn(t)
    <3>1. arg[t] \in Resource
      BY <2>8 DEF AdvertiseIn, Arguments, Carrying
    <3>2. "idle" \in Place /\ "idle" \notin Carrying
      BY DEF Place, Carrying
    <3>3. Arguments' /\ pc' \in [Thread -> Place] /\ arg' \in [Thread -> Resource \cup {Nil}]
      BY <2>8, <3>2, ArgumentsStep, BeginEffect DEF AdvertiseIn, Unlock, Leak, Leave
    <3>4. providers' \subseteq Resource /\ linked' \subseteq providers'
      BY <2>8, <3>1 DEF AdvertiseIn, ApiTypeOK
    <3>5. mutex' \in Thread \cup {Nobody} /\ leaked' \in BOOLEAN
      BY <2>8 DEF AdvertiseIn, ApiTypeOK, Unlock, Leak
    <3> QED
      BY <2>8, <3>3, <3>4, <3>5 DEF AdvertiseIn, ApiTypeOK, map
  <2>9. CASE PostIn(t)
    BY <1>1, <1>2, <2>9 DEF PostIn, Leak, Unlock, Leave, ApiTypeOK, map, endpoints, Place, Carrying
  <2> QED
    BY <1>10, <2>1, <2>2, <2>3, <2>4, <2>5, <2>6, <2>7, <2>8, <2>9 DEF Proceed
<1>11. ASSUME NEW c, NEW place \in DOMAIN Locking \cup {"track_mutex_"},
              NEW r \in Resource, MakeCall(t, c, place, r)
       PROVE  ApiTypeOK' /\ Arguments'
  <2>1. place \in Place
    BY DEF Place
  <2>2. reentered' \in BOOLEAN
    BY <1>11 DEF MakeCall
  <2> QED
    BY <1>2, <1>11, <2>1, <2>2 DEF MakeCall, ApiTypeOK, locks, map, endpoints
<1>12. ASSUME NEW r \in Resource, Callback(t, r)
       PROVE  ApiTypeOK' /\ Arguments'
  <2>1. called' \in [Thread -> Resource \cup {Nil, AnyFunction}]
    BY <1>3, <1>12 DEF Callback, ApiTypeOK
  <2> QED
    BY <1>2, <1>12, <2>1 DEF Callback, ApiTypeOK, locks, endpoints, history, Place, Inside
<1> QED
  BY <1>4, <1>5, <1>6, <1>7, <1>8, <1>9, <1>10, <1>11, <1>12, LockingPlaces
     DEF Step, Track, Advertise, Post

(* The mutexes.                                                            *)
LEMMA OwnersStep ==
    ASSUME ApiTypeOK, Owners, NEW t \in Thread, Step(t)
    PROVE  Owners'
<1>1. /\ pc \in [Thread -> Place] /\ pc[t] \in Place
      /\ arg[t] \in Resource \cup {Nil} /\ Nil \in Resource \cup {Nil}
      /\ mutex \in Thread \cup {Nobody} /\ mutex_ \in Thread \cup {Nobody}
      /\ Nobody \notin Thread
  BY ApiAssumption DEF ApiTypeOK
(* t moves without a change of mutexes.                                    *)
<1>2. ASSUME NEW place \in Place, NEW r \in Resource \cup {Nil}, Begin(t, place, r),
             UNCHANGED <<mutex, mutex_>>, Broken => Broken',
             place \in Inside <=> pc[t] \in Inside,
             place \in Inside_ <=> pc[t] \in Inside_
      PROVE  Owners'
  BY <1>1, <1>2, BeginEffect DEF Owners, MutexAccounted
(* t leaves the mutex.                                                     *)
<1>3. ASSUME NEW place \in Place, NEW r \in Resource \cup {Nil}, Begin(t, place, r),
             mutex' = Nobody, UNCHANGED mutex_, pc[t] \in Inside,
             place \notin Inside,
             place \in Inside_ <=> pc[t] \in Inside_
      PROVE  Owners'
  BY <1>1, <1>3, BeginEffect DEF Owners, MutexAccounted
(* t goes on with the mutex lost.                                          *)
<1>4. ASSUME NEW place \in Place, NEW r \in Resource \cup {Nil}, Begin(t, place, r),
             UNCHANGED <<mutex, mutex_>>, Broken', place \notin Inside,
             place \notin Inside_, pc[t] \notin Inside_
      PROVE  Owners'
  BY <1>1, <1>4, BeginEffect DEF Owners, MutexAccounted
<1>5. CASE Stop(t)
  BY <1>5 DEF Stop, Owners, MutexAccounted, Broken, locks, history
<1>6. CASE Spin(t)
  BY <1>1, <1>2, <1>6 DEF Spin, Go, Broken, locks, history, Place, Locking, Inside, Inside_
<1>7. CASE SpinTimeout(t)
  BY <1>1, <1>2, <1>7 DEF SpinTimeout, Leave, Broken, locks, history, Place, Inside, Inside_
<1>8. CASE Lock(t)
  <2>1. /\ Begin(t, Locking[pc[t]], arg[t]) /\ mutex = Nobody /\ mutex' = t
        /\ UNCHANGED <<mutex_, leaked, reentered>>
        /\ Locking[pc[t]] \in Place /\ Locking[pc[t]] \in Inside
        /\ Locking[pc[t]] \in Inside_ <=> pc[t] \in Inside_
    BY <1>8, LockingPlaces DEF Lock, Go, history
  <2> QED
    BY <1>1, <2>1, BeginEffect DEF Owners, MutexAccounted
<1>9. CASE TrackMutex(t)
  <2>1. /\ Begin(t, "track_map", arg[t]) /\ mutex_ = Nobody /\ mutex_' = t
        /\ UNCHANGED <<mutex, leaked, reentered>> /\ pc[t] = "track_mutex_"
        /\ "track_map" \in Place /\ "track_map" \in Inside_
        /\ "track_map" \notin Inside /\ "track_mutex_" \notin Inside
    BY <1>9 DEF TrackMutex, Go, history, Place, Inside, Inside_
  <2> QED
    BY <1>1, <2>1, BeginEffect DEF Owners, MutexAccounted, Broken
<1>10. CASE SpinUnlock(t)
  BY <1>1, <1>3, <1>10 DEF SpinUnlock, Unlock, Leave, Place, Inside, Inside_
<1>11. CASE Proceed(t)
  <2>1. CASE SpinStopped(t)
    BY <1>1, <1>3, <1>4, <2>1
       DEF SpinStopped, Leak, Unlock, Leave, Broken, Place, Inside, Inside_
  <2>2. CASE SpinBody(t)
    BY <1>1, <1>2, <2>2 DEF SpinBody, Go, Broken, locks, history, Place, Inside, Inside_
  <2>3. CASE SpinWait(t)
    BY <1>1, <1>2, <2>3
       DEF SpinWait, Go, Broken, locks, history, Place, Locking, Inside, Inside_
  <2>4. CASE CallbackReturn(t)
    BY <1>1, <1>2, <2>4
       DEF CallbackReturn, Leave, Broken, locks, history, Place, Inside, Inside_
  <2>5. CASE TrackMap(t)
    BY <1>1, <1>2, <2>5 DEF TrackMap, Go, Broken, locks, Place, Locking, Inside, Inside_
  <2>6. CASE TrackIn(t)
    BY <1>1, <1>3, <2>6 DEF TrackIn, Unlock, Leave, Place, Inside, Inside_
  <2>7. CASE TrackOut(t)
    <3>1. /\ Begin(t, "idle", Nil) /\ pc[t] = "track_out" /\ mutex_' = Nobody
          /\ UNCHANGED <<mutex, leaked, reentered>>
          /\ "idle" \in Place /\ "idle" \notin Inside /\ "idle" \notin Inside_
          /\ "track_out" \in Inside_ /\ "track_out" \notin Inside
      BY <2>7 DEF TrackOut, Leave, history, Place, Inside, Inside_
    <3> QED
      BY <1>1, <3>1, BeginEffect DEF Owners, MutexAccounted, Broken
  <2>8. CASE AdvertiseIn(t)
    BY <1>1, <1>3, <1>4, <2>8
       DEF AdvertiseIn, Leak, Unlock, Leave, Broken, Place, Inside, Inside_
  <2>9. CASE PostIn(t)
    BY <1>1, <1>3, <1>4, <2>9
       DEF PostIn, Leak, Unlock, Leave, Broken, Place, Inside, Inside_
  <2> QED
    BY <1>11, <2>1, <2>2, <2>3, <2>4, <2>5, <2>6, <2>7, <2>8, <2>9 DEF Proceed
<1>12. ASSUME NEW c, NEW r \in Resource,
              NEW place \in {"track_mutex_", "advertise_lock", "post_lock"},
              MakeCall(t, c, place, r)
       PROVE  Owners'
  <2>1. /\ Begin(t, place, r) /\ place \in Place /\ r \in Resource \cup {Nil}
        /\ UNCHANGED <<mutex, mutex_, leaked>>
        /\ reentered' = (reentered \/ pc[t] = "callback")
        /\ place \notin Inside /\ place \notin Inside_
    BY <1>12 DEF MakeCall, Place, Locking, Inside, Inside_, locks
  <2>2. CASE pc[t] = "callback"
    BY <1>4, <2>1, <2>2 DEF Broken, Inside_
  <2>3. CASE pc[t] = "idle"
    BY <1>2, <2>1, <2>3 DEF Broken, Inside, Inside_
  <2> QED
    BY <1>12, <2>2, <2>3 DEF MakeCall, Calls
<1>13. ASSUME NEW r \in Resource, Callback(t, r)
       PROVE  Owners'
  BY <1>1, <1>2, <1>13 DEF Callback, Broken, locks, history, Place, Inside, Inside_
<1> QED
  BY <1>5, <1>6, <1>7, <1>8, <1>9, <1>10, <1>11, <1>12, <1>13
     DEF Step, Track, Advertise, Post

(* The map of functions.                                                   *)
LEMMA FunctionsStep ==
    ASSUME ApiTypeOK, Arguments, Mapped, RightFunction, NEW t \in Thread, Step(t)
    PROVE  Mapped' /\ RightFunction'
<1>1. /\ pc \in [Thread -> Place] /\ pc[t] \in Place
      /\ arg[t] \in Resource \cup {Nil} /\ Nil \in Resource \cup {Nil}
      /\ called \in [Thread -> Resource \cup {Nil, AnyFunction}]
  BY DEF ApiTypeOK
(* t goes to a place where it neither runs a function nor promises one.    *)
<1>2. ASSUME NEW place \in Place, NEW r \in Resource \cup {Nil}, Begin(t, place, r),
             \/ place \notin {"track_lock", "track_in", "callback"}
             \/ place = "track_in" /\ pc[t] = "track_lock" /\ r = arg[t],
             UNCHANGED <<functions, trackers, clashed>>,
             \A u \in Thread \ {t} : called'[u] = called[u]
      PROVE  Mapped' /\ RightFunction'
  <2>1. Mapped'
    BY <1>2, BeginEffect DEF Mapped, Tracked
  <2>2. RightFunction'
    BY <1>2, BeginEffect DEF RightFunction
  <2> QED
    BY <2>1, <2>2
<1>3. CASE Stop(t)
  BY <1>3 DEF Stop, Mapped, Tracked, RightFunction, map, endpoints, history
<1>4. CASE Spin(t)
  BY <1>1, <1>2, <1>4 DEF Spin, Go, map, endpoints, history, Place, Locking
<1>5. CASE SpinTimeout(t)
  BY <1>1, <1>2, <1>5 DEF SpinTimeout, Leave, map, endpoints, history, Place
<1>6. CASE Lock(t)
  BY <1>1, <1>2, <1>6, LockingPlaces DEF Lock, Go, map, endpoints, history
<1>7. CASE TrackMutex(t)
  BY <1>1, <1>2, <1>7 DEF TrackMutex, Go, map, endpoints, history, Place
<1>8. CASE SpinUnlock(t)
  BY <1>1, <1>2, <1>8 DEF SpinUnlock, Unlock, Leave, map, Place
<1>9. CASE Proceed(t)
  <2>1. CASE SpinStopped(t)
    BY <1>1, <1>2, <2>1 DEF SpinStopped, Leak, Unlock, Leave, map, endpoints, Place
  <2>2. CASE SpinBody(t)
    BY <1>1, <1>2, <2>2 DEF SpinBody, Go, map, endpoints, history, Place, Inside
  <2>3. CASE SpinWait(t)
    BY <1>1, <1>2, <2>3 DEF SpinWait, Go, map, endpoints, history, Place, Locking
  <2>4. CASE CallbackReturn(t)
    BY <1>1, <1>2, <2>4 DEF CallbackReturn, Leave, endpoints, history, Place, Inside
  <2>5. CASE TrackMap(t)
    <3> DEFINE h == ResourceHash[arg[t]]
    <3>1. /\ arg[t] \in Resource /\ h \in Hash
          /\ \A r \in Resource : ResourceHash[r] \in Hash
      BY <2>5 DEF TrackMap, Arguments, Carrying, Hash
    <3>2. /\ "track_lock" \in Place /\ Begin(t, "track_lock", arg[t])
          /\ UNCHANGED <<trackers, called>>
          /\ clashed' = IF functions[h] \in {Nil, arg[t]} THEN clashed
                        ELSE clashed \cup {h}
      BY <2>5 DEF TrackMap, Go, endpoints, Place, Locking
    <3>3. /\ functions'[h] = arg[t]
          /\ \A g \in Hash \ {h} : functions'[g] = functions[g]
      BY <2>5, <3>1 DEF TrackMap, ApiTypeOK
    <3>4. Mapped'
      <4> SUFFICES ASSUME NEW r \in Resource, Tracked(r)', ResourceHash[r] \notin clashed'
                   PROVE  functions'[ResourceHash[r]] = r
        BY DEF Mapped
      <4>1. ResourceHash[r] \notin clashed
        BY <3>2
      <4>2. CASE r = arg[t]
        BY <3>3, <4>2
      <4>3. CASE r # arg[t]
        <5>1. Tracked(r)
          BY <1>1, <3>2, <4>3, BeginEffect DEF Tracked
        <5>2. functions[ResourceHash[r]] = r /\ r # Nil
          BY <4>1, <5>1, ApiAssumption DEF Mapped
        <5>3. ResourceHash[r] # h
          BY <3>2, <4>3, <5>2
        <5> QED
          BY <3>1, <3>3, <5>2, <5>3
      <4> QED
        BY <4>2, <4>3
    <3>5. RightFunction'
      BY <1>1, <3>2, BeginEffect DEF RightFunction
    <3> QED
      BY <3>4, <3>5
  <2>6. CASE TrackIn(t)
    <3>1. /\ "track_out" \in Place /\ Begin(t, "track_out", Nil)
          /\ UNCHANGED <<functions, called, clashed>>
          /\ trackers' \subseteq trackers \cup {arg[t]} /\ pc[t] = "track_in"
      BY <2>6 DEF TrackIn, Unlock, Leave, map, Place
    <3>2. \A r \in Resource : Tracked(r)' => Tracked(r)
      BY <3>1, BeginEffect DEF Tracked
    <3>3. Mapped'
      BY <3>1, <3>2 DEF Mapped
    <3>4. RightFunction'
      BY <3>1, BeginEffect DEF RightFunction
    <3> QED
      BY <3>3, <3>4
  <2>7. CASE TrackOut(t)
    BY <1>1, <1>2, <2>7 DEF TrackOut, Leave, map, endpoints, history, Place
  <2>8. CASE AdvertiseIn(t)
    BY <1>1, <1>2, <2>8 DEF AdvertiseIn, Leak, Unlock, Leave, map, Place
  <2>9. CASE PostIn(t)
    BY <1>1, <1>2, <2>9 DEF PostIn, Leak, Unlock, Leave, map, endpoints, Place
  <2> QED
    BY <1>9, <2>1, <2>2, <2>3, <2>4, <2>5, <2>6, <2>7, <2>8, <2>9 DEF Proceed
<1>10. ASSUME NEW c, NEW r \in Resource,
              NEW place \in {"track_mutex_", "advertise_lock", "post_lock"},
              MakeCall(t, c, place, r)
       PROVE  Mapped' /\ RightFunction'
  BY <1>2, <1>10 DEF MakeCall, map, endpoints, Place, Locking
<1>11. ASSUME NEW r \in Resource, Callback(t, r)
       PROVE  Mapped' /\ RightFunction'
  <2>1. /\ "callback" \in Place /\ Begin(t, "callback", r) /\ r \in trackers
        /\ UNCHANGED <<functions, trackers, clashed>>
        /\ called'[t] \in {AnyFunction, functions[ResourceHash[r]]}
        /\ \A u \in Thread \ {t} : called'[u] = called[u]
    BY <1>1, <1>11 DEF Callback, endpoints, history, Place, Inside
  <2>2. Mapped'
    BY <2>1, BeginEffect DEF Mapped, Tracked
  <2>3. ResourceHash[r] \notin clashed => functions[ResourceHash[r]] = r
    BY <2>1 DEF Mapped, Tracked
  <2>4. RightFunction'
    BY <2>1, <2>3, BeginEffect DEF RightFunction
  <2> QED
    BY <2>2, <2>4
<1> QED
  BY <1>3, <1>4, <1>5, <1>6, <1>7, <1>8, <1>9, <1>10, <1>11
     DEF Step, Track, Advertise, Post

-----------------------------------------------------------------------------
(* However many threads call the node and from wherever, the mutexes have  *)
(* the owners they seem to have and the map the functions it was given.    *)
THEOREM ApiInvariance == Spec => []IndInv
<1>1. Init => IndInv
  <2> SUFFICES ASSUME Init PROVE IndInv
    OBVIOUS
  <2>1. ApiTypeOK
    <3>1. pipe \in 0 .. PipeSize /\ "idle" \in Place
      BY ApiAssumption DEF Init, Place
    <3>2. leaked \in BOOLEAN /\ reentered \in BOOLEAN /\ ready \in [Thread -> BOOLEAN]
      BY DEF Init
    <3> QED
      BY <3>1, <3>2 DEF Init, ApiTypeOK
  <2>2. Arguments /\ RightFunction
    BY DEF Init, Arguments, Carrying, RightFunction
  <2>3. Owners
    BY ApiAssumption DEF Init, Owners, MutexAccounted, Inside, Inside_
  <2>4. Mapped
    BY DEF Init, Mapped, Tracked
  <2> QED
    BY <2>1, <2>2, <2>3, <2>4 DEF IndInv
<1>2. IndInv /\ [Next]_vars => IndInv'
  <2> SUFFICES ASSUME IndInv, [Next]_vars PROVE IndInv'
    OBVIOUS
  <2>1. ASSUME NEW t \in Thread, Step(t) PROVE IndInv'
    BY <2>1, TypeStep, OwnersStep, FunctionsStep DEF IndInv
  <2>2. CASE UNCHANGED vars
    BY <2>2 DEF IndInv, ApiTypeOK, Arguments, Owners, MutexAccounted, Broken, Mapped,
                Tracked, RightFunction, vars, locks, map, endpoints, history
  <2> QED
    BY <2>1, <2>2 DEF Next, Step
<1> QED
  BY <1>1, <1>2, PTL DEF Spec

(* The threads, the mutexes, the map and the pipe keep their types: the    *)
(* pipe never holds more bytes than it takes.                              *)
THEOREM ApiTypeCorrect == Spec => []ApiTypeOK
BY ApiInvariance, PTL DEF IndInv

(* No call leaves the node's mutex behind, but the three exits that lack   *)
(* the unlock.                                                             *)
THEOREM MutexAlwaysAccounted == Spec => []MutexAccounted
BY ApiInvariance, PTL DEF IndInv, Owners

(* The function that a callback runs is the one tracked with its resource. *)
THEOREM FunctionRight == Spec => []RightFunction
BY ApiInvariance, PTL DEF IndInv

(* No two threads ever wait for each other's mutex, as long as no callback *)
(* has called back into the node and no exit has kept the mutex.           *)
THEOREM DeadlockFree == Spec => []NoDeadlock
<1>1. IndInv => NoDeadlock
  <2> SUFFICES ASSUME IndInv, ~Broken, NEW t \in Thread, NEW u \in Thread,
                      WaitsFor(t, u), WaitsFor(u, t)
               PROVE  FALSE
    BY DEF NoDeadlock
  <2>1. /\ mutex = t => pc[t] \in Inside
        /\ mutex = u => pc[u] \in Inside
        /\ mutex_ = t => pc[t] \in Inside_
        /\ mutex_ = u => pc[u] \in Inside_
    BY ApiAssumption DEF IndInv, Owners, MutexAccounted
  <2> QED
    BY <2>1, LockingPlaces DEF WaitsFor, Inside, Inside_
<1> QED
  BY <1>1, ApiInvariance, PTL
=============================================================================
