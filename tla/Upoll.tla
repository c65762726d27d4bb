------------------------------- MODULE Upoll -------------------------------
(***************************************************************************)
(* upoll calls each of a number of functions once per period.  A caller    *)
(* calls it again and again, at any time: it may be late by several        *)
(* periods.                                                                *)
(***************************************************************************)
EXTENDS Timespec, FiniteSets

CONSTANTS
    Poller,   \* the entries of the array
    Period,   \* polling_period of each, in nanoseconds; negative for never
    MaxClock  \* the clock stops here, in nanoseconds

ASSUME PeriodAssumption ==
    /\ IsFiniteSet(Poller)
    /\ Period \in [Poller -> Int \ {0}]
    /\ MaxClock \in Nat

VARIABLES
    upolls,          \* next_poll_time of each entry
    next_poll_time,  \* what the last call of upoll returned
    wall,            \* CLOCK_MONOTONIC
    calls,           \* history: how often each function was called
    first            \* history: when it was called first, in nanoseconds

upollVars == <<upolls, next_poll_time, wall, calls, first>>

polling_period(p) == IF Period[p] < 0 THEN TIMESPEC_INF ELSE FromChrono(Period[p])

UpollInit ==
    /\ upolls = [p \in Poller |-> TIMESPEC_ZERO]
    /\ next_poll_time = TIMESPEC_ZERO
    /\ wall = FromChrono(1)
    /\ calls = [p \in Poller |-> 0]
    /\ first = [p \in Poller |-> 0]

DuePollers == {p \in Poller : timespec_cmp(wall, upolls[p]) >= 0}

(* Fault: the next call is a period after this one.                        *)
RescheduleFromNow(p) == timespec_add(wall, polling_period(p))

(* The next call is a period after the time this one was due.              *)
Reschedule(p) ==
    timespec_add(IF upolls[p] = TIMESPEC_ZERO THEN wall ELSE upolls[p],
                 polling_period(p))

(* Fault: only the entries just called are looked at.                      *)
EarliestCalled(times) ==
    IF DuePollers = {} THEN TIMESPEC_INF_INIT
    ELSE times[CHOOSE p \in DuePollers : \A q \in DuePollers :
                   timespec_cmp(times[p], times[q]) <= 0]

(* The minimum of the times; TIMESPEC_INF_INIT if none ever comes.         *)
EarliestPoll(times) ==
    LET coming == {p \in Poller : timespec_cmp(TIMESPEC_INF_INIT, times[p]) > 0}
    IN  IF coming = {} THEN TIMESPEC_INF_INIT
        ELSE times[CHOOSE p \in coming : \A q \in coming :
                       timespec_cmp(times[p], times[q]) <= 0]

upoll ==
    /\ upolls' = [p \in Poller |->
                      IF p \in DuePollers THEN Reschedule(p) ELSE upolls[p]]
    /\ next_poll_time' = EarliestPoll(upolls')
    /\ calls' = [p \in Poller |-> IF p \in DuePollers THEN calls[p] + 1 ELSE calls[p]]
    /\ first' = [p \in Poller |-> IF p \in DuePollers /\ calls[p] = 0
                                  THEN Nsec(wall) ELSE first[p]]
    /\ UNCHANGED wall

(* The caller does something else for a while.                             *)
UpollPass(d) ==
    /\ Nsec(wall) + d <= MaxClock
    /\ wall' = FromChrono(Nsec(wall) + d)
    /\ UNCHANGED <<upolls, next_poll_time, calls, first>>

UpollNext == upoll \/ \E d \in 1 .. MaxClock : UpollPass(d)

UpollSpec == UpollInit /\ [][UpollNext]_upollVars

-----------------------------------------------------------------------------
(* Properties *)

(* A function is called once for each period since its first call that has *)
(* begun, never more often, and its schedule never drifts, however late    *)
(* upoll is called; one whose period is infinite is called once.           *)
OnSchedule ==
    \A p \in Poller :
        calls[p] > 0 =>
            IF Period[p] < 0 THEN calls[p] = 1 /\ upolls[p].tv_sec < 0
            ELSE /\ upolls[p] \in Time
                 /\ Nsec(upolls[p]) = first[p] + calls[p] * Period[p]
                 /\ (calls[p] - 1) * Period[p] <= Nsec(wall) - first[p]

(* A caller that sleeps until the time upoll returned misses nothing: no   *)
(* function is due before, and one is at that time.                        *)
WakeInTime ==
    (\E p \in Poller : calls[p] > 0) =>
        /\ \A p \in Poller : timespec_cmp(next_poll_time, upolls[p]) <= 0
        /\ \E p \in Poller : timespec_cmp(next_poll_time, upolls[p]) = 0

=============================================================================
