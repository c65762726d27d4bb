---------------------------- MODULE SpinTimeout ----------------------------
(***************************************************************************)
(* For how long a spin lasts: how the timeout given to the C++ wrapper     *)
(* becomes the time at which uccn_spin_until returns, and what the loop    *)
(* sleeps in between.  Time is struct timespec here, and the clock is read *)
(* anew where the code reads it anew.  The three timers of the loop, which *)
(* SpinNode models, are one here: the earliest of them.                    *)
(***************************************************************************)
EXTENDS Timespec

CONSTANTS
    Duration,   \* the timeouts that programs ask for, in nanoseconds
    TimerStep,  \* by how much the next timer may be ahead of the clock
    Pass,       \* by how much the clock advances between two readings
    MaxNsec     \* the clock stops here

ASSUME SpinTimeAssumption ==
    /\ Duration \subseteq Int
    /\ TimerStep \subseteq Nat
    /\ Pass \subseteq Nat
    /\ MaxNsec \in Nat

VARIABLES
    clock,         \* CLOCK_MONOTONIC
    state,         \* where the spinning thread is
    due,           \* history: when the spin should end, in nanoseconds
    timeout_time,
    next_deadline,
    stimeout

spinVars == <<clock, state, due, timeout_time, next_deadline, stimeout>>

Never == MaxNsec + 1

SpinTimeoutInit ==
    /\ clock = FromChrono(1)
    /\ state = "idle"
    /\ due = Never
    /\ timeout_time = TIMESPEC_INF
    /\ next_deadline = TIMESPEC_ZERO
    /\ stimeout = TIMESPEC_ZERO

(* The clock moves on by d nanoseconds.                                    *)
Later(d) ==
    /\ Nsec(clock) + d <= MaxNsec
    /\ clock' = FromChrono(Nsec(clock) + d)

StartSpin(until, t) ==
    /\ state = "idle"
    /\ state' = "iterated"
    /\ due' = until
    /\ timeout_time' = t
    /\ UNCHANGED <<clock, next_deadline, stimeout>>

(* node::spin(nanoseconds), and uccn_spin with it                          *)
SpinFor(d) ==
    StartSpin(Nsec(clock) + d, timespec_add(clock, FromChrono(d)))

(* node::spin_until(time_point)                                            *)
SpinUntil(d) ==
    /\ d >= 0
    /\ StartSpin(d, FromChrono(d))

(* node::spin(): uccn_spin without a timeout                               *)
SpinForever == StartSpin(Never, TIMESPEC_INF)

(* Fault: the timeout only bounds the sleep.                               *)
TimedOutNever == FALSE

TimedOut == timespec_cmp(clock, timeout_time) >= 0

(* The iteration is over and the timeout has come.                         *)
SpinReturn ==
    /\ state = "iterated"
    /\ TimedOut
    /\ state' = "returned"
    /\ UNCHANGED <<clock, due, timeout_time, next_deadline, stimeout>>

(* The earlier of the timeout and the next timer.                          *)
EarliestDeadline(timer) ==
    IF timespec_cmp(timeout_time, timer) > 0 THEN timer ELSE timeout_time

SetDeadline(step) ==
    /\ state = "iterated"
    /\ ~TimedOut
    /\ next_deadline' = EarliestDeadline(timespec_add(clock, FromChrono(step)))
    /\ state' = "deadline"
    /\ UNCHANGED <<clock, due, timeout_time, stimeout>>

(* The clock is read again: it may have passed the deadline.               *)
ComputeSleep(d) ==
    /\ state = "deadline"
    /\ Later(d)
    /\ stimeout' = timespec_diff(next_deadline, clock')
    /\ state' = "asleep"
    /\ UNCHANGED <<due, timeout_time, next_deadline>>

(* A signal interrupts pselect: the sleep is computed anew, for the same   *)
(* deadline.                                                               *)
SleepInterrupted(d) ==
    /\ state = "asleep"
    /\ d <= Nsec(stimeout)
    /\ Later(d)
    /\ state' = "deadline"
    /\ UNCHANGED <<due, timeout_time, next_deadline, stimeout>>

(* pselect returns at its timeout, or before for a datagram, and the next  *)
(* iteration runs.                                                         *)
SleepEnds(d) ==
    /\ state = "asleep"
    /\ d <= Nsec(stimeout)
    /\ Later(d)
    /\ state' = "iterated"
    /\ UNCHANGED <<due, timeout_time, next_deadline, stimeout>>

SpinAgain ==
    /\ state = "returned"
    /\ state' = "idle"
    /\ UNCHANGED <<clock, due, timeout_time, next_deadline, stimeout>>

SpinTimeoutNext ==
    \/ \E d \in Duration : SpinFor(d)
    \/ \E d \in Duration : SpinUntil(d)
    \/ SpinForever
    \/ SpinReturn
    \/ \E step \in TimerStep : SetDeadline(step)
    \/ \E d \in Pass : ComputeSleep(d)
    \/ \E d \in 0 .. MaxNsec : SleepInterrupted(d)
    \/ \E d \in 0 .. MaxNsec : SleepEnds(d)
    \/ SpinAgain

SpinTimeoutSpec == SpinTimeoutInit /\ [][SpinTimeoutNext]_spinVars

-----------------------------------------------------------------------------
(* Properties *)

Spinning == state \in {"iterated", "deadline", "asleep"}

(* The timeout of uccn.hpp survives its conversion and the sum with the    *)
(* clock: a spin ends at the time asked for and not before, one without a  *)
(* timeout never does, and a timeout of minus one second or less, which is *)
(* in the past, is turned into none (the test for a negative tv_sec in     *)
(* timespec_add takes it for TIMESPEC_INF).                                *)
TimeoutKept ==
    Spinning =>
        \/ due = Never /\ timeout_time.tv_sec < 0
        \/ timeout_time.tv_sec >= 0 /\ Nsec(timeout_time) = due
        \/ due <= Nsec(clock) - NsecPerSec /\ timeout_time.tv_sec < 0

(* "assert(TIMESPEC_ISFINITE(&next_deadline))" (uccn.c line 847): both     *)
(* fields of the deadline are non-negative, although a negative timeout of *)
(* less than a second leaves a negative tv_nsec in timeout_time.           *)
DeadlineFinite ==
    state \in {"deadline", "asleep"} =>
        next_deadline.tv_sec >= 0 /\ next_deadline.tv_nsec >= 0

(* The loop never sleeps past its timeout: only where the deadline has     *)
(* passed between the two readings of the clock is the distance to it,     *)
(* which timespec_diff always takes for positive, slept too long, and then *)
(* by no more than the time that had passed.                               *)
SleepsInTime ==
    state = "asleep" /\ timeout_time.tv_sec >= 0 =>
        LET late == Nsec(clock) - Nsec(next_deadline)
        IN  /\ stimeout \in Time
            /\ IF late <= 0 THEN Nsec(clock) + Nsec(stimeout) <= due
                            ELSE Nsec(stimeout) = late

=============================================================================
