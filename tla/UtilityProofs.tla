--------------------------- MODULE UtilityProofs ---------------------------
(***************************************************************************)
(* Theorems about the parts uccn.c builds on: the arithmetic of struct     *)
(* timespec, the timeout of a spin and the schedule of upoll, for any      *)
(* number of nanoseconds in a second, any durations, periods and number of *)
(* functions; and the checksum of crc32.c, for any input.                  *)
(***************************************************************************)
EXTENDS SpinTimeout, Upoll, Crc32, WellFoundedInduction, TLAPS

-----------------------------------------------------------------------------
(* The arithmetic of time.h *)

(* An earlier second ends before a later one begins.                       *)
LEMMA Seconds ==
    ASSUME NEW s \in Int, NEW t \in Int, s < t
    PROVE  s * NsecPerSec + NsecPerSec <= t * NsecPerSec
<1>1. NsecPerSec \in Int /\ NsecPerSec >= 1
  BY NsecAssumption
<1>2. t - s - 1 \in Nat
  OBVIOUS
<1>3. (t - s - 1) * NsecPerSec >= 0
  BY <1>1, <1>2
<1> QED
  BY <1>1, <1>3

(* / and % of C on a number that is not negative.                          *)
LEMMA Division ==
    ASSUME NEW j \in Nat
    PROVE  /\ j \div NsecPerSec \in Nat
           /\ j - NsecPerSec * (j \div NsecPerSec) \in 0 .. NsecPerSec - 1
           /\ j < NsecPerSec => j \div NsecPerSec = 0
           /\ j >= NsecPerSec => j \div NsecPerSec > 0
BY NsecAssumption

(* A number of nanoseconds below one second has no whole second in it,     *)
(* whatever its sign.                                                      *)
LEMMA SubSecond ==
    ASSUME NEW j \in Int, j < NsecPerSec, -NsecPerSec < j
    PROVE  Quot(j, NsecPerSec) = 0 /\ Rem(j, NsecPerSec) = j
<1>1. NsecPerSec \in Int
  BY NsecAssumption
<1>2. Quot(j, NsecPerSec) = 0
  <2>1. CASE j >= 0
    BY <1>1, <2>1, Division DEF Quot
  <2>2. CASE j < 0
    <3>1. -j \in Nat /\ -j < NsecPerSec
      BY <1>1, <2>2
    <3>2. (-j) \div NsecPerSec = 0
      BY <3>1, Division
    <3> QED
      BY <2>2, <3>2 DEF Quot
  <2> QED
    BY <2>1, <2>2
<1> QED
  BY <1>1, <1>2 DEF Rem

(* The conversion of a duration that is not negative loses nothing.        *)
LEMMA ChronoTime ==
    ASSUME NEW d \in Nat
    PROVE  FromChrono(d) \in Time /\ Nsec(FromChrono(d)) = d
<1>1. NsecPerSec \in Int
  BY NsecAssumption
<1>2. Quot(d, NsecPerSec) \in Nat /\ Rem(d, NsecPerSec) \in 0 .. NsecPerSec - 1
  BY Division DEF Quot, Rem
<1>3. FromChrono(d) \in Time
  BY <1>2 DEF FromChrono, Time
<1>4. Quot(d, NsecPerSec) * NsecPerSec + Rem(d, NsecPerSec) = d
  BY <1>1, <1>2 DEF Rem
<1> QED
  BY <1>3, <1>4 DEF FromChrono, Nsec

(* Nor does that of a negative one, but its fields are negative: the       *)
(* seconds only from minus one second downwards.                           *)
LEMMA ChronoNegative ==
    ASSUME NEW d \in Int, d < 0
    PROVE  /\ d > -NsecPerSec => FromChrono(d) = [tv_sec |-> 0, tv_nsec |-> d]
           /\ d <= -NsecPerSec => FromChrono(d).tv_sec \in Int /\ FromChrono(d).tv_sec < 0
<1>1. NsecPerSec \in Int /\ NsecPerSec > 0
  BY NsecAssumption
<1>2. CASE d > -NsecPerSec
  BY <1>1, <1>2, SubSecond DEF FromChrono
<1>3. CASE d <= -NsecPerSec
  <2>1. -d \in Nat /\ -d >= NsecPerSec
    BY <1>1, <1>3
  <2>2. (-d) \div NsecPerSec \in Nat /\ (-d) \div NsecPerSec > 0
    BY <2>1, Division
  <2>3. Quot(d, NsecPerSec) \in Int /\ Quot(d, NsecPerSec) < 0
    BY <2>2 DEF Quot
  <2> QED
    BY <1>1, <1>3, <2>3 DEF FromChrono
<1> QED
  BY <1>1, <1>2, <1>3

(* The fields of a finite time, and that it stands for a natural number.   *)
LEMMA NsecType ==
    ASSUME NEW t \in Time
    PROVE  /\ t.tv_sec \in Nat /\ t.tv_nsec \in Nat /\ t.tv_nsec < NsecPerSec
           /\ Nsec(t) \in Nat
<1>1. NsecPerSec \in Int /\ NsecPerSec > 0
  BY NsecAssumption
<1>2. t.tv_sec \in Nat /\ t.tv_nsec \in Nat /\ t.tv_nsec < NsecPerSec
  BY <1>1 DEF Time
<1>3. t.tv_sec * NsecPerSec \in Nat
  BY <1>1, <1>2
<1> QED
  BY <1>2, <1>3 DEF Nsec

(* timespec_cmp orders finite times by the nanoseconds they stand for.     *)
LEMMA CompareTimes ==
    ASSUME NEW t \in Time, NEW u \in Time
    PROVE  /\ timespec_cmp(t, u) \in {-1, 0, 1}
           /\ timespec_cmp(t, u) > 0 <=> Nsec(t) > Nsec(u)
           /\ timespec_cmp(t, u) < 0 <=> Nsec(t) < Nsec(u)
<1>1. NsecPerSec \in Int /\ NsecPerSec > 0
  BY NsecAssumption
<1>2. /\ t.tv_sec \in Nat /\ t.tv_nsec \in Nat /\ t.tv_nsec < NsecPerSec
      /\ u.tv_sec \in Nat /\ u.tv_nsec \in Nat /\ u.tv_nsec < NsecPerSec
      /\ Nsec(t) \in Nat /\ Nsec(u) \in Nat
  BY NsecType
<1>3. CASE t.tv_sec = u.tv_sec
  <2>1. timespec_cmp(t, u) = IF t.tv_nsec > u.tv_nsec THEN 1
                             ELSE IF t.tv_nsec < u.tv_nsec THEN -1 ELSE 0
    BY <1>2, <1>3 DEF timespec_cmp
  <2>2. Nsec(t) - Nsec(u) = t.tv_nsec - u.tv_nsec
    BY <1>1, <1>2, <1>3 DEF Nsec
  <2> QED
    BY <1>2, <2>1, <2>2
<1>4. CASE t.tv_sec > u.tv_sec
  <2>1. timespec_cmp(t, u) = 1
    BY <1>2, <1>4 DEF timespec_cmp
  <2>2. u.tv_sec * NsecPerSec + NsecPerSec <= t.tv_sec * NsecPerSec
    BY <1>2, <1>4, Seconds
  <2>3. Nsec(t) > Nsec(u)
    BY <1>1, <1>2, <2>2 DEF Nsec
  <2> QED
    BY <1>2, <2>1, <2>3
<1>5. CASE t.tv_sec < u.tv_sec
  <2>1. timespec_cmp(t, u) = -1
    BY <1>2, <1>5 DEF timespec_cmp
  <2>2. t.tv_sec * NsecPerSec + NsecPerSec <= u.tv_sec * NsecPerSec
    BY <1>2, <1>5, Seconds
  <2>3. Nsec(t) < Nsec(u)
    BY <1>1, <1>2, <2>2 DEF Nsec
  <2> QED
    BY <1>2, <2>1, <2>3
<1> QED
  BY <1>2, <1>3, <1>4, <1>5

(* timespec_add carries: the sum of two finite times is one.               *)
LEMMA AddTimes ==
    ASSUME NEW t \in Time, NEW u \in Time
    PROVE  /\ timespec_add(t, u) \in Time
           /\ Nsec(timespec_add(t, u)) = Nsec(t) + Nsec(u)
<1>1. NsecPerSec \in Int /\ NsecPerSec > 0
  BY NsecAssumption
<1>2. /\ t.tv_sec \in Nat /\ t.tv_nsec \in Nat /\ t.tv_nsec < NsecPerSec
      /\ u.tv_sec \in Nat /\ u.tv_nsec \in Nat /\ u.tv_nsec < NsecPerSec
  BY NsecType
<1> DEFINE n == t.tv_nsec + u.tv_nsec
           q == n \div NsecPerSec
<1>3. n \in Nat
  BY <1>2
<1>4. q \in Nat /\ n - NsecPerSec * q \in 0 .. NsecPerSec - 1
  BY <1>3, Division
<1>5. Quot(n, NsecPerSec) = q /\ Rem(n, NsecPerSec) = n - NsecPerSec * q
  BY <1>3 DEF Quot, Rem
<1>6. timespec_add(t, u) = [tv_sec  |-> t.tv_sec + u.tv_sec + q,
                            tv_nsec |-> n - NsecPerSec * q]
  BY <1>2, <1>5 DEF timespec_add
<1>7. timespec_add(t, u) \in Time
  <2> HIDE DEF q, n
  <2> QED
    BY <1>2, <1>4, <1>6 DEF Time
<1>8. Nsec(timespec_add(t, u)) = (t.tv_sec + u.tv_sec + q) * NsecPerSec + (n - NsecPerSec * q)
  <2> HIDE DEF q, n
  <2> QED
    BY <1>6 DEF Nsec
<1>9. (t.tv_sec + u.tv_sec + q) * NsecPerSec + (n - NsecPerSec * q)
        = (t.tv_sec * NsecPerSec + t.tv_nsec) + (u.tv_sec * NsecPerSec + u.tv_nsec)
  <2>1. n = t.tv_nsec + u.tv_nsec
    OBVIOUS
  <2> HIDE DEF q, n
  <2> QED
    BY <1>1, <1>2, <1>3, <1>4, <2>1
<1> QED
  BY <1>7, <1>8, <1>9 DEF Nsec

(* timespec_diff of two finite times is their distance, a finite time.     *)
LEMMA DiffTimes ==
    ASSUME NEW t \in Time, NEW u \in Time
    PROVE  /\ timespec_diff(t, u) \in Time
           /\ Nsec(timespec_diff(t, u)) = IF Nsec(t) > Nsec(u) THEN Nsec(t) - Nsec(u)
                                                               ELSE Nsec(u) - Nsec(t)
<1>1. NsecPerSec \in Int /\ NsecPerSec > 0
  BY NsecAssumption
<1> DEFINE x == IF timespec_cmp(t, u) > 0 THEN t ELSE u
           y == IF timespec_cmp(t, u) > 0 THEN u ELSE t
<1>2. Nsec(t) \in Nat /\ Nsec(u) \in Nat /\ t.tv_sec \in Nat /\ u.tv_sec \in Nat
  BY NsecType
<1>3. /\ x \in Time /\ y \in Time
      /\ Nsec(x) >= Nsec(y)
      /\ Nsec(x) - Nsec(y) = IF Nsec(t) > Nsec(u) THEN Nsec(t) - Nsec(u)
                                                  ELSE Nsec(u) - Nsec(t)
  BY <1>2, CompareTimes
<1>4. timespec_diff(t, u) =
          IF x.tv_nsec - y.tv_nsec < 0
          THEN [tv_sec  |-> x.tv_sec - y.tv_sec - 1,
                tv_nsec |-> x.tv_nsec - y.tv_nsec + NsecPerSec]
          ELSE [tv_sec |-> x.tv_sec - y.tv_sec, tv_nsec |-> x.tv_nsec - y.tv_nsec]
  BY <1>2 DEF timespec_diff
<1> HIDE DEF x, y
<1>5. /\ x.tv_sec \in Nat /\ x.tv_nsec \in Nat /\ x.tv_nsec < NsecPerSec
      /\ y.tv_sec \in Nat /\ y.tv_nsec \in Nat /\ y.tv_nsec < NsecPerSec
      /\ Nsec(x) \in Nat /\ Nsec(y) \in Nat
  BY <1>3, NsecType
<1>6. x.tv_sec >= y.tv_sec
  <2> SUFFICES ASSUME x.tv_sec < y.tv_sec PROVE FALSE
    BY <1>5
  <2>1. x.tv_sec * NsecPerSec + NsecPerSec <= y.tv_sec * NsecPerSec
    BY <1>5, Seconds
  <2> QED
    BY <1>1, <1>3, <1>5, <2>1 DEF Nsec
<1>7. x.tv_sec = y.tv_sec => x.tv_nsec >= y.tv_nsec
  BY <1>1, <1>3, <1>5 DEF Nsec
<1>8. CASE x.tv_nsec - y.tv_nsec < 0
  <2>1. timespec_diff(t, u) = [tv_sec  |-> x.tv_sec - y.tv_sec - 1,
                               tv_nsec |-> x.tv_nsec - y.tv_nsec + NsecPerSec]
    BY <1>4, <1>8
  <2>2. timespec_diff(t, u) \in Time
    BY <1>1, <1>5, <1>6, <1>7, <1>8, <2>1 DEF Time
  <2>3. (x.tv_sec - y.tv_sec - 1) * NsecPerSec + (x.tv_nsec - y.tv_nsec + NsecPerSec)
          = (x.tv_sec * NsecPerSec + x.tv_nsec) - (y.tv_sec * NsecPerSec + y.tv_nsec)
    BY <1>1, <1>5
  <2>4. Nsec(timespec_diff(t, u)) = Nsec(x) - Nsec(y)
    BY <2>1, <2>3 DEF Nsec
  <2> QED
    BY <1>3, <2>2, <2>4
<1>9. CASE ~(x.tv_nsec - y.tv_nsec < 0)
  <2>1. timespec_diff(t, u) = [tv_sec  |-> x.tv_sec - y.tv_sec,
                               tv_nsec |-> x.tv_nsec - y.tv_nsec]
    BY <1>4, <1>9
  <2>2. timespec_diff(t, u) \in Time
    BY <1>1, <1>5, <1>6, <1>9, <2>1 DEF Time
  <2>3. (x.tv_sec - y.tv_sec) * NsecPerSec + (x.tv_nsec - y.tv_nsec)
          = (x.tv_sec * NsecPerSec + x.tv_nsec) - (y.tv_sec * NsecPerSec + y.tv_nsec)
    BY <1>1, <1>5
  <2>4. Nsec(timespec_diff(t, u)) = Nsec(x) - Nsec(y)
    BY <2>1, <2>3 DEF Nsec
  <2> QED
    BY <1>3, <2>2, <2>4
<1> QED
  BY <1>8, <1>9

-----------------------------------------------------------------------------
(* The timeout of a spin *)

(* No timeout, or one that was taken for none.                             *)
NoTimeout ==
    /\ timeout_time.tv_sec \in Int /\ timeout_time.tv_sec < 0
    /\ due = Never \/ due <= Nsec(clock) - NsecPerSec

FiniteTimeout == timeout_time \in Time /\ Nsec(timeout_time) = due

(* A timeout of less than a second before now, which timespec_add leaves   *)
(* with negative nanoseconds: the first iteration is the last.             *)
PastTimeout ==
    /\ state = "iterated"
    /\ timeout_time.tv_sec = clock.tv_sec
    /\ timeout_time.tv_nsec \in Int /\ timeout_time.tv_nsec < 0
    /\ Nsec(timeout_time) = due

DeadlineSet ==
    /\ next_deadline \in Time
    /\ timeout_time.tv_sec >= 0 => Nsec(next_deadline) <= due

(* The inductive invariant: what the fields of the timeout look like, and  *)
(* that a deadline is only set for a timeout that has not passed.          *)
SpinTimeoutInv ==
    /\ clock \in Time
    /\ due \in Int
    /\ Spinning => NoTimeout \/ FiniteTimeout \/ PastTimeout
    /\ state \in {"deadline", "asleep"} => DeadlineSet
    /\ state = "asleep" => stimeout = timespec_diff(next_deadline, clock)

(* The clock shows a finite time that never decreases.                     *)
LEMMA ClockAdvances ==
    ASSUME clock \in Time, NEW d \in Nat, Later(d)
    PROVE  clock' \in Time /\ Nsec(clock') >= Nsec(clock)
<1>1. Nsec(clock) \in Nat
  BY NsecType
<1>2. Nsec(clock) + d \in Nat
  BY <1>1
<1>3. clock' \in Time /\ Nsec(clock') = Nsec(clock) + d
  BY <1>2, ChronoTime DEF Later
<1> QED
  BY <1>1, <1>3

(* A timeout with negative nanoseconds has passed.                         *)
LEMMA PastIsTimedOut ==
    ASSUME clock \in Time, PastTimeout
    PROVE  TimedOut
BY NsecType DEF PastTimeout, TimedOut, timespec_cmp

(* A spin without a timeout has none later either.                         *)
LEMMA NoTimeoutLasts ==
    ASSUME clock \in Time, clock' \in Time, Nsec(clock') >= Nsec(clock), due \in Int,
           NoTimeout, UNCHANGED <<due, timeout_time>>
    PROVE  NoTimeout'
<1>1. Nsec(clock) \in Nat /\ Nsec(clock') \in Nat /\ NsecPerSec \in Int
  BY NsecType, NsecAssumption
<1> QED
  BY <1>1 DEF NoTimeout, Never

(* spin_for with any duration.                                             *)
LEMMA SpinForTimeout ==
    ASSUME SpinTimeoutInv, NEW d \in Int, SpinFor(d)
    PROVE  due' \in Int /\ (NoTimeout \/ FiniteTimeout \/ PastTimeout)'
<1> DEFINE t == FromChrono(d)
<1>1. clock \in Time /\ NsecPerSec \in Int /\ NsecPerSec > 0
  BY NsecAssumption DEF SpinTimeoutInv
<1>2. /\ clock.tv_sec \in Nat /\ clock.tv_nsec \in Nat /\ clock.tv_nsec < NsecPerSec
      /\ Nsec(clock) \in Nat
  BY <1>1, NsecType
<1>3. /\ due' = Nsec(clock) + d
      /\ timeout_time' = timespec_add(clock, t)
      /\ clock' = clock /\ state' = "iterated"
  BY DEF SpinFor, StartSpin
<1>4. CASE d >= 0
  <2>1. t \in Time /\ Nsec(t) = d
    BY <1>4, ChronoTime
  <2>2. timespec_add(clock, t) \in Time /\ Nsec(timespec_add(clock, t)) = Nsec(clock) + d
    BY <1>1, <2>1, AddTimes
  <2> QED
    BY <1>2, <1>3, <2>2 DEF FiniteTimeout, Nsec
<1>5. CASE d <= -NsecPerSec
  <2>1. t.tv_sec \in Int /\ t.tv_sec < 0
    BY <1>1, <1>5, ChronoNegative
  <2>2. timeout_time' = TIMESPEC_INF_INIT
    BY <1>3, <2>1 DEF timespec_add
  <2>3. timeout_time'.tv_sec = -1
    BY <2>2 DEF TIMESPEC_INF_INIT
  <2>4. Nsec(clock)' = Nsec(clock)
    BY <1>3 DEF Nsec
  <2> QED
    BY <1>1, <1>2, <1>3, <1>5, <2>3, <2>4 DEF NoTimeout
<1>6. CASE d < 0 /\ d > -NsecPerSec
  <2>1. t.tv_sec = 0 /\ t.tv_nsec = d
    BY <1>6, ChronoNegative
  <2>2. clock.tv_nsec + d < NsecPerSec /\ -NsecPerSec < clock.tv_nsec + d
    BY <1>1, <1>2, <1>6
  <2>3. /\ Quot(clock.tv_nsec + d, NsecPerSec) = 0
        /\ Rem(clock.tv_nsec + d, NsecPerSec) = clock.tv_nsec + d
    BY <1>2, <2>2, SubSecond
  <2>4. timeout_time' = [tv_sec |-> clock.tv_sec, tv_nsec |-> clock.tv_nsec + d]
    <3> HIDE DEF t
    <3> QED
      BY <1>2, <1>3, <2>1, <2>3 DEF timespec_add
  <2>5. timeout_time'.tv_sec = clock.tv_sec /\ timeout_time'.tv_nsec = clock.tv_nsec + d
    BY <2>4
  <2>6. Nsec(timeout_time') = due'
    <3>1. Nsec(timeout_time') = clock.tv_sec * NsecPerSec + (clock.tv_nsec + d)
      BY <2>5 DEF Nsec
    <3>2. clock.tv_sec * NsecPerSec \in Int
      BY <1>1, <1>2
    <3>3. due' = (clock.tv_sec * NsecPerSec + clock.tv_nsec) + d
      BY <1>3 DEF Nsec
    <3> QED
      BY <1>2, <3>1, <3>2, <3>3
  <2>7. CASE clock.tv_nsec + d >= 0
    <3>1. timeout_time' \in Time
      BY <1>1, <1>2, <2>2, <2>4, <2>7 DEF Time
    <3> QED
      BY <1>2, <1>3, <2>6, <3>1 DEF FiniteTimeout, Nsec
  <2>8. CASE clock.tv_nsec + d < 0
    <3>1. PastTimeout'
      BY <1>2, <1>3, <2>5, <2>6, <2>8 DEF PastTimeout, Nsec
    <3> QED
      BY <1>2, <1>3, <3>1
  <2> QED
    BY <1>2, <2>7, <2>8
<1> QED
  BY <1>1, <1>4, <1>5, <1>6

(* The deadline is a finite time, and not after the timeout.               *)
LEMMA DeadlineIsSet ==
    ASSUME SpinTimeoutInv, NEW step \in Nat, SetDeadline(step)
    PROVE  (NoTimeout \/ FiniteTimeout)' /\ DeadlineSet'
<1> DEFINE timer == timespec_add(clock, FromChrono(step))
<1>1. clock \in Time /\ due \in Int /\ Spinning
  BY DEF SpinTimeoutInv, SetDeadline, Spinning
<1>2. /\ next_deadline' = EarliestDeadline(timer)
      /\ due' = due /\ timeout_time' = timeout_time /\ clock' = clock
  BY DEF SetDeadline
<1>3. timer \in Time
  BY <1>1, ChronoTime, AddTimes
<1>4. ~PastTimeout
  BY <1>1, PastIsTimedOut DEF SetDeadline
<1>5. NoTimeout \/ FiniteTimeout
  BY <1>1, <1>4 DEF SpinTimeoutInv
<1>6. (NoTimeout \/ FiniteTimeout)'
  BY <1>2, <1>5 DEF NoTimeout, FiniteTimeout, Nsec, Never
<1> HIDE DEF timer
<1>7. timer.tv_sec \in Nat /\ Nsec(timer) \in Nat
  BY <1>3, NsecType
<1>8. CASE NoTimeout
  <2>1. next_deadline' = timer
    BY <1>2, <1>7, <1>8 DEF EarliestDeadline, timespec_cmp, NoTimeout
  <2> QED
    BY <1>2, <1>3, <1>6, <1>8, <2>1 DEF DeadlineSet, NoTimeout
<1>9. CASE FiniteTimeout
  <2>1. Nsec(timeout_time) \in Nat /\ timeout_time \in Time /\ Nsec(timeout_time) = due
    BY <1>9, NsecType DEF FiniteTimeout
  <2>2. CASE timespec_cmp(timeout_time, timer) > 0
    <3>1. next_deadline' = timer /\ Nsec(timer) < due
      BY <1>2, <1>3, <2>1, <2>2, CompareTimes DEF EarliestDeadline
    <3>2. Nsec(next_deadline)' = Nsec(timer)
      BY <3>1 DEF Nsec
    <3> QED
      BY <1>2, <1>3, <1>6, <1>7, <2>1, <3>1, <3>2 DEF DeadlineSet
  <2>3. CASE ~(timespec_cmp(timeout_time, timer) > 0)
    <3>1. next_deadline' = timeout_time
      BY <1>2, <2>3 DEF EarliestDeadline
    <3>2. Nsec(next_deadline)' = Nsec(timeout_time)
      BY <3>1 DEF Nsec
    <3> QED
      BY <1>2, <1>6, <2>1, <3>1, <3>2 DEF DeadlineSet
  <2> QED
    BY <2>2, <2>3
<1> QED
  BY <1>5, <1>8, <1>9

(* While the thread sleeps, only the clock moves.                          *)
LEMMA SleepKeepsTimeout ==
    ASSUME SpinTimeoutInv, NEW d \in Nat, Later(d), state \in {"deadline", "asleep"},
           UNCHANGED <<due, timeout_time, next_deadline>>
    PROVE  /\ clock' \in Time /\ due' \in Int
           /\ (NoTimeout \/ FiniteTimeout)'
           /\ DeadlineSet'
<1>1. clock \in Time /\ due \in Int /\ DeadlineSet
  BY DEF SpinTimeoutInv
<1>2. clock' \in Time /\ Nsec(clock') >= Nsec(clock)
  BY <1>1, ClockAdvances
<1>3. NoTimeout \/ FiniteTimeout
  BY DEF SpinTimeoutInv, Spinning, PastTimeout
<1>4. (NoTimeout \/ FiniteTimeout)'
  <2>1. CASE NoTimeout
    BY <1>1, <1>2, <2>1, NoTimeoutLasts
  <2>2. CASE FiniteTimeout
    BY <2>2 DEF FiniteTimeout, Nsec
  <2> QED
    BY <1>3, <2>1, <2>2
<1>5. DeadlineSet'
  BY <1>1 DEF DeadlineSet, Nsec
<1> QED
  BY <1>1, <1>2, <1>4, <1>5

(* The invariant holds before the first spin.                              *)
LEMMA SpinTimeoutStart ==
    SpinTimeoutInit => SpinTimeoutInv
<1> SUFFICES ASSUME SpinTimeoutInit PROVE SpinTimeoutInv
  OBVIOUS
<1>1. clock \in Time
  BY ChronoTime DEF SpinTimeoutInit
<1>2. due \in Int
  BY SpinTimeAssumption DEF SpinTimeoutInit, Never
<1>3. ~Spinning /\ state = "idle"
  BY DEF SpinTimeoutInit, Spinning
<1> QED
  BY <1>1, <1>2, <1>3 DEF SpinTimeoutInv

(* Every step keeps it.                                                    *)
LEMMA SpinTimeoutStep ==
    SpinTimeoutInv /\ [SpinTimeoutNext]_spinVars => SpinTimeoutInv'
<1> SUFFICES ASSUME SpinTimeoutInv, [SpinTimeoutNext]_spinVars
             PROVE  SpinTimeoutInv'
  OBVIOUS
<1>1. clock \in Time /\ due \in Int
  BY DEF SpinTimeoutInv
<1>2. ASSUME NEW d \in Duration, SpinFor(d)
      PROVE  SpinTimeoutInv'
  <2>1. d \in Int
    BY SpinTimeAssumption
  <2>2. due' \in Int /\ (NoTimeout \/ FiniteTimeout \/ PastTimeout)'
    BY <1>2, <2>1, SpinForTimeout
  <2>3. clock' = clock /\ state' = "iterated"
    BY <1>2 DEF SpinFor, StartSpin
  <2> QED
    BY <1>1, <2>2, <2>3 DEF SpinTimeoutInv
<1>3. ASSUME NEW d \in Duration, SpinUntil(d)
      PROVE  SpinTimeoutInv'
  <2>1. d \in Nat
    BY <1>3, SpinTimeAssumption DEF SpinUntil
  <2>2. timeout_time' = FromChrono(d) /\ due' = d /\ clock' = clock /\ state' = "iterated"
    BY <1>3 DEF SpinUntil, StartSpin
  <2>3. FiniteTimeout'
    BY <2>1, <2>2, ChronoTime DEF FiniteTimeout, Nsec
  <2> QED
    BY <1>1, <2>1, <2>2, <2>3 DEF SpinTimeoutInv
<1>4. CASE SpinForever
  <2>1. /\ timeout_time' = TIMESPEC_INF /\ due' = Never
        /\ clock' = clock /\ state' = "iterated"
    BY <1>4 DEF SpinForever, StartSpin
  <2>2. NoTimeout'
    BY <2>1 DEF NoTimeout, TIMESPEC_INF, Never
  <2>3. due' \in Int
    BY <2>1, SpinTimeAssumption DEF Never
  <2> QED
    BY <1>1, <2>1, <2>2, <2>3 DEF SpinTimeoutInv
<1>5. CASE SpinReturn \/ SpinAgain
  <2>1. state' \in {"returned", "idle"} /\ clock' = clock /\ due' = due
    BY <1>5 DEF SpinReturn, SpinAgain
  <2> QED
    BY <1>1, <2>1 DEF SpinTimeoutInv, Spinning
<1>6. ASSUME NEW step \in TimerStep, SetDeadline(step)
      PROVE  SpinTimeoutInv'
  <2>1. step \in Nat
    BY SpinTimeAssumption
  <2>2. (NoTimeout \/ FiniteTimeout)' /\ DeadlineSet'
    BY <1>6, <2>1, DeadlineIsSet
  <2>3. clock' = clock /\ due' = due /\ state' = "deadline"
    BY <1>6 DEF SetDeadline
  <2> QED
    BY <1>1, <2>2, <2>3 DEF SpinTimeoutInv
<1>7. ASSUME NEW d \in Pass, ComputeSleep(d)
      PROVE  SpinTimeoutInv'
  <2>1. d \in Nat /\ Later(d)
    BY <1>7, SpinTimeAssumption DEF ComputeSleep
  <2>2. /\ clock' \in Time /\ due' \in Int
        /\ (NoTimeout \/ FiniteTimeout)' /\ DeadlineSet'
    BY <1>7, <2>1, SleepKeepsTimeout DEF ComputeSleep
  <2>3. /\ stimeout' = timespec_diff(next_deadline, clock')
        /\ next_deadline' = next_deadline /\ state' = "asleep"
    BY <1>7 DEF ComputeSleep
  <2> QED
    BY <2>2, <2>3 DEF SpinTimeoutInv
<1>8. ASSUME NEW d \in 0 .. MaxNsec, SleepInterrupted(d) \/ SleepEnds(d)
      PROVE  SpinTimeoutInv'
  <2>1. d \in Nat /\ Later(d)
    BY <1>8, SpinTimeAssumption DEF SleepInterrupted, SleepEnds
  <2>2. /\ clock' \in Time /\ due' \in Int
        /\ (NoTimeout \/ FiniteTimeout)' /\ DeadlineSet'
    BY <1>8, <2>1, SleepKeepsTimeout DEF SleepInterrupted, SleepEnds
  <2>3. state' \in {"deadline", "iterated"}
    BY <1>8 DEF SleepInterrupted, SleepEnds
  <2> QED
    BY <2>2, <2>3 DEF SpinTimeoutInv
<1>9. CASE UNCHANGED spinVars
  BY <1>9 DEF spinVars, SpinTimeoutInv, Spinning, NoTimeout, FiniteTimeout, PastTimeout,
              DeadlineSet, Nsec
<1> QED
  BY <1>2, <1>3, <1>4, <1>5, <1>6, <1>7, <1>8, <1>9 DEF SpinTimeoutNext

(* The inductive invariant of the timeout of a spin.                       *)
THEOREM SpinTimeoutInvariance == SpinTimeoutSpec => []SpinTimeoutInv
<1> QED
  BY SpinTimeoutStart, SpinTimeoutStep, PTL DEF SpinTimeoutSpec

(* The timeout given to the wrapper is the time at which the spin ends,    *)
(* for any duration: only one of minus a second or less is lost, and taken *)
(* for none (uccn_spin's timespec_add).                                    *)
THEOREM TimeoutAlwaysKept == SpinTimeoutSpec => []TimeoutKept
<1>1. SpinTimeoutInv => TimeoutKept
  <2> SUFFICES ASSUME SpinTimeoutInv, Spinning PROVE TimeoutKept
    BY DEF TimeoutKept
  <2>1. CASE NoTimeout
    BY <2>1 DEF NoTimeout, TimeoutKept
  <2>2. CASE FiniteTimeout
    BY <2>2, NsecType DEF FiniteTimeout, TimeoutKept
  <2>3. CASE PastTimeout
    <3>1. clock.tv_sec \in Nat
      BY NsecType DEF SpinTimeoutInv
    <3> QED
      BY <2>3, <3>1 DEF PastTimeout, TimeoutKept
  <2> QED
    BY <2>1, <2>2, <2>3 DEF SpinTimeoutInv
<1> QED
  BY <1>1, SpinTimeoutInvariance, PTL

(* The assertion on the deadline in uccn_spin_until never fails, whatever  *)
(* the timeout.                                                            *)
THEOREM DeadlineAlwaysFinite == SpinTimeoutSpec => []DeadlineFinite
<1>1. SpinTimeoutInv => DeadlineFinite
  BY NsecType DEF SpinTimeoutInv, DeadlineSet, DeadlineFinite
<1> QED
  BY <1>1, SpinTimeoutInvariance, PTL

(* The loop of uccn_spin_until never sleeps past its timeout, but for the  *)
(* time by which it was late before it slept.                              *)
THEOREM AlwaysSleepsInTime == SpinTimeoutSpec => []SleepsInTime
<1>1. SpinTimeoutInv => SleepsInTime
  <2> SUFFICES ASSUME SpinTimeoutInv, state = "asleep", timeout_time.tv_sec >= 0
               PROVE  SleepsInTime
    BY DEF SleepsInTime
  <2>1. /\ clock \in Time /\ next_deadline \in Time /\ due \in Int
        /\ Nsec(next_deadline) <= due
        /\ stimeout = timespec_diff(next_deadline, clock)
    BY DEF SpinTimeoutInv, DeadlineSet
  <2>2. Nsec(clock) \in Nat /\ Nsec(next_deadline) \in Nat
    BY <2>1, NsecType
  <2>3. /\ stimeout \in Time
        /\ Nsec(stimeout) = IF Nsec(next_deadline) > Nsec(clock)
                            THEN Nsec(next_deadline) - Nsec(clock)
                            ELSE Nsec(clock) - Nsec(next_deadline)
    BY <2>1, DiffTimes
  <2> QED
    BY <2>1, <2>2, <2>3 DEF SleepsInTime
<1> QED
  BY <1>1, SpinTimeoutInvariance, PTL

-----------------------------------------------------------------------------
(* The schedule of upoll *)

(* What upoll keeps of an entry: one that was never called is due at once, *)
(* one that was is due after a number of its periods, or never.            *)
EntryOnSchedule(p) ==
    IF calls[p] = 0 THEN upolls[p] = TIMESPEC_ZERO
    ELSE /\ first[p] > 0
         /\ IF Period[p] < 0
            THEN calls[p] = 1 /\ upolls[p].tv_sec \in Int /\ upolls[p].tv_sec < 0
            ELSE /\ upolls[p] \in Time
                 /\ Nsec(upolls[p]) = first[p] + calls[p] * Period[p]
                 /\ (calls[p] - 1) * Period[p] <= Nsec(wall) - first[p]

(* The inductive invariant.                                                *)
UpollInv ==
    /\ wall \in Time /\ Nsec(wall) > 0
    /\ calls \in [Poller -> Nat] /\ first \in [Poller -> Nat]
    /\ \A p \in Poller : EntryOnSchedule(p)
    /\ (\E p \in Poller : calls[p] > 0) => next_poll_time = EarliestPoll(upolls)

(* Every entry holds a finite time, or one that never comes.               *)
LEMMA EntryTime ==
    ASSUME UpollInv, NEW p \in Poller
    PROVE  upolls[p] \in Time \/ (upolls[p].tv_sec \in Int /\ upolls[p].tv_sec < 0)
<1>1. TIMESPEC_ZERO \in Time
  BY NsecAssumption DEF TIMESPEC_ZERO, Time
<1> QED
  BY <1>1 DEF UpollInv, EntryOnSchedule

(* An entry that was called and is due again: not the initial one.         *)
LEMMA CalledIsLater ==
    ASSUME UpollInv, NEW p \in Poller, calls[p] > 0, Period[p] > 0
    PROVE  upolls[p] # TIMESPEC_ZERO
<1>1. calls[p] \in Nat /\ first[p] \in Nat /\ first[p] > 0 /\ Period[p] \in Nat
  BY PeriodAssumption DEF UpollInv, EntryOnSchedule
<1>2. calls[p] * Period[p] \in Nat
  BY <1>1
<1>3. Nsec(upolls[p]) > 0
  BY <1>1, <1>2 DEF UpollInv, EntryOnSchedule
<1>4. Nsec(TIMESPEC_ZERO) = 0
  BY NsecAssumption DEF Nsec, TIMESPEC_ZERO
<1> QED
  BY <1>3, <1>4

(* One more period.                                                        *)
LEMMA OneMore ==
    ASSUME NEW c \in Int, NEW period \in Int
    PROVE  /\ c * period \in Int
           /\ (c + 1) * period = c * period + period
           /\ ((c + 1) - 1) * period = c * period
OBVIOUS

(* The times of upoll's array after a call of upoll.                       *)
LEMMA CallOnSchedule ==
    ASSUME UpollInv, upoll, NEW p \in Poller
    PROVE  calls'[p] \in Nat /\ first'[p] \in Nat /\ EntryOnSchedule(p)'
<1>1. /\ wall \in Time /\ Nsec(wall) \in Nat /\ Nsec(wall) > 0
      /\ wall.tv_sec \in Nat
  BY NsecType DEF UpollInv
<1>2. calls[p] \in Nat /\ first[p] \in Nat /\ EntryOnSchedule(p)
  BY DEF UpollInv
<1>3. Period[p] \in Int /\ Period[p] # 0
  BY PeriodAssumption
<1>4. /\ upolls'[p] = IF p \in DuePollers THEN Reschedule(p) ELSE upolls[p]
      /\ calls'[p] = IF p \in DuePollers THEN calls[p] + 1 ELSE calls[p]
      /\ first'[p] = IF p \in DuePollers /\ calls[p] = 0 THEN Nsec(wall) ELSE first[p]
      /\ wall' = wall
  BY DEF upoll
<1>5. Nsec(wall') = Nsec(wall)
  BY <1>4
<1>6. CASE p \notin DuePollers
  <2>1. upolls'[p] = upolls[p] /\ calls'[p] = calls[p] /\ first'[p] = first[p]
    BY <1>4, <1>6
  <2> QED
    BY <1>2, <1>5, <2>1 DEF EntryOnSchedule, Nsec
<1>7. CASE p \in DuePollers /\ Period[p] < 0
  <2>1. timespec_cmp(wall, upolls[p]) >= 0
    BY <1>7 DEF DuePollers
  <2>2. calls[p] = 0
    <3> SUFFICES ASSUME calls[p] # 0 PROVE FALSE
      OBVIOUS
    <3>1. upolls[p].tv_sec \in Int /\ upolls[p].tv_sec < 0
      BY <1>2, <1>7 DEF EntryOnSchedule
    <3> QED
      BY <1>1, <2>1, <3>1 DEF timespec_cmp
  <2>3. upolls'[p] = TIMESPEC_INF_INIT
    <3>1. polling_period(p) = TIMESPEC_INF
      BY <1>7 DEF polling_period
    <3>2. polling_period(p).tv_sec = -1
      BY <3>1 DEF TIMESPEC_INF
    <3> QED
      BY <1>4, <1>7, <3>2 DEF Reschedule, timespec_add
  <2>4. upolls'[p].tv_sec = -1 /\ calls'[p] = 1 /\ first'[p] = Nsec(wall)
    BY <1>4, <1>7, <2>2, <2>3 DEF TIMESPEC_INF_INIT
  <2> QED
    BY <1>1, <1>7, <2>4 DEF EntryOnSchedule
<1>8. CASE p \in DuePollers /\ Period[p] > 0
  <2>1. polling_period(p) \in Time /\ Nsec(polling_period(p)) = Period[p]
    <3>1. polling_period(p) = FromChrono(Period[p]) /\ Period[p] \in Nat
      BY <1>3, <1>8 DEF polling_period
    <3> QED
      BY <3>1, ChronoTime
  <2>2. CASE calls[p] = 0
    <3>1. upolls'[p] = timespec_add(wall, polling_period(p))
      BY <1>2, <1>4, <1>8, <2>2 DEF Reschedule, EntryOnSchedule
    <3>2. upolls'[p] \in Time /\ Nsec(upolls'[p]) = Nsec(wall) + Period[p]
      BY <1>1, <2>1, <3>1, AddTimes
    <3>3. calls'[p] = 1 /\ first'[p] = Nsec(wall)
      BY <1>4, <1>8, <2>2
    <3>4. (calls'[p] - 1) * Period[p] = 0 /\ calls'[p] * Period[p] = Period[p]
      BY <1>3, <3>3
    <3>5. /\ Nsec(upolls'[p]) = first'[p] + calls'[p] * Period[p]
          /\ (calls'[p] - 1) * Period[p] <= Nsec(wall') - first'[p]
      BY <1>1, <1>5, <3>2, <3>3, <3>4
    <3> QED
      BY <1>1, <1>3, <1>8, <3>2, <3>3, <3>5 DEF EntryOnSchedule, Nsec
  <2>3. CASE calls[p] # 0
    <3>1. calls[p] > 0
      BY <1>2, <2>3
    <3>2. /\ upolls[p] \in Time /\ first[p] > 0
          /\ Nsec(upolls[p]) = first[p] + calls[p] * Period[p]
      BY <1>2, <1>3, <1>8, <2>3 DEF EntryOnSchedule
    <3>3. Nsec(upolls[p]) <= Nsec(wall)
      <4>1. ~(timespec_cmp(wall, upolls[p]) < 0)
        BY <1>1, <1>8, <3>2, CompareTimes DEF DuePollers
      <4> QED
        BY <1>1, <3>2, <4>1, CompareTimes, NsecType
    <3>4. upolls'[p] = timespec_add(upolls[p], polling_period(p))
      BY <1>4, <1>8, <3>1, CalledIsLater DEF Reschedule
    <3>5. upolls'[p] \in Time /\ Nsec(upolls'[p]) = Nsec(upolls[p]) + Period[p]
      BY <2>1, <3>2, <3>4, AddTimes
    <3>6. calls'[p] = calls[p] + 1 /\ first'[p] = first[p]
      BY <1>4, <1>8, <2>3
    <3>7. /\ calls[p] * Period[p] \in Int
          /\ calls'[p] * Period[p] = calls[p] * Period[p] + Period[p]
          /\ (calls'[p] - 1) * Period[p] = calls[p] * Period[p]
      <4>1. calls[p] \in Int /\ Period[p] \in Int
        BY <1>2, <1>3
      <4>2. /\ calls[p] * Period[p] \in Int
            /\ (calls[p] + 1) * Period[p] = calls[p] * Period[p] + Period[p]
            /\ ((calls[p] + 1) - 1) * Period[p] = calls[p] * Period[p]
        BY <4>1, OneMore
      <4> QED
        BY <3>6, <4>2, Zenon
    <3>8. /\ Nsec(upolls'[p]) = first'[p] + calls'[p] * Period[p]
          /\ (calls'[p] - 1) * Period[p] <= Nsec(wall') - first'[p]
      BY <1>1, <1>2, <1>3, <1>5, <3>2, <3>3, <3>5, <3>6, <3>7
    <3>9. calls'[p] \in Nat /\ calls'[p] # 0 /\ first'[p] \in Nat /\ first'[p] > 0
      BY <1>2, <3>2, <3>6
    <3>10. ~(Period[p] < 0)
      BY <1>3, <1>8
    <3> QED
      BY <3>5, <3>8, <3>9, <3>10, Zenon DEF EntryOnSchedule
  <2> QED
    BY <2>2, <2>3
<1> QED
  BY <1>3, <1>6, <1>7, <1>8

(* The invariant holds before the first call of upoll.                     *)
LEMMA UpollStart ==
    UpollInit => UpollInv
<1> SUFFICES ASSUME UpollInit PROVE UpollInv
  OBVIOUS
<1>1. wall \in Time /\ Nsec(wall) = 1
  BY ChronoTime DEF UpollInit
<1> QED
  BY <1>1 DEF UpollInit, UpollInv, EntryOnSchedule

(* Every step keeps it.                                                    *)
LEMMA UpollStep ==
    UpollInv /\ [UpollNext]_upollVars => UpollInv'
<1> SUFFICES ASSUME UpollInv, [UpollNext]_upollVars PROVE UpollInv'
  OBVIOUS
<1>1. wall \in Time /\ Nsec(wall) \in Nat /\ Nsec(wall) > 0
  BY NsecType DEF UpollInv
<1>2. CASE upoll
  <2>1. wall' \in Time /\ Nsec(wall') > 0
    BY <1>1, <1>2 DEF upoll
  <2>2. \A p \in Poller : calls'[p] \in Nat /\ first'[p] \in Nat /\ EntryOnSchedule(p)'
    BY <1>2, CallOnSchedule
  <2>3. calls' \in [Poller -> Nat] /\ first' \in [Poller -> Nat]
    <3>1. /\ calls' = [p \in Poller |-> calls'[p]]
          /\ first' = [p \in Poller |-> first'[p]]
      BY <1>2 DEF upoll
    <3> QED
      BY <2>2, <3>1
  <2>4. next_poll_time' = EarliestPoll(upolls')
    BY <1>2 DEF upoll
  <2> QED
    BY <2>1, <2>2, <2>3, <2>4 DEF UpollInv, EarliestPoll, Nsec
<1>3. ASSUME NEW d \in 1 .. MaxClock, UpollPass(d)
      PROVE  UpollInv'
  <2>1. Nsec(wall) + d \in Nat
    BY <1>1, PeriodAssumption
  <2>2. wall' \in Time /\ Nsec(wall') = Nsec(wall) + d
    BY <1>3, <2>1, ChronoTime DEF UpollPass
  <2>3. Nsec(wall') > Nsec(wall)
    BY <1>1, <2>2, PeriodAssumption
  <2>4. /\ upolls' = upolls /\ next_poll_time' = next_poll_time
        /\ calls' = calls /\ first' = first
    BY <1>3 DEF UpollPass
  <2>5. ASSUME NEW p \in Poller PROVE EntryOnSchedule(p)'
    <3>1. calls[p] \in Nat /\ first[p] \in Nat /\ Period[p] \in Int /\ EntryOnSchedule(p)
      BY PeriodAssumption DEF UpollInv
    <3>2. (calls[p] - 1) * Period[p] \in Int /\ Nsec(wall') \in Nat
      BY <2>2, <3>1, NsecType
    <3>3. Nsec(upolls[p])' = Nsec(upolls[p])
      BY <2>4
    <3>4. (calls[p] - 1) * Period[p] <= Nsec(wall) - first[p]
            => (calls[p] - 1) * Period[p] <= Nsec(wall') - first[p]
      <4> DEFINE c == (calls[p] - 1) * Period[p]
      <4> HIDE DEF c
      <4>1. c \in Int
        BY <3>2 DEF c
      <4>2. c <= Nsec(wall) - first[p] => c <= Nsec(wall') - first[p]
        BY <1>1, <2>3, <3>1, <3>2, <4>1
      <4> QED
        BY <4>2 DEF c
    <3> QED
      BY <2>4, <3>1, <3>3, <3>4 DEF EntryOnSchedule
  <2> QED
    BY <1>1, <2>2, <2>3, <2>4, <2>5 DEF UpollInv, EarliestPoll, Nsec
<1>4. CASE UNCHANGED upollVars
  BY <1>4 DEF upollVars, UpollInv, EntryOnSchedule, EarliestPoll, Nsec
<1> QED
  BY <1>2, <1>3, <1>4 DEF UpollNext

(* The inductive invariant of the array of upoll.                          *)
THEOREM UpollInvariance == UpollSpec => []UpollInv
<1> QED
  BY UpollStart, UpollStep, PTL DEF UpollSpec

(* upoll's schedule never drifts and calls no function too often, for any  *)
(* periods and however late it is called.                                  *)
THEOREM AlwaysOnSchedule == UpollSpec => []OnSchedule
<1>1. UpollInv => OnSchedule
  <2> SUFFICES ASSUME UpollInv, NEW p \in Poller, calls[p] > 0
               PROVE  IF Period[p] < 0 THEN calls[p] = 1 /\ upolls[p].tv_sec < 0
                      ELSE /\ upolls[p] \in Time
                           /\ Nsec(upolls[p]) = first[p] + calls[p] * Period[p]
                           /\ (calls[p] - 1) * Period[p] <= Nsec(wall) - first[p]
    BY DEF OnSchedule
  <2>1. calls[p] # 0 /\ EntryOnSchedule(p)
    BY DEF UpollInv
  <2> QED
    BY <2>1, Zenon DEF EntryOnSchedule
<1> QED
  BY <1>1, UpollInvariance, PTL

(* A non-empty set of times has an earliest one.                           *)
LEMMA LeastExists ==
    ASSUME NEW T \in SUBSET Nat, T # {}
    PROVE  \E t \in T : \A u \in T : t <= u
<1> DEFINE R == OpToRel(<, Nat)
<1>1. PICK t \in T : \A u \in T : ~ (<<u, t>> \in R)
  <2> HIDE DEF R
  <2>1. IsWellFoundedOn(R, Nat)
    BY NatLessThanWellFounded DEF R
  <2> QED
    BY <2>1, WFMin
<1>2. ASSUME NEW u \in T, u < t PROVE FALSE
  <2>1. <<u, t>> \in R
    BY <1>2 DEF OpToRel
  <2> QED
    BY <1>1, <2>1
<1> QED
  BY <1>2

(* The entry that EarliestPoll chooses is due no later than any other.     *)
LEMMA EarliestIsFirst ==
    ASSUME NEW times, NEW coming \in SUBSET Poller, coming # {},
           \A p \in coming : times[p] \in Time
    PROVE  \E p \in coming : \A q \in coming : timespec_cmp(times[p], times[q]) <= 0
<1> DEFINE T == {Nsec(times[p]) : p \in coming}
<1>1. T \in SUBSET Nat /\ T # {}
  BY NsecType
<1>2. PICK t \in T : \A u \in T : t <= u
  <2> HIDE DEF T
  <2> QED
    BY <1>1, LeastExists
<1>3. PICK p \in coming : t = Nsec(times[p])
  BY <1>2
<1>4. ASSUME NEW q \in coming PROVE timespec_cmp(times[p], times[q]) <= 0
  <2>1. Nsec(times[p]) <= Nsec(times[q])
    BY <1>2, <1>3
  <2>2. Nsec(times[p]) \in Nat /\ Nsec(times[q]) \in Nat
    BY NsecType
  <2>3. /\ timespec_cmp(times[p], times[q]) \in {-1, 0, 1}
        /\ ~(timespec_cmp(times[p], times[q]) > 0)
    BY <2>1, <2>2, CompareTimes
  <2> QED
    BY <2>3
<1> QED
  BY <1>4

(* The time that upoll returns is that of the entry due first.             *)
THEOREM AlwaysWakeInTime == UpollSpec => []WakeInTime
<1>1. UpollInv => WakeInTime
  <2> SUFFICES ASSUME UpollInv, NEW b \in Poller, calls[b] > 0
               PROVE  /\ \A p \in Poller : timespec_cmp(next_poll_time, upolls[p]) <= 0
                      /\ \E p \in Poller : timespec_cmp(next_poll_time, upolls[p]) = 0
    BY DEF WakeInTime
  <2> DEFINE coming == {p \in Poller : timespec_cmp(TIMESPEC_INF_INIT, upolls[p]) > 0}
  <2>1. next_poll_time = EarliestPoll(upolls)
    BY DEF UpollInv
  <2>2. ASSUME NEW p \in coming PROVE upolls[p] \in Time
    <3>1. ~(upolls[p].tv_sec < 0)
      BY DEF timespec_cmp, TIMESPEC_INF_INIT
    <3> QED
      BY <3>1, EntryTime
  <2>3. ASSUME NEW p \in Poller \ coming
        PROVE  upolls[p].tv_sec \in Int /\ upolls[p].tv_sec < 0
    <3> SUFFICES ASSUME upolls[p] \in Time PROVE FALSE
      BY EntryTime
    <3>1. upolls[p].tv_sec \in Nat
      BY NsecType
    <3> QED
      BY <3>1 DEF timespec_cmp, TIMESPEC_INF_INIT
  <2>4. CASE coming = {}
    <3>1. next_poll_time = TIMESPEC_INF_INIT
      BY <2>1, <2>4 DEF EarliestPoll
    <3>2. ASSUME NEW p \in Poller PROVE timespec_cmp(next_poll_time, upolls[p]) = 0
      <4>1. upolls[p].tv_sec \in Int /\ upolls[p].tv_sec < 0
        BY <2>3, <2>4
      <4> QED
        BY <3>1, <4>1 DEF timespec_cmp, TIMESPEC_INF_INIT
    <3> QED
      BY <3>2
  <2>5. CASE coming # {}
    <3> DEFINE f == CHOOSE p \in coming : \A q \in coming :
                        timespec_cmp(upolls[p], upolls[q]) <= 0
    <3>1. next_poll_time = upolls[f]
      BY <2>1, <2>5 DEF EarliestPoll
    <3>2. /\ coming \in SUBSET Poller
          /\ \A p \in coming : upolls[p] \in Time
      BY <2>2
    <3>3. \E p \in coming : \A q \in coming : timespec_cmp(upolls[p], upolls[q]) <= 0
      <4> HIDE DEF coming
      <4> QED
        BY <2>5, <3>2, EarliestIsFirst
    <3>4. f \in coming /\ \A q \in coming : timespec_cmp(upolls[f], upolls[q]) <= 0
      <4> HIDE DEF coming
      <4> QED
        BY <3>3
    <3> HIDE DEF f
    <3>5. upolls[f].tv_sec \in Nat /\ upolls[f].tv_nsec \in Nat /\ f \in Poller
      BY <3>2, <3>4, NsecType
    <3>6. timespec_cmp(next_poll_time, upolls[f]) = 0
      BY <3>1, <3>5 DEF timespec_cmp
    <3>7. ASSUME NEW p \in Poller \ coming
          PROVE  timespec_cmp(next_poll_time, upolls[p]) <= 0
      <4>1. upolls[p].tv_sec \in Int /\ upolls[p].tv_sec < 0
        BY <2>3
      <4> QED
        BY <3>1, <3>5, <4>1 DEF timespec_cmp
    <3> HIDE DEF coming
    <3> QED
      BY <3>1, <3>4, <3>5, <3>6, <3>7
  <2> QED
    BY <2>4, <2>5
<1> QED
  BY <1>1, UpollInvariance, PTL

-----------------------------------------------------------------------------
(* The checksum of crc32.c *)

(* The bits of an exclusive or.                                            *)
LEMMA XorBits ==
    ASSUME NEW v, NEW w, NEW b
    PROVE  b \in Xor(v, w) <=> ~((b \in v) <=> (b \in w))
BY DEF Xor

(* The bits of a word that is shifted.                                     *)
LEMMA ShiftBits ==
    ASSUME NEW w \in Word, NEW k \in 0 .. 8
    PROVE  /\ ShiftRight(w, k) \in Word
           /\ \A b \in 0 .. 31 : b \in ShiftRight(w, k) <=> b + k \in w
<1>1. \A c \in w : c \in 0 .. 31
  BY DEF Word
<1> QED
  BY <1>1 DEF ShiftRight, Word

(* An exclusive or of words is a word.                                     *)
LEMMA XorWord ==
    ASSUME NEW v \in Word, NEW w \in Word
    PROVE  Xor(v, w) \in Word
BY DEF Xor, Word

(* Words with the same bits are the same.                                  *)
LEMMA SameBits ==
    ASSUME NEW v \in Word, NEW w \in Word,
           \A b \in 0 .. 31 : b \in v <=> b \in w
    PROVE  v = w
BY DEF Word

(* The polynomial has the bit that a word shifted to the right has not.    *)
LEMMA PolynomialBits ==
    Polynomial \in Word /\ 31 \in Polynomial
BY DEF Polynomial, Word

(* The bits of the register after one of the eight operations.             *)
LEMMA DivideBits ==
    ASSUME NEW r \in Word
    PROVE  /\ DivideBit(r) \in Word
           /\ \A b \in 0 .. 31 :
                  b \in DivideBit(r) <=> ~((b + 1 \in r) <=> (0 \in r /\ b \in Polynomial))
<1>1. /\ ShiftRight(r, 1) \in Word
      /\ \A b \in 0 .. 31 : b \in ShiftRight(r, 1) <=> b + 1 \in r
  BY ShiftBits
<1>2. CASE 0 \in r
  <2>1. DivideBit(r) = Xor(ShiftRight(r, 1), Polynomial)
    BY <1>2 DEF DivideBit
  <2>2. DivideBit(r) \in Word
    BY <1>1, <2>1, XorWord, PolynomialBits
  <2>3. ASSUME NEW b \in 0 .. 31
        PROVE  b \in DivideBit(r) <=> ~((b + 1 \in r) <=> (0 \in r /\ b \in Polynomial))
    <3>1. b \in DivideBit(r) <=> ~((b \in ShiftRight(r, 1)) <=> (b \in Polynomial))
      BY <2>1, XorBits
    <3>2. b \in ShiftRight(r, 1) <=> b + 1 \in r
      BY <1>1
    <3> QED
      BY <1>2, <3>1, <3>2
  <2> QED
    BY <2>2, <2>3
<1>3. CASE 0 \notin r
  <2>1. DivideBit(r) = ShiftRight(r, 1)
    BY <1>3 DEF DivideBit
  <2> QED
    BY <1>1, <1>3, <2>1
<1> QED
  BY <1>2, <1>3

(* The operation is linear: what it makes of an exclusive or is the        *)
(* exclusive or of what it makes of the two words.                         *)
LEMMA DivideBitLinear ==
    ASSUME NEW v \in Word, NEW w \in Word
    PROVE  DivideBit(Xor(v, w)) = Xor(DivideBit(v), DivideBit(w))
<1>1. Xor(v, w) \in Word
  BY XorWord
<1>2. DivideBit(Xor(v, w)) \in Word /\ Xor(DivideBit(v), DivideBit(w)) \in Word
  BY <1>1, DivideBits, XorWord
<1>3. ASSUME NEW b \in 0 .. 31
      PROVE  b \in DivideBit(Xor(v, w)) <=> b \in Xor(DivideBit(v), DivideBit(w))
  <2>1. b \in DivideBit(Xor(v, w))
          <=> ~((b + 1 \in Xor(v, w)) <=> (0 \in Xor(v, w) /\ b \in Polynomial))
    BY <1>1, DivideBits
  <2>2. /\ b \in DivideBit(v) <=> ~((b + 1 \in v) <=> (0 \in v /\ b \in Polynomial))
        /\ b \in DivideBit(w) <=> ~((b + 1 \in w) <=> (0 \in w /\ b \in Polynomial))
    BY DivideBits
  <2>3. /\ b + 1 \in Xor(v, w) <=> ~((b + 1 \in v) <=> (b + 1 \in w))
        /\ 0 \in Xor(v, w) <=> ~((0 \in v) <=> (0 \in w))
        /\ b \in Xor(DivideBit(v), DivideBit(w))
             <=> ~((b \in DivideBit(v)) <=> (b \in DivideBit(w)))
    BY XorBits
  <2> QED
    BY <2>1, <2>2, <2>3
<1> QED
  BY <1>2, <1>3, SameBits

(* So are the eight operations on a byte.                                  *)
LEMMA DivideByteLinear ==
    ASSUME NEW v \in Word, NEW w \in Word
    PROVE  DivideByte(Xor(v, w)) = Xor(DivideByte(v), DivideByte(w))
<1> DEFINE Two(r) == DivideBit(DivideBit(r))
           Four(r) == Two(Two(r))
<1>1. ASSUME NEW x \in Word, NEW y \in Word
      PROVE  Two(x) \in Word /\ Two(Xor(x, y)) = Xor(Two(x), Two(y))
  BY DivideBits, DivideBitLinear
<1> HIDE DEF Two
<1>2. ASSUME NEW x \in Word, NEW y \in Word
      PROVE  Four(x) \in Word /\ Four(Xor(x, y)) = Xor(Four(x), Four(y))
  BY <1>1
<1>3. ASSUME NEW r
      PROVE  DivideByte(r) = Four(Four(r))
  BY DEF DivideByte, Two
<1> HIDE DEF Four
<1> QED
  BY <1>2, <1>3

(* The eight operations yield a word.                                      *)
LEMMA DivideByteWord ==
    ASSUME NEW r \in Word
    PROVE  DivideByte(r) \in Word
<1>1. \A w \in Word : DivideBit(w) \in Word
  BY DivideBits
<1> QED
  BY <1>1, Zenon DEF DivideByte

(* As long as zeros leave the register, it is only shifted.                *)
LEMMA DivideShifts ==
    ASSUME NEW w \in Word, NEW k \in 0 .. 7, \A b \in 0 .. 7 : b \notin w
    PROVE  DivideBit(ShiftRight(w, k)) = ShiftRight(w, k + 1)
<1>1. /\ ShiftRight(w, k) \in Word
      /\ \A b \in 0 .. 31 : b \in ShiftRight(w, k) <=> b + k \in w
  BY ShiftBits
<1>2. 0 \notin ShiftRight(w, k)
  BY <1>1
<1>3. DivideBit(ShiftRight(w, k)) = ShiftRight(ShiftRight(w, k), 1)
  BY <1>2 DEF DivideBit
<1>4. ShiftRight(ShiftRight(w, k), 1) = ShiftRight(w, k + 1)
  <2>1. /\ ShiftRight(ShiftRight(w, k), 1) \in Word
        /\ \A b \in 0 .. 31 : b \in ShiftRight(ShiftRight(w, k), 1)
                                 <=> b + 1 \in ShiftRight(w, k)
    BY <1>1, ShiftBits
  <2>2. /\ ShiftRight(w, k + 1) \in Word
        /\ \A b \in 0 .. 31 : b \in ShiftRight(w, k + 1) <=> b + (k + 1) \in w
    BY ShiftBits
  <2>3. 32 \notin ShiftRight(w, k) /\ 32 + k \notin w
    BY <1>1 DEF Word
  <2>4. ASSUME NEW b \in 0 .. 31
        PROVE  b + 1 \in ShiftRight(w, k) <=> b + (k + 1) \in w
    <3>1. CASE b = 31
      BY <2>3, <3>1
    <3>2. CASE b # 31
      BY <1>1, <3>2
    <3> QED
      BY <3>1, <3>2
  <2> QED
    BY <2>1, <2>2, <2>4, SameBits
<1> QED
  BY <1>3, <1>4

(* A word whose low byte is zero is shifted by a byte.                     *)
LEMMA DivideHigh ==
    ASSUME NEW w \in Word, \A b \in 0 .. 7 : b \notin w
    PROVE  DivideByte(w) = ShiftRight(w, 8)
<1>1. ShiftRight(w, 0) = w
  <2>1. \A c \in w : c \in 0 .. 31
    BY DEF Word
  <2> QED
    BY <2>1 DEF ShiftRight
<1>2. /\ DivideBit(ShiftRight(w, 0)) = ShiftRight(w, 1)
      /\ DivideBit(ShiftRight(w, 1)) = ShiftRight(w, 2)
      /\ DivideBit(ShiftRight(w, 2)) = ShiftRight(w, 3)
      /\ DivideBit(ShiftRight(w, 3)) = ShiftRight(w, 4)
      /\ DivideBit(ShiftRight(w, 4)) = ShiftRight(w, 5)
      /\ DivideBit(ShiftRight(w, 5)) = ShiftRight(w, 6)
      /\ DivideBit(ShiftRight(w, 6)) = ShiftRight(w, 7)
      /\ DivideBit(ShiftRight(w, 7)) = ShiftRight(w, 8)
  BY DivideShifts
<1> QED
  BY <1>1, <1>2 DEF DivideByte

(* One turn of the loop, with its look into the table, is a division by a  *)
(* byte, whatever the checksum was.                                        *)
LEMMA UpdateDivides ==
    ASSUME NEW sum \in Word, NEW byte \in Byte
    PROVE  Update(sum, byte) = Divide(sum, byte)
<1> DEFINE low  == Xor(sum \cap (0 .. 7), byte)
           high == sum \ (0 .. 7)
<1>1. low \in Byte /\ low \in Word /\ high \in Word
  BY DEF Xor, Byte, Word
<1>2. Xor(sum, byte) = Xor(low, high)
  BY DEF Xor, Byte
<1>3. g_crc32_table[Number(low)] = DivideByte(low)
  BY <1>1, TableAssumption
<1>4. ShiftRight(sum, 8) = ShiftRight(high, 8)
  <2>1. \A c \in sum : c \in 0 .. 31
    BY DEF Word
  <2> QED
    BY <2>1 DEF ShiftRight
<1>5. DivideByte(high) = ShiftRight(high, 8)
  BY <1>1, DivideHigh
<1>6. DivideByte(Xor(low, high)) = Xor(DivideByte(low), DivideByte(high))
  BY <1>1, DivideByteLinear
<1> HIDE DEF high
<1> QED
  BY <1>2, <1>3, <1>4, <1>5, <1>6 DEF Update, Divide

(* The invariant of the loop: the checksum and the register are the same   *)
(* word.                                                                   *)
LoopInv ==
    /\ src \in Seq(Byte)
    /\ i \in 0 .. Len(src)
    /\ register \in Word
    /\ checksum = register

(* LoopInv holds before the first byte.                                    *)
LEMMA LoopStart ==
    CrcInit => LoopInv
BY InputAssumption DEF CrcInit, LoopInv, Word

(* Every byte keeps LoopInv.                                               *)
LEMMA LoopStep ==
    LoopInv /\ [CrcNext]_crcVars => LoopInv'
<1> SUFFICES ASSUME LoopInv, [CrcNext]_crcVars
             PROVE  LoopInv'
  OBVIOUS
<1>1. CASE CrcNext
  <2>1. src[i + 1] \in Byte
    BY <1>1 DEF LoopInv, CrcNext
  <2>2. /\ register' = Divide(register, src[i + 1])
        /\ checksum' = Update(register, src[i + 1])
        /\ i' \in 0 .. Len(src)
        /\ src' = src
    BY <1>1 DEF LoopInv, CrcNext
  <2>3. checksum' = register'
    BY <2>1, <2>2, UpdateDivides DEF LoopInv
  <2>4. src[i + 1] \in Word
    BY <2>1 DEF Byte, Word
  <2>5. register' \in Word
    BY <2>2, <2>4, XorWord, DivideByteWord DEF Divide, LoopInv
  <2> QED
    BY <2>2, <2>3, <2>5 DEF LoopInv
<1>2. CASE UNCHANGED crcVars
  BY <1>2 DEF LoopInv, crcVars
<1> QED
  BY <1>1, <1>2

(* crc32 computes the remainder that the comment of crc32.c announces, of  *)
(* an input of any length.                                                 *)
THEOREM ChecksumDivides ==
    CrcSpec => []TableDivides
<1>1. LoopInv => TableDivides
  BY DEF LoopInv, TableDivides
<1> QED
  BY <1>1, LoopStart, LoopStep, PTL DEF CrcSpec

-----------------------------------------------------------------------------
(* What an operation leaves in the low bits was shifted there: the         *)
(* polynomial would have set bit 31.                                       *)
LEMMA DivideBitLow ==
    ASSUME NEW r \in Word, NEW k \in 0 .. 7, NEW m \in -1 .. 30,
           DivideBit(r) \subseteq k .. m
    PROVE  r \subseteq k + 1 .. m + 1
<1>1. \A b \in 0 .. 31 :
          b \in DivideBit(r) <=> ~((b + 1 \in r) <=> (0 \in r /\ b \in Polynomial))
  BY DivideBits
<1>2. 32 \notin r
  BY DEF Word
<1>3. 31 \notin DivideBit(r)
  OBVIOUS
<1>4. 0 \notin r
  BY <1>1, <1>2, <1>3, PolynomialBits
<1>5. SUFFICES ASSUME NEW c \in r
               PROVE  c \in k + 1 .. m + 1
  OBVIOUS
<1>6. c \in 1 .. 31
  BY <1>4 DEF Word
<1>7. c - 1 \in 0 .. 31 /\ (c - 1) + 1 = c
  BY <1>6
<1>8. c - 1 \in DivideBit(r)
  BY <1>1, <1>4, <1>7
<1>9. c - 1 \in k .. m
  BY <1>8
<1> QED
  BY <1>6, <1>9

(* The same of the eight operations.                                       *)
LEMMA DivideByteLow ==
    ASSUME NEW r \in Word, NEW m \in -1 .. 23,
           DivideByte(r) \subseteq 0 .. m
    PROVE  r \subseteq 8 .. m + 8
<1> DEFINE Shifted(w, k) == w \subseteq k .. m + k
           r1 == DivideBit(r)
           r2 == DivideBit(r1)
           r3 == DivideBit(r2)
           r4 == DivideBit(r3)
           r5 == DivideBit(r4)
           r6 == DivideBit(r5)
           r7 == DivideBit(r6)
<1>1. ASSUME NEW w \in Word, NEW k \in 0 .. 7, Shifted(DivideBit(w), k)
      PROVE  Shifted(w, k + 1)
  <2>1. m + k \in -1 .. 30 /\ (m + k) + 1 = m + (k + 1)
    OBVIOUS
  <2>2. w \subseteq k + 1 .. (m + k) + 1
    BY <1>1, <2>1, DivideBitLow
  <2> QED
    BY <2>1, <2>2
<1>2. /\ r1 \in Word /\ r2 \in Word /\ r3 \in Word /\ r4 \in Word
      /\ r5 \in Word /\ r6 \in Word /\ r7 \in Word
  BY DivideBits
<1>3. Shifted(DivideBit(r7), 0)
  BY DEF DivideByte
<1> HIDE DEF Shifted
<1>4. /\ Shifted(r7, 1) => Shifted(r6, 2)
      /\ Shifted(r6, 2) => Shifted(r5, 3)
      /\ Shifted(r5, 3) => Shifted(r4, 4)
      /\ Shifted(r4, 4) => Shifted(r3, 5)
      /\ Shifted(r3, 5) => Shifted(r2, 6)
      /\ Shifted(r2, 6) => Shifted(r1, 7)
      /\ Shifted(r1, 7) => Shifted(r, 8)
  BY <1>1, <1>2
<1>5. Shifted(r7, 1)
  BY <1>1, <1>2, <1>3
<1>6. Shifted(r, 8)
  BY <1>4, <1>5
<1> QED
  BY <1>6 DEF Shifted

(* A register without bits stays so when it takes in zeros.                *)
LEMMA DivideNothing ==
    DivideByte({}) = {}
<1>1. DivideBit({}) = {}
  BY DEF DivideBit, ShiftRight
<1> QED
  BY <1>1 DEF DivideByte

(* No input is longer than the four bytes of a hash: the arrays of one     *)
(* endpoint.                                                               *)
OneHash == \A s \in Input : Len(s) <= 4

(* The strengthening of OneHashSeen: after k bytes, a register with its k  *)
(* upper bytes zero has taken in nothing but zeros.  As long as a byte is  *)
(* still to come that would make up for one that is not zero, the register *)
(* shows the latter.                                                       *)
HashInv ==
    /\ LoopInv
    /\ Len(src) <= 4
    /\ register \subseteq 0 .. 31 - 8 * i =>
           register = {} /\ \A k \in 1 .. i : src[k] = {}

(* A byte that leaves the upper bytes of the register zero came to a       *)
(* register whose upper bytes, one fewer, were zero.                       *)
LEMMA TakenIn ==
    ASSUME NEW r \in Word, NEW byte \in Byte, NEW n \in 0 .. 3,
           Divide(r, byte) \subseteq 0 .. 31 - 8 * (n + 1)
    PROVE  /\ r \subseteq 0 .. 31 - 8 * n
           /\ r = {} => byte = {}
<1>1. byte \in Word
  BY DEF Byte, Word
<1>2. Xor(r, byte) \in Word
  BY <1>1, XorWord
<1> DEFINE m == 31 - 8 * (n + 1)
<1>3. m \in -1 .. 23 /\ m + 8 = 31 - 8 * n
  OBVIOUS
<1>4. DivideByte(Xor(r, byte)) \subseteq 0 .. m
  BY DEF Divide
<1> HIDE DEF m
<1>5. Xor(r, byte) \subseteq 8 .. m + 8
  BY <1>2, <1>3, <1>4, DivideByteLow
<1>6. ASSUME NEW b \in r
      PROVE  b \in 0 .. 31 - 8 * n
  <2>1. b \in 0 .. 31
    BY DEF Word
  <2>2. CASE b \in byte
    <3>1. b \in 0 .. 7
      BY <2>2 DEF Byte
    <3> QED
      BY <3>1
  <2>3. CASE b \notin byte
    <3>1. b \in Xor(r, byte)
      BY <2>3 DEF Xor
    <3> QED
      BY <1>3, <1>5, <2>1, <3>1
  <2> QED
    BY <2>2, <2>3
<1>7. ASSUME r = {}, NEW b \in byte
      PROVE  FALSE
  <2>1. b \in 0 .. 7
    BY DEF Byte
  <2>2. b \in Xor(r, byte)
    BY <1>7 DEF Xor
  <2> QED
    BY <1>3, <1>5, <2>1, <2>2
<1> QED
  BY <1>6, <1>7

(* HashInv holds before the first byte.                                    *)
LEMMA HashStart ==
    ASSUME OneHash
    PROVE  CrcInit => HashInv
BY LoopStart DEF CrcInit, HashInv, OneHash

(* Every byte keeps HashInv.                                               *)
LEMMA HashStep ==
    HashInv /\ [CrcNext]_crcVars => HashInv'
<1> SUFFICES ASSUME HashInv, [CrcNext]_crcVars
             PROVE  HashInv'
  OBVIOUS
<1>1. LoopInv'
  BY LoopStep DEF HashInv
<1>2. CASE CrcNext
  <2>1. /\ src' = src
        /\ i \in 0 .. 3
        /\ i' = i + 1
        /\ register' = Divide(register, src[i + 1])
        /\ src[i + 1] \in Byte
        /\ register \in Word
    BY <1>2 DEF HashInv, LoopInv, CrcNext
  <2>2. ASSUME register' \subseteq 0 .. 31 - 8 * i'
        PROVE  register' = {} /\ \A k \in 1 .. i' : src'[k] = {}
    <3>1. Divide(register, src[i + 1]) \subseteq 0 .. 31 - 8 * (i + 1)
      BY <2>1, <2>2
    <3>2. register \subseteq 0 .. 31 - 8 * i /\ (register = {} => src[i + 1] = {})
      BY <2>1, <3>1, TakenIn
    <3>3. register = {} /\ src[i + 1] = {} /\ \A k \in 1 .. i : src[k] = {}
      BY <3>2 DEF HashInv
    <3>4. register' = {}
      BY <2>1, <3>3, DivideNothing DEF Divide, Xor
    <3>5. ASSUME NEW k \in 1 .. i + 1
          PROVE  src[k] = {}
      <4>1. k \in 1 .. i \/ k = i + 1
        BY <2>1
      <4> QED
        BY <3>3, <4>1
    <3> QED
      BY <2>1, <3>4, <3>5
  <2> QED
    BY <1>1, <2>1, <2>2 DEF HashInv
<1>3. CASE UNCHANGED crcVars
  BY <1>1, <1>3 DEF HashInv, crcVars
<1> QED
  BY <1>2, <1>3

(* No array of one hash but 0 has the checksum 0 of an empty array and of  *)
(* a peer that was not heard yet.                                          *)
THEOREM OneHashIsSeen ==
    ASSUME OneHash
    PROVE  CrcSpec => []OneHashSeen
<1>1. HashInv => OneHashSeen
  <2> SUFFICES ASSUME HashInv, i = Len(src), checksum = {}
               PROVE  \A k \in DOMAIN src : src[k] = {}
    BY DEF OneHashSeen
  <2>1. DOMAIN src = 1 .. i
    BY DEF HashInv, LoopInv
  <2>2. register \subseteq 0 .. 31 - 8 * i
    BY DEF HashInv, LoopInv
  <2> QED
    BY <2>1, <2>2 DEF HashInv
<1>2. CrcInit => HashInv
  BY HashStart
<1> QED
  BY <1>1, <1>2, HashStep, PTL DEF CrcSpec

-----------------------------------------------------------------------------
(* The difference of two registers divides like a register.                *)
LEMMA DivideDifference ==
    ASSUME NEW v \in Word, NEW w \in Word, NEW a \in Byte, NEW b \in Byte
    PROVE  /\ Xor(Update(v, a), Update(w, b)) = Divide(Xor(v, w), Xor(a, b))
           /\ Update(v, a) \in Word
           /\ Xor(a, b) \in Byte
<1>1. a \in Word /\ b \in Word
  BY DEF Byte, Word
<1>2. Xor(v, a) \in Word /\ Xor(w, b) \in Word
  BY <1>1, XorWord
<1>3. Update(v, a) = DivideByte(Xor(v, a)) /\ Update(w, b) = DivideByte(Xor(w, b))
  BY UpdateDivides DEF Divide
<1>4. Xor(Xor(v, a), Xor(w, b)) = Xor(Xor(v, w), Xor(a, b))
  BY DEF Xor
<1>5. Xor(DivideByte(Xor(v, a)), DivideByte(Xor(w, b)))
        = DivideByte(Xor(Xor(v, a), Xor(w, b)))
  BY <1>2, DivideByteLinear
<1>6. Update(v, a) \in Word
  BY <1>2, <1>3, DivideByteWord
<1>7. Xor(a, b) \in Byte
  BY DEF Xor, Byte
<1> QED
  BY <1>3, <1>4, <1>5, <1>6, <1>7 DEF Divide

(* Only what is the same has no difference.                                *)
LEMMA NoDifference ==
    ASSUME NEW v, NEW w
    PROVE  Xor(v, w) = {} <=> v = w
BY DEF Xor

(* A difference that two arrays have made in the checksum stays, whatever  *)
(* equal bytes follow.                                                     *)
THEOREM DifferenceLasts ==
    ASSUME NEW v \in Word, NEW w \in Word, NEW byte \in Byte,
           Update(v, byte) = Update(w, byte)
    PROVE  v = w
<1>1. Divide(Xor(v, w), Xor(byte, byte)) = {}
  BY DivideDifference, NoDifference
<1>2. Xor(byte, byte) = {} /\ Xor(byte, byte) \in Byte /\ Xor(v, w) \in Word
  BY NoDifference, XorWord, DivideDifference
<1>3. DivideByte(Xor(v, w)) = {}
  BY <1>1, <1>2 DEF Divide, Xor
<1>4. Xor(v, w) \subseteq 8 .. -1 + 8
  BY <1>2, <1>3, DivideByteLow
<1>5. Xor(v, w) = {}
  BY <1>4
<1> QED
  BY <1>5, NoDifference

(* The checksum after the four bytes of a hash.                            *)
AfterHash(sum, h) ==
    Update(Update(Update(Update(sum, h[1]), h[2]), h[3]), h[4])

(* Two hashes in the same place of an array make different checksums: with *)
(* DifferenceLasts, arrays of one length that differ in one hash do.  A    *)
(* node therefore notices that an endpoint of a peer gave way to another.  *)
THEOREM HashesToldApart ==
    ASSUME NEW sum \in Word, NEW g \in [1 .. 4 -> Byte], NEW h \in [1 .. 4 -> Byte],
           AfterHash(sum, g) = AfterHash(sum, h)
    PROVE  g = h
<1> DEFINE v1 == Update(sum, g[1])
           v2 == Update(v1, g[2])
           v3 == Update(v2, g[3])
           v4 == Update(v3, g[4])
           w1 == Update(sum, h[1])
           w2 == Update(w1, h[2])
           w3 == Update(w2, h[3])
           w4 == Update(w3, h[4])
           d1 == Xor(v1, w1)
           d2 == Xor(v2, w2)
           d3 == Xor(v3, w3)
           d4 == Xor(v4, w4)
           e(k) == Xor(g[k], h[k])
<1>1. /\ v1 \in Word /\ v2 \in Word /\ v3 \in Word
      /\ w1 \in Word /\ w2 \in Word /\ w3 \in Word
  <2>1. \A v \in Word, byte \in Byte : Update(v, byte) \in Word
    BY DivideDifference
  <2>2. /\ g[1] \in Byte /\ g[2] \in Byte /\ g[3] \in Byte
        /\ h[1] \in Byte /\ h[2] \in Byte /\ h[3] \in Byte
    OBVIOUS
  <2> QED
    BY <2>1, <2>2
<1>2. \A k \in 1 .. 4 : g[k] \in Byte /\ h[k] \in Byte /\ e(k) \in Byte
  BY DivideDifference
<1>3. d1 \in Word /\ d2 \in Word /\ d3 \in Word /\ {} \in Word
  BY <1>1, XorWord DEF Word
<1>4. d1 = Divide({}, e(1))
  <2>1. d1 = Divide(Xor(sum, sum), e(1))
    BY <1>2, DivideDifference
  <2> QED
    BY <2>1, NoDifference
<1>5. d2 = Divide(d1, e(2)) /\ d3 = Divide(d2, e(3)) /\ d4 = Divide(d3, e(4))
  BY <1>1, <1>2, DivideDifference
<1>6. d4 = {}
  <2>1. v4 = w4
    BY DEF AfterHash
  <2> QED
    BY <2>1, NoDifference
<1> HIDE DEF v1, v2, v3, v4, w1, w2, w3, w4, d1, d2, d3, d4, e
<1>7. d3 \subseteq 0 .. 31 - 8 * 3 /\ (d3 = {} => e(4) = {})
  <2>1. Divide(d3, e(4)) \subseteq 0 .. 31 - 8 * (3 + 1)
    BY <1>5, <1>6
  <2> QED
    BY <1>2, <1>3, <2>1, TakenIn
<1>8. d2 \subseteq 0 .. 31 - 8 * 2 /\ (d2 = {} => e(3) = {})
  <2>1. Divide(d2, e(3)) \subseteq 0 .. 31 - 8 * (2 + 1)
    BY <1>5, <1>7
  <2> QED
    BY <1>2, <1>3, <2>1, TakenIn
<1>9. d1 \subseteq 0 .. 31 - 8 * 1 /\ (d1 = {} => e(2) = {})
  <2>1. Divide(d1, e(2)) \subseteq 0 .. 31 - 8 * (1 + 1)
    BY <1>5, <1>8
  <2> QED
    BY <1>2, <1>3, <2>1, TakenIn
<1>10. e(1) = {}
  <2>1. Divide({}, e(1)) \subseteq 0 .. 31 - 8 * (0 + 1)
    BY <1>4, <1>9
  <2> QED
    BY <1>2, <1>3, <2>1, TakenIn
<1>11. Divide({}, {}) = {}
  BY DivideNothing DEF Divide, Xor
<1>12. e(1) = {} /\ e(2) = {} /\ e(3) = {} /\ e(4) = {}
  BY <1>4, <1>5, <1>7, <1>8, <1>9, <1>10, <1>11
<1>13. g[1] = h[1] /\ g[2] = h[2] /\ g[3] = h[3] /\ g[4] = h[4]
  BY <1>12, NoDifference DEF e
<1>14. \A k \in 1 .. 4 : g[k] = h[k]
  <2>1. \A k \in 1 .. 4 : k = 1 \/ k = 2 \/ k = 3 \/ k = 4
    OBVIOUS
  <2> QED
    BY <1>13, <2>1
<1> QED
  BY <1>14

=============================================================================
