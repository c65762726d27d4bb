------------------------------ MODULE Timespec ------------------------------
(***************************************************************************)
(* The time arithmetic of time.h on struct timespec, and the conversion of *)
(* std::chrono durations to it in uccn.hpp.  A negative tv_sec stands for  *)
(* a time that never comes.                                                *)
(***************************************************************************)
EXTENDS Integers

CONSTANT NsecPerSec   \* 1000000000L

ASSUME NsecAssumption == NsecPerSec \in Nat \ {0}

TIMESPEC_ZERO == [tv_sec |-> 0, tv_nsec |-> 0]

(* The initializer TIMESPEC_INF differs from what TIMESPEC_INF_INIT sets.  *)
TIMESPEC_INF == [tv_sec |-> -1, tv_nsec |-> 0]

TIMESPEC_INF_INIT == [tv_sec |-> -1, tv_nsec |-> -1]

(* The times that the clock shows.                                         *)
Time == [tv_sec : Nat, tv_nsec : 0 .. NsecPerSec - 1]

timespec_cmp(a, b) ==
    IF a.tv_sec < 0 \/ b.tv_sec < 0
    THEN (IF a.tv_sec < 0 THEN 1 ELSE 0) - (IF b.tv_sec < 0 THEN 1 ELSE 0)
    ELSE LET x == IF a.tv_sec # b.tv_sec THEN a.tv_sec ELSE a.tv_nsec
             y == IF a.tv_sec # b.tv_sec THEN b.tv_sec ELSE b.tv_nsec
         IN  IF x > y THEN 1 ELSE IF x < y THEN -1 ELSE 0

(* / and % of C, which round towards zero; n is positive.                  *)
Quot(i, n) == IF i >= 0 THEN i \div n ELSE -((-i) \div n)

Rem(i, n) == i - n * Quot(i, n)

(* Fault: the nanoseconds are not carried over.                            *)
AddNoCarry(a, b) ==
    IF a.tv_sec < 0 \/ b.tv_sec < 0 THEN TIMESPEC_INF_INIT
    ELSE [tv_sec  |-> a.tv_sec + b.tv_sec,
          tv_nsec |-> Rem(a.tv_nsec + b.tv_nsec, NsecPerSec)]

timespec_add(a, b) ==
    LET nsec == a.tv_nsec + b.tv_nsec
    IN  IF a.tv_sec < 0 \/ b.tv_sec < 0 THEN TIMESPEC_INF_INIT
        ELSE [tv_sec  |-> a.tv_sec + b.tv_sec + Quot(nsec, NsecPerSec),
              tv_nsec |-> Rem(nsec, NsecPerSec)]

(* Fault: nothing is borrowed from the seconds.                            *)
DiffNoBorrow(a, b) ==
    LET first == timespec_cmp(a, b) > 0
        x     == IF first THEN a ELSE b
        y     == IF first THEN b ELSE a
    IN  IF a.tv_sec < 0 \/ b.tv_sec < 0 THEN TIMESPEC_INF_INIT
        ELSE [tv_sec |-> x.tv_sec - y.tv_sec, tv_nsec |-> x.tv_nsec - y.tv_nsec]

(* The distance of two times, whichever is the later.                      *)
timespec_diff(a, b) ==
    LET first == timespec_cmp(a, b) > 0
        x     == IF first THEN a ELSE b
        y     == IF first THEN b ELSE a
        sec   == x.tv_sec - y.tv_sec
        nsec  == x.tv_nsec - y.tv_nsec
    IN  IF a.tv_sec < 0 \/ b.tv_sec < 0 THEN TIMESPEC_INF_INIT
        ELSE IF nsec < 0
        THEN [tv_sec |-> sec - 1, tv_nsec |-> nsec + NsecPerSec]
        ELSE [tv_sec |-> sec, tv_nsec |-> nsec]

(* duration_cast truncates, so that both fields of a negative duration are *)
(* zero or negative.                                                       *)
FromChrono(d) ==
    [tv_sec |-> Quot(d, NsecPerSec), tv_nsec |-> Rem(d, NsecPerSec)]

(* What a timespec stands for, in nanoseconds.                             *)
Nsec(t) == t.tv_sec * NsecPerSec + t.tv_nsec

=============================================================================
