---------------------------- MODULE MCApiLocking ----------------------------
(* Constants of the run of ApiLocking.                                     *)
EXTENDS ApiLocking

CONSTANTS t1, t2, t3, r1, r2

MCHash == [r \in Resource |-> 1]

(* t1 spins, the others do everything else.                                *)
MCCall == [t \in Thread |-> IF t = t1 THEN {"spin", "post"}
                            ELSE IF t = t2 THEN {"track", "advertise"}
                            ELSE {"track", "stop"}]

=============================================================================
