---------------------------- MODULE MCSpinNode ----------------------------
(* Constants of the runs of SpinNode.                                      *)
EXTENDS SpinNode, FiniteSetsExt

CONSTANTS a1, a2, r1, r2

(* The hashes of r1 and r2, where both are used, collide.                  *)
MCHash == [r \in Resource |-> 1]

MCCrc32(H) == SumSet(H)

=============================================================================
