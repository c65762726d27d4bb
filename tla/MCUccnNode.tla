---------------------------- MODULE MCUccnNode ----------------------------
(* Constants of the runs of UccnNode.                                      *)
EXTENDS UccnNode, FiniteSetsExt, TLC

CONSTANTS a1, a2, r1, r2, r3

(* Distinct hashes whose sets have distinct sums, but for r2 and r3, whose *)
(* hashes collide.                                                         *)
MCHash == [r \in Resource |-> IF r = r1 THEN 1 ELSE 2]

(* A checksum that tells all sets of hashes apart, 0 for the empty one.    *)
MCCrc32(H) == SumSet(H)

AddressSymmetry == Permutations(Address)

=============================================================================
