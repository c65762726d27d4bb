--------------------------- MODULE MCUccnNetwork ---------------------------
(* Constants of the runs of UccnNetwork.                                   *)
EXTENDS UccnNetwork, FiniteSetsExt, TLC

CONSTANTS a1, a2, a3, r1, r2

MCHash == [r \in Resource |-> IF r = r1 THEN 1 ELSE 2]

(* A checksum that tells all sets of hashes apart, 0 for the empty one.    *)
MCCrc32(H) == SumSet(H)

(* a1 tracks r1 of a2 and r2, a2 tracks r2 of a1.                          *)
CrossTrack == [x \in Address |-> IF x = a1 THEN {r1, r2} ELSE IF x = a2 THEN {r2} ELSE {}]

CrossAdvertise == [x \in Address |-> IF x = a1 THEN {r2} ELSE IF x = a2 THEN {r1} ELSE {}]

(* a1 tracks everything, a2 advertises r1.                                 *)
OneTrack == [x \in Address |-> IF x = a1 THEN Resource ELSE {}]

OneAdvertise == [x \in Address |-> IF x = a2 THEN {r1} ELSE {}]

=============================================================================
