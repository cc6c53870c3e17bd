---------------------------- MODULE MCFlowTable ----------------------------
(* Small instances of FlowTable for TLC. *)
EXTENDS FlowTable, TLC

CONSTANTS s1, s2, s3, k1, k2, u1, i1, a1, a2

MCRemoteAddr == [k \in Key |-> IF k = k1 THEN a1 ELSE a2]
Symmetry == Permutations(Slot)
=============================================================================
