----------------------------- MODULE MCIoTotals -----------------------------
(* IoTotals with model values; CPUs and elements are interchangeable, and so *)
(* are owners and keys.  Temporal runs use no symmetry.                      *)
EXTENDS IoTotals, TLC
CONSTANTS c1, c2, k1, k2, p1, p2, e1, e2, e3
Symmetry == Permutations(Cpu) \cup Permutations(Key) \cup Permutations(Owner)
            \cup Permutations(Elem)
=============================================================================
