----------------------------- MODULE MCHostView -----------------------------
(* HostView with numbered observations and model values for the rest.        *)
EXTENDS HostView
CONSTANTS i1, i2, k1, k2
Symmetry == Permutations(Iface)
=============================================================================
