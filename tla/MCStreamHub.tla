----------------------------- MODULE MCStreamHub -----------------------------
(* StreamHub with model values.                                              *)
EXTENDS StreamHub
CONSTANTS c1, c2
=============================================================================
