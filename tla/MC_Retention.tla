---------------------------- MODULE MC_Retention ----------------------------
(***************************************************************************)
(* TLC instance of Retention: two captures share a generation, a third has *)
(* one of its own and an identifier that begins with a dot.                *)
(***************************************************************************)
EXTENDS Retention

CONSTANTS c1, c2, c3, g1, g2

MCGenOf == [c \in Capture |-> IF c = c3 THEN g2 ELSE g1]

=============================================================================
