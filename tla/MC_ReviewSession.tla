-------------------------- MODULE MC_ReviewSession --------------------------
(***************************************************************************)
(* TLC instance of ReviewSession: each capture has a generation of its own.*)
(***************************************************************************)
EXTENDS ReviewSession

CONSTANTS c1, c2, g1, g2

MCGenOf == [c \in Capture |-> IF c = c1 THEN g1 ELSE g2]

=============================================================================
