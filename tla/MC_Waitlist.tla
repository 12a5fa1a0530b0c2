----------------------------- MODULE MC_Waitlist -----------------------------
(***************************************************************************)
(* TLC instance of Waitlist: three requests of one client, two of them     *)
(* for the same address, and one for that address from another client.    *)
(***************************************************************************)
EXTENDS Waitlist

CONSTANTS r1, r2, r3, r4, home, office, ann, bob

MCClientOf == [r \in Request |-> IF r = r4 THEN office ELSE home]
MCEmailOf == [r \in Request |-> IF r \in {r1, r2, r4} THEN ann ELSE bob]

=============================================================================
