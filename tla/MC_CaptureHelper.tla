--------------------------- MODULE MC_CaptureHelper ---------------------------
(* Two windows on a clock of four instants; one application, one window    *)
(* title and one generation, whose key has two bytes; four identifiers,    *)
(* one of them of two lines, one ending in a carriage return; times of one *)
(* and of three digits.                                                    *)
EXTENDS CaptureHelper

MCIdentifiers ==
    {<<<<"a">>>>, <<<<"a", "b">>>>, <<<<"a">>, <<"b">>>>, <<<<"a", "CR">>>>}
MCMillis == {<<"0">>, <<"4", "2", "1">>}
MCKeyLength == [g \in {"g1"} |-> 2]
=============================================================================
