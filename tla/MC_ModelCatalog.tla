--------------------------- MODULE MC_ModelCatalog ---------------------------
(***************************************************************************)
(* TLC instance of ModelCatalog: one preferred model, two fallbacks, and   *)
(* lists with duplicates, entries that lack one side and unnamed entries.  *)
(***************************************************************************)
EXTENDS ModelCatalog

CONSTANTS gpt, opus, mini

E(id, text, legacy, structured) ==
  [id |-> id, text |-> text, legacy |-> legacy, structured |-> structured]
Both == {"input", "output"}

MCFallbacks == <<opus, mini>>

MCListing ==
  { <<E(mini, Both, FALSE, TRUE), E(opus, {}, TRUE, TRUE), E(mini, Both, FALSE, TRUE)>>,
    <<E(opus, {"output"}, FALSE, TRUE), E(gpt, Both, FALSE, FALSE)>>,
    <<E(NoModel, Both, FALSE, TRUE), E(gpt, {"input"}, TRUE, TRUE)>> }

=============================================================================
