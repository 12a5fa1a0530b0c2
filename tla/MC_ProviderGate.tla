--------------------------- MODULE MC_ProviderGate ---------------------------
(***************************************************************************)
(* TLC instance of ProviderGate: the three tools in two search paths, an   *)
(* endpoint with every capability and one without structured output.       *)
(***************************************************************************)
EXTENDS ProviderGate, TLC

CONSTANTS claude, codex, jcode, openrouter, plain

MCCapabilities ==
  [a \in {claude, codex, jcode, openrouter, plain} |->
     CASE a = openrouter -> 1..7
       [] a = plain -> 1..4
       [] OTHER -> 2..7]

MCKinds == 1 :> {"missing", "denied", "broken", "none", "old", "minimum"}
           @@ 2 :> {"missing", "dir", "plain", "minimum"}

MCPayloads == {<<FALSE, TRUE>>, <<FALSE, FALSE>>}

O(a, b, c) == [a |-> a, b |-> b, confidence |-> c]
Good == O("text", "text", 50)
Reply(form, observations, workflow) ==
  [form |-> form, observations |-> observations, workflow |-> workflow]

MCReplies ==
  { Reply("network", <<>>, {}), Reply("rate_limited", <<>>, {}),
    Reply("direct", <<Good, O("text", "text", 100)>>, {}),
    Reply("event", <<Good>>, {[a |-> "text", b |-> "text"]}),
    Reply("choices", <<Good>>, {[a |-> "text", b |-> "blank"]}),
    Reply("lines", <<Good, O("text", "blank", 0)>>, {}),
    Reply("direct", <<O("text", "absent", 50)>>, {}),
    Reply("direct", <<Good, O("text", "text", Huge)>>, {}),
    Reply("direct", <<O("text", "text", 101)>>, {}) }

MCHints ==
  { [chatgpt |-> TRUE, apiKey |-> FALSE, tokens |-> TRUE],
    [chatgpt |-> TRUE, apiKey |-> TRUE, tokens |-> TRUE] }

=============================================================================
