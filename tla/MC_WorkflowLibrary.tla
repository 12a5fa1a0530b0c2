------------------------ MODULE MC_WorkflowLibrary ------------------------
(* One session, one capture; a candidate that is fine and one that repeats  *)
(* a redacted phone number; a finding that is fine and one that smuggles    *)
(* the start of an image in two pieces; a document with something in every  *)
(* field, a sparse one, one with a blank goal and one with no session.      *)
EXTENDS WorkflowLibrary

Interchangeable == Permutations(Process)

MCSession == {<<"s1">>}
MCCapture == {<<"c1">>}
MCCandidates == {[title |-> <<"plan">>, goal |-> <<"close", "books">>],
                 [title |-> <<"call", "[REDACTED_PHONE]">>, goal |-> <<"reach", "out">>]}
MCFindings == {[title |-> <<"review">>, summary |-> <<"twice">>, confidence |-> 30],
               [title |-> <<"see">>, summary |-> <<"iVBO", "Rw0KGgo">>, confidence |-> 80]}

Sure == Confidence(80, <<"seen", "[REDACTED_EMAIL]">>)
Low == Confidence(0, None)
From(o) == Provenance(<<"s1">>, <<o>>, <<>>, None)
Part(fields, sure) == fields @@ [confidence |-> sure, provenance |-> From(<<"o1">>)]

Rich ==
    [Builder(<<"w1">>, <<"weekly">>) EXCEPT
       !.context = <<"office">>,
       !.inputs = <<Part([name |-> <<"sheet">>, description |-> None, required |-> TRUE], Low)>>,
       !.outputs = <<Part([name |-> <<"report">>, description |-> Empty, required |-> FALSE],
                          Unknown)>>,
       !.tools = <<Part([name |-> <<"editor">>, purpose |-> None, observed_usage |-> <<"edits">>],
                        Unknown)>>,
       !.steps = <<Part([name |-> <<"open">>, action |-> <<"open", "[REDACTED_EMAIL]">>,
                         rationale |-> None, tools |-> <<<<"editor">>>>, inputs |-> <<>>,
                         outputs |-> <<<<"sheet">>>>], Sure),
                   Part([name |-> <<"send">>, action |-> <<"send", "it">>,
                         rationale |-> <<"asked">>, tools |-> <<>>, inputs |-> <<<<"sheet">>>>,
                         outputs |-> <<>>], Low)>>,
       !.decision_points = <<Part([question |-> <<"late?">>, observed_answer |-> None,
                                   alternatives |-> <<[condition |-> <<"yes">>,
                                                       outcome |-> <<"wait">>]>>], Sure)>>,
       !.confidence = Low,
       !.provenance = From(<<"o1">>)]
Sparse == [Builder(<<"w2">>, <<"unfinished">>) EXCEPT
              !.variations = <<Part([name |-> <<"odd">>, when |-> <<"feast">>,
                                     difference |-> <<"skip">>], Unknown)>>,
              !.provenance = Provenance(<<"s1">>, <<>>, <<>>, None)]
MCSupplied == {Rich, Sparse, [Rich EXCEPT !.goal = Empty],
               [Rich EXCEPT !.provenance = NoProvenance]}
=============================================================================
