-------------------------- MODULE WorkflowDocument --------------------------
(***************************************************************************)
(* The canonical workflow document of qaptr-workflow (document.rs,         *)
(* document/components.rs): how it is built, how it becomes the scalar     *)
(* record of the history store, and how it is restored from one.           *)
(*                                                                         *)
(* A text is the sequence of its words, so the empty text and the text of  *)
(* blanks are both <<>>.  A confidence is a number of hundredths.  The     *)
(* JSON of the column "sequence" keeps the type of every value, because    *)
(* the parser tells a null from a string and refuses everything else.      *)
(***************************************************************************)
EXTENDS Naturals, Sequences, TLC

CONSTANTS
    None,      \* an absent optional value
    Invalid    \* what a constructor or a parser returns instead of a value

Empty == <<>>                        \* a text that trims to nothing
Full == 100                          \* Confidence 1.0
OrEmpty(value) == IF value = None THEN Empty ELSE value
Given(value) == value # Empty        \* required_text, and optional_text of None

(* The object of the fields of both: @@ of TLC, which the provers lack.    *)
Merged(f, g) ==
    [field \in DOMAIN f \cup DOMAIN g |-> IF field \in DOMAIN f THEN f[field] ELSE g[field]]

-----------------------------------------------------------------------------
(* The parts of a document, by the fields each constructor and setter has. *)

Confidence(score, basis) == [score |-> score, basis |-> basis]
Unknown == Confidence(None, None)
Provenance(session, observations, captures, note) ==
    [session_id |-> session, observation_ids |-> observations,
     capture_ids |-> captures, note |-> note]
NoProvenance == Provenance(None, <<>>, <<>>, None)

Shape(texts, options, flags, lists, pairs) ==
    [texts |-> texts, options |-> options, flags |-> flags, lists |-> lists, pairs |-> pairs]
Artifact == Shape({"name"}, {"description"}, {"required"}, {}, {})
ToolObserved == Shape({"name"}, {"purpose", "observed_usage"}, {}, {}, {})
WorkflowStep == Shape({"name", "action"}, {"rationale"}, {}, {"tools", "inputs", "outputs"}, {})
DecisionPoint == Shape({"question"}, {"observed_answer"}, {}, {}, {"alternatives"})
WorkflowVariation == Shape({"name", "when", "difference"}, {}, {}, {}, {})

ShapeOf ==
    [inputs |-> Artifact, outputs |-> Artifact, tools |-> ToolObserved, steps |-> WorkflowStep,
     decision_points |-> DecisionPoint, variations |-> WorkflowVariation]
Lists == DOMAIN ShapeOf
Fields(shape) ==
    (UNION {shape[kind] : kind \in DOMAIN shape}) \cup {"confidence", "provenance"}

(* Every constructor refuses a required text that is blank; the setters    *)
(* of the optional ones take what they are given.                          *)
IsBuilt(shape, part) ==
    /\ \A field \in shape.texts : Given(part[field])
    /\ \A field \in shape.pairs : \A i \in DOMAIN part[field] :
          Given(part[field][i].condition) /\ Given(part[field][i].outcome)

(* What the types of the parts allow; a list is a sequence, of any items.  *)
IsList(items) == items \in Seq({items[i] : i \in DOMAIN items})
IsAssessment(c) == c = Confidence(c.score, c.basis) /\ c.score \in (0 .. Full) \cup {None}
IsOrigin(p) ==
    /\ p = Provenance(p.session_id, p.observation_ids, p.capture_ids, p.note)
    /\ IsList(p.observation_ids) /\ IsList(p.capture_ids)
IsAlternative(pair) == pair = [condition |-> pair.condition, outcome |-> pair.outcome]
IsPart(shape, part) ==
    /\ part = [field \in Fields(shape) |-> part[field]]
    /\ \A field \in shape.lists : IsList(part[field])
    /\ \A field \in shape.pairs :
          IsList(part[field]) /\ \A i \in DOMAIN part[field] : IsAlternative(part[field][i])
    /\ IsAssessment(part.confidence) /\ IsOrigin(part.provenance)
    /\ IsBuilt(shape, part)

Scalars == {"id", "title", "goal", "context", "confidence", "provenance"}
IsDraft(draft) ==
    /\ draft = [field \in Lists \cup Scalars |-> draft[field]]
    /\ \A list \in Lists :
          IsList(draft[list]) /\ \A i \in DOMAIN draft[list] : IsPart(ShapeOf[list], draft[list][i])
    /\ IsAssessment(draft.confidence) /\ IsOrigin(draft.provenance)

-----------------------------------------------------------------------------
(* The builder.                                                            *)

Builder(id, title) ==
    Merged([list \in Lists |-> <<>>],
           [id |-> id, title |-> title, goal |-> None, context |-> None,
            confidence |-> Unknown, provenance |-> NoProvenance])

Build(draft) ==
    IF Given(draft.title) /\ Given(draft.goal) /\ Given(draft.context)
    THEN draft ELSE Invalid

(* One durable observation: its summary is context, and no procedure.      *)
FromObservation(observation) ==
    Build([Builder(<<"observation">> \o observation.id, observation.title) EXCEPT
        !.context = observation.summary,
        !.confidence = Confidence(observation.confidence, <<"inherited">>),
        !.provenance = Provenance(observation.session_id, <<observation.id>>,
            IF observation.capture_id = None THEN <<>> ELSE <<observation.capture_id>>,
            <<"one", "observation">>)])

(* The provider's candidate: a title and a goal, under an identifier that  *)
(* a later analysis of the same session reuses.                            *)
FromCandidate(session, candidate, index, evidence, capture) ==
    Build([Builder(<<"candidate">> \o session \o <<index>>, candidate.title) EXCEPT
        !.goal = candidate.goal,
        !.confidence = evidence,
        !.provenance = Provenance(session, <<>>, <<capture>>, <<"provider", "candidate">>)])

-----------------------------------------------------------------------------
(* JSON values, and the readers that refuse a value of another type.       *)

Json(type, value) == [type |-> type, value |-> value]
Null == Json("null", None)
IsA(type, json) == json.type = type
HasFields(json, fields) == IsA("object", json) /\ fields \subseteq DOMAIN json.value

OptionValue(value) == IF value = None THEN Null ELSE Json("string", value)
IsOption(json) == json.type \in {"null", "string"}
TextsValue(texts) == Json("array", [i \in DOMAIN texts |-> Json("string", texts[i])])
IsTexts(json) == IsA("array", json) /\ \A i \in DOMAIN json.value : IsA("string", json.value[i])
TextsOf(json) == [i \in DOMAIN json.value |-> json.value[i].value]

ConfidenceValueZero(assessment) ==
    Json("object",
         [score |-> Json("number", IF assessment.score = None THEN 0 ELSE assessment.score),
          basis |-> OptionValue(assessment.basis)])
ConfidenceValue(assessment) ==
    Json("object",
         [score |-> IF assessment.score = None THEN Null ELSE Json("number", assessment.score),
          basis |-> OptionValue(assessment.basis)])
IsConfidence(json) ==
    /\ HasFields(json, {"score", "basis"})
    /\ \/ IsA("null", json.value.score)
       \/ IsA("number", json.value.score) /\ json.value.score.value \in 0 .. Full
    /\ IsOption(json.value.basis)
ConfidenceOf(json) == Confidence(json.value.score.value, json.value.basis.value)

ProvenanceValue(provenance) ==
    Json("object",
         [session_id |-> OptionValue(provenance.session_id),
          observation_ids |-> TextsValue(provenance.observation_ids),
          capture_ids |-> TextsValue(provenance.capture_ids),
          note |-> OptionValue(provenance.note)])
IsProvenance(json) ==
    /\ HasFields(json, {"session_id", "observation_ids", "capture_ids", "note"})
    /\ IsOption(json.value.session_id) /\ IsOption(json.value.note)
    /\ IsTexts(json.value.observation_ids) /\ IsTexts(json.value.capture_ids)
ProvenanceOf(json) ==
    Provenance(json.value.session_id.value, TextsOf(json.value.observation_ids),
               TextsOf(json.value.capture_ids), json.value.note.value)

PairValue(pair) ==
    Json("object", [condition |-> Json("string", pair.condition),
                    outcome |-> Json("string", pair.outcome)])
PairOf(json) == [condition |-> json.value.condition.value, outcome |-> json.value.outcome.value]
IsPairs(json) ==
    /\ IsA("array", json)
    /\ \A i \in DOMAIN json.value :
          /\ HasFields(json.value[i], {"condition", "outcome"})
          /\ \A field \in {"condition", "outcome"} : IsA("string", json.value[i].value[field])

FieldValue(shape, field, value) ==
    CASE field \in shape.texts   -> Json("string", value)
      [] field \in shape.options -> OptionValue(value)
      [] field \in shape.flags   -> Json("bool", value)
      [] field \in shape.lists   -> TextsValue(value)
      [] field \in shape.pairs   -> Json("array", [i \in DOMAIN value |-> PairValue(value[i])])
      [] field = "confidence"    -> ConfidenceValue(value)
      [] field = "provenance"    -> ProvenanceValue(value)
PartValue(shape, fields, part) ==
    Json("object", [field \in fields |-> FieldValue(shape, field, part[field])])
PartsValue(shape, fields, parts) ==
    Json("array", [i \in DOMAIN parts |-> PartValue(shape, fields, parts[i])])

IsField(shape, field, json) ==
    CASE field \in shape.texts   -> IsA("string", json)
      [] field \in shape.options -> IsOption(json)
      [] field \in shape.flags   -> IsA("bool", json)
      [] field \in shape.lists   -> IsTexts(json)
      [] field \in shape.pairs   -> IsPairs(json)
      [] field = "confidence"    -> IsConfidence(json)
      [] field = "provenance"    -> IsProvenance(json)
FieldOf(shape, field, json) ==
    CASE field \in shape.lists   -> TextsOf(json)
      [] field \in shape.pairs   -> [i \in DOMAIN json.value |-> PairOf(json.value[i])]
      [] field = "confidence"    -> ConfidenceOf(json)
      [] field = "provenance"    -> ProvenanceOf(json)
      [] OTHER                   -> json.value
PartOf(shape, json) == [field \in Fields(shape) |-> FieldOf(shape, field, json.value[field])]
IsParts(shape, json) ==
    /\ IsA("array", json)
    /\ \A i \in DOMAIN json.value :
          /\ HasFields(json.value[i], Fields(shape))
          /\ \A field \in Fields(shape) : IsField(shape, field, json.value[i].value[field])
          /\ IsBuilt(shape, PartOf(shape, json.value[i]))
PartsOf(shape, json) == [i \in DOMAIN json.value |-> PartOf(shape, json.value[i])]

-----------------------------------------------------------------------------
(* The record of the store.                                                *)

Format == <<"qaptr.workflow.document">>
Version == 1

DocumentValue(document) ==
    Json("object",
         Merged([list \in Lists |->
                   PartsValue(ShapeOf[list], Fields(ShapeOf[list]), document[list])],
                [format |-> Json("string", Format), version |-> Json("number", Version),
                 id |-> Json("string", document.id), title |-> Json("string", document.title),
                 goal |-> OptionValue(document.goal), context |-> OptionValue(document.context),
                 confidence |-> ConfidenceValue(document.confidence),
                 provenance |-> ProvenanceValue(document.provenance)]))

IsDocument(json) ==
    /\ HasFields(json, Lists \cup {"format", "version", "id", "title", "goal", "context",
                                   "confidence", "provenance"})
    /\ json.value.format = Json("string", Format)
    /\ json.value.version = Json("number", Version)
    /\ IsA("string", json.value.id) /\ IsA("string", json.value.title)
    /\ IsOption(json.value.goal) /\ IsOption(json.value.context)
    /\ \A list \in Lists : IsParts(ShapeOf[list], json.value[list])
    /\ IsConfidence(json.value.confidence) /\ IsProvenance(json.value.provenance)

DocumentOf(json) ==
    Build(Merged([list \in Lists |-> PartsOf(ShapeOf[list], json.value[list])],
                 [id |-> json.value.id.value, title |-> json.value.title.value,
                  goal |-> json.value.goal.value, context |-> json.value.context.value,
                  confidence |-> ConfidenceOf(json.value.confidence),
                  provenance |-> ProvenanceOf(json.value.provenance)]))

(* The number of the scalar column: an unknown confidence is written 0.    *)
EvidenceOf(document) ==
    IF document.confidence.score = None THEN 0 ELSE document.confidence.score

(* The scalar columns repeat what the document says, tools, decisions and  *)
(* variations without their evidence.                                      *)
ToRecord(document, at) ==
    IF document.provenance.session_id = None THEN Invalid
    ELSE [id |-> document.id, session_id |-> document.provenance.session_id,
          title |-> document.title,
          goal |-> OrEmpty(document.goal), context |-> OrEmpty(document.context),
          tools |-> PartsValue(ToolObserved, {"name", "purpose", "observed_usage"},
                               document.tools),
          sequence |-> DocumentValue(document),
          decisions |-> PartsValue(DecisionPoint,
                                   {"question", "observed_answer", "alternatives"},
                                   document.decision_points),
          variations |-> PartsValue(WorkflowVariation, {"name", "when", "difference"},
                                    document.variations),
          evidence_confidence |-> EvidenceOf(document), created_at |-> at]

Agrees(document, record) ==
    /\ document.id = record.id
    /\ document.title = record.title
    /\ OrEmpty(document.goal) = record.goal
    /\ OrEmpty(document.context) = record.context
    /\ EvidenceOf(document) = record.evidence_confidence
    /\ document.provenance.session_id = record.session_id

FromRecord(record) ==
    IF ~IsDocument(record.sequence) THEN Invalid
    ELSE LET document == DocumentOf(record.sequence)
         IN  IF document # Invalid /\ Agrees(document, record) THEN document ELSE Invalid
=============================================================================
