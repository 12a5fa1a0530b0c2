--------------------------- MODULE MarkdownExport ---------------------------
(***************************************************************************)
(* The four Markdown renderings of a workflow document (export/).  A       *)
(* rendering is a sequence of lines; a line is the label of what it states *)
(* and the text stated.  Wording, headings and layout are left out; what   *)
(* stays is which facts each audience is told, in which order, and where   *)
(* the export says that something was not captured.                        *)
(***************************************************************************)
EXTENDS WorkflowDocument, SequencesExt

Variants == {"automation", "handoff", "onboarding", "sop"}

-----------------------------------------------------------------------------
(* export/mod.rs                                                           *)

(* The redaction tokens the exports know of, in each of their six forms,   *)
(* of which the one the privacy gate writes is kept here.                  *)
SensitiveMarkers ==
    {"[REDACTED_EMAIL]", "[REDACTED_API_KEY]", "[REDACTED_SECRET]", "[REDACTED_TOKEN]",
     "[REDACTED_FACE]", "[REDACTED_BARCODE]"}
SafeText(text) ==
    [i \in DOMAIN text |-> IF text[i] \in SensitiveMarkers THEN "a sensitive value" ELSE text[i]]

Line(label, text) == [label |-> label, text |-> SafeText(text)]
NotCaptured == <<"not captured">>
Gap(label) == [label |-> label, text |-> NotCaptured]

Always(label, option) ==                           \* unwrap_or("... not captured")
    IF option = None THEN <<Gap(label)>> ELSE <<Line(label, option)>>
IfAny(label, option) == IF option = None THEN <<>> ELSE <<Line(label, option)>>
Joined(label, texts) == IF texts = <<>> THEN <<>> ELSE <<Line(label, FlattenSeq(texts))>>

Level(score) == IF score < 50 THEN "LOW" ELSE IF score < 80 THEN "MODERATE" ELSE "HIGH"
Evidence(assessment) ==
    <<[label |-> "evidence",
       text |-> <<IF assessment.score = None THEN "UNKNOWN" ELSE Level(assessment.score)>>
                \o (IF assessment.basis = None THEN <<>> ELSE SafeText(assessment.basis))]>>

(* A section is its items in order, or the statement that none was         *)
(* captured; a rendering is its sections in order.                         *)
Section(label, items) == IF items = <<>> THEN <<Gap(label)>> ELSE FlattenSeq(items)

ArtifactLines(artifacts) ==
    [i \in DOMAIN artifacts |-> LET artifact == artifacts[i] IN
       <<Line(IF artifact.required THEN "required" ELSE "optional", artifact.name)>>
       \o Always("description", artifact.description) \o Evidence(artifact.confidence)]

ProvenanceLines(provenance) ==
    IF provenance = NoProvenance THEN <<Gap("provenance")>>
    ELSE IfAny("session", provenance.session_id)
         \o Joined("observations", provenance.observation_ids)
         \o Joined("captures", provenance.capture_ids)
         \o IfAny("note", provenance.note)

-----------------------------------------------------------------------------
(* What the audiences share.                                               *)

Subject(document) == Always("goal", document.goal) \o Always("context", document.context)

VariationLines(variations) ==
    [i \in DOMAIN variations |-> LET variation == variations[i] IN
       <<Line("variation", variation.name), Line("when", variation.when),
         Line("difference", variation.difference)>> \o Evidence(variation.confidence)]

AlternativeLines(alternatives) ==
    [i \in DOMAIN alternatives |-> LET alternative == alternatives[i] IN
       <<Line("if", alternative.condition), Line("then", alternative.outcome)>>]

DecisionLines(decisions) ==
    [i \in DOMAIN decisions |-> LET decision == decisions[i] IN
       <<Line("question", decision.question)>> \o Always("answer", decision.observed_answer)
       \o FlattenSeq(AlternativeLines(decision.alternatives)) \o Evidence(decision.confidence)]

StepLines(step, why, uses) ==
    <<Line("step", step.name), Line("action", step.action)>> \o why \o uses
    \o Evidence(step.confidence)
ToolsInputsOutputs(step) ==
    Joined("uses", step.tools) \o Joined("takes", step.inputs)
    \o Joined("makes", step.outputs)

(* A tool whose use is told only where it was observed.                    *)
ToolLines(tools) ==
    [i \in DOMAIN tools |-> LET tool == tools[i] IN
       <<Line("tool", tool.name)>> \o Always("purpose", tool.purpose)
       \o IfAny("usage", tool.observed_usage) \o Evidence(tool.confidence)]

-----------------------------------------------------------------------------
(* export/automation.rs                                                    *)

AutomationTools(tools) ==
    [i \in DOMAIN tools |-> LET tool == tools[i] IN
       <<Line("tool", tool.name)>> \o Always("purpose", tool.purpose)
       \o Always("usage", tool.observed_usage) \o Evidence(tool.confidence)]
AutomationSteps(steps) ==
    [i \in DOMAIN steps |-> LET step == steps[i] IN
       StepLines(step, IfAny("why", step.rationale),
                 Joined("takes", step.inputs) \o Joined("makes", step.outputs)
                 \o Joined("uses", step.tools))]

Automation(document) ==
    FlattenSeq(<<
      <<Line("title", document.title)>>, Evidence(document.confidence),
      Subject(document),
      Section("inputs", ArtifactLines(document.inputs)),
      Section("tools", AutomationTools(document.tools)),
      Section("steps", AutomationSteps(document.steps)),
      Section("decisions", DecisionLines(document.decision_points)),
      Section("variations", VariationLines(document.variations)),
      Section("outputs", ArtifactLines(document.outputs)),
      ProvenanceLines(document.provenance) >>)

-----------------------------------------------------------------------------
(* export/handoff.rs                                                       *)

HandoffSteps(steps) ==
    [i \in DOMAIN steps |-> LET step == steps[i] IN
       StepLines(step, IfAny("why", step.rationale), ToolsInputsOutputs(step))]

Handoff(document) ==
    FlattenSeq(<<
      <<Line("title", document.title)>>, Subject(document),
      Evidence(document.confidence),
      Section("tools", ToolLines(document.tools)),
      Section("inputs", ArtifactLines(document.inputs)),
      Section("outputs", ArtifactLines(document.outputs)),
      Section("steps", HandoffSteps(document.steps)),
      Section("decisions", DecisionLines(document.decision_points)),
      Section("variations", VariationLines(document.variations)),
      ProvenanceLines(document.provenance) >>)

-----------------------------------------------------------------------------
(* export/onboarding.rs: one section for decisions and variations, and the *)
(* outputs as a check list.                                                *)

GuidedSteps(steps) ==
    [i \in DOMAIN steps |-> LET step == steps[i] IN
       StepLines(step, Always("why", step.rationale), ToolsInputsOutputs(step))]
CheckLines(artifacts) ==
    [i \in DOMAIN artifacts |-> LET artifact == artifacts[i] IN
       <<Line(IF artifact.required THEN "required" ELSE "optional", artifact.name)>>
       \o IfAny("description", artifact.description) \o Evidence(artifact.confidence)]
BranchesOfDecisions(document) ==
    IF document.decision_points = <<>> THEN <<Gap("decisions"), Gap("variations")>>
    ELSE FlattenSeq(DecisionLines(document.decision_points))
         \o FlattenSeq(VariationLines(document.variations))
Branches(document) ==
    IF document.decision_points = <<>> /\ document.variations = <<>>
    THEN <<Gap("decisions"), Gap("variations")>>
    ELSE FlattenSeq(DecisionLines(document.decision_points))
         \o FlattenSeq(VariationLines(document.variations))

Onboarding(document) ==
    FlattenSeq(<<
      <<Line("title", document.title)>>, Subject(document),
      Evidence(document.confidence),
      Section("inputs", ArtifactLines(document.inputs)),
      Section("tools", ToolLines(document.tools)),
      Section("steps", GuidedSteps(document.steps)),
      Branches(document),
      Section("outputs", CheckLines(document.outputs)),
      ProvenanceLines(document.provenance) >>)

-----------------------------------------------------------------------------
(* export/sop.rs: tools and decisions as tables, in which the use of a     *)
(* tool has no column.                                                     *)

ToolRows(tools) ==
    [i \in DOMAIN tools |-> LET tool == tools[i] IN
       <<Line("tool", tool.name)>> \o Always("purpose", tool.purpose) \o Evidence(tool.confidence)]
DecisionRows(decisions) ==
    [i \in DOMAIN decisions |-> LET decision == decisions[i] IN
       <<Line("question", decision.question)>> \o Always("answer", decision.observed_answer)
       \o Evidence(decision.confidence) \o FlattenSeq(AlternativeLines(decision.alternatives))]

Sop(document) ==
    FlattenSeq(<<
      <<Line("title", document.title)>>, Subject(document),
      Evidence(document.confidence),
      Section("inputs", ArtifactLines(document.inputs)),
      Section("tools", ToolRows(document.tools)),
      Section("steps", GuidedSteps(document.steps)),
      Section("decisions", DecisionRows(document.decision_points)),
      Section("variations", VariationLines(document.variations)),
      Section("outputs", ArtifactLines(document.outputs)),
      ProvenanceLines(document.provenance) >>)

Render(variant, document) ==
    CASE variant = "automation" -> Automation(document)
      [] variant = "handoff"    -> Handoff(document)
      [] variant = "onboarding" -> Onboarding(document)
      [] variant = "sop"        -> Sop(document)
=============================================================================
