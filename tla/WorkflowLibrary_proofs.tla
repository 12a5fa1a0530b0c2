------------------------ MODULE WorkflowLibrary_proofs ------------------------
(***************************************************************************)
(* Proofs about the history store, the workflow documents in it and the    *)
(* export of one: for any number of instances of the app, any schema       *)
(* version the database is found with, and any documents.                  *)
(***************************************************************************)
EXTENDS WorkflowLibrary, SequenceTheorems, WellFoundedInduction, TLAPS

-----------------------------------------------------------------------------
(* The schema *)

(* An instance that migrates has read the version of a database that this  *)
(* release knows, and the version has not gone back since.                 *)
MigratorsFollow ==
    \A p \in Process :
        process[p].at # "closed" => /\ version \in 0 .. Latest
                                    /\ process[p].current \in 0 .. version

SchemaInv ==
    /\ version \in Nat
    /\ process = [p \in Process |-> [at |-> process[p].at, current |-> process[p].current]]
    /\ MigratorsFollow
    /\ SchemaIsWhole

(* The tables of two versions: none, those of the first migration, all.    *)
LEMMA TablesOfVersions ==
    /\ Latest = 2
    /\ TablesOf(0) = {} /\ TablesOf(1) = Migrations[1]
    /\ TablesOf(2) = Migrations[1] \cup Migrations[2]
    /\ Migrations[1] # {} /\ Migrations[2] # {} /\ Migrations[1] \cap Migrations[2] = {}
  <1>1. Latest = 2
    BY DEF Latest, Migrations
  <1>2. /\ {j \in 1 .. 2 : j <= 0} = {}
        /\ {j \in 1 .. 2 : j <= 1} = {1}
        /\ {j \in 1 .. 2 : j <= 2} = {1, 2}
    OBVIOUS
  <1>3. /\ Migrations[1] = {"captures", "observations", "workflows"}
        /\ Migrations[2] = {"notices"}
    BY DEF Migrations
  <1>4. /\ TablesOf(0) = {} /\ TablesOf(1) = Migrations[1]
        /\ TablesOf(2) = Migrations[1] \cup Migrations[2]
    BY <1>1, <1>2, Zenon DEF TablesOf
  <1> QED BY <1>1, <1>3, <1>4

(* A migration of an instance that is behind the version finds its tables  *)
(* there; one that is not is the next of the database.                     *)
LEMMA MigrateLemma ==
    ASSUME SchemaInv, NEW p \in Process, Migrate(p) PROVE SchemaInv'
  <1> DEFINE next == process[p].current + 1
  <1>1. /\ process[p].at = "migrating" /\ version \in 0 .. Latest
        /\ process[p].current \in 0 .. version /\ process[p].current < Latest
        /\ tables = TablesOf(version)
    BY DEF Migrate, SchemaInv, MigratorsFollow, SchemaIsWhole
  <1>2. CASE tables \cap Migrations[next] = {}
    <2>1. process[p].current = version
      <3>1. CASE process[p].current = 0 /\ version = 1
        BY <1>1, <1>2, <3>1, TablesOfVersions
      <3>2. CASE process[p].current = 0 /\ version = 2
        BY <1>1, <1>2, <3>2, TablesOfVersions
      <3>3. CASE process[p].current = 1 /\ version = 2
        BY <1>1, <1>2, <3>3, TablesOfVersions
      <3> HIDE DEF next
      <3> QED BY <1>1, <3>1, <3>2, <3>3, TablesOfVersions
    <2>2. /\ version' = version + 1
          /\ tables' = tables \cup Migrations[version + 1]
          /\ process' = [process EXCEPT ![p].current = version + 1]
      BY <1>2, <2>1 DEF Migrate
    <2>3. version' \in 1 .. Latest
      BY <1>1, <2>1, <2>2, TablesOfVersions
    <2>4. tables' = TablesOf(version')
      BY <1>1, <2>1, <2>2, TablesOfVersions
    <2>5. \A q \in Process : /\ process'[q].at = process[q].at
                             /\ process'[q].current \in {process[q].current, version + 1}
      BY <2>2 DEF SchemaInv
    <2>6. MigratorsFollow'
      BY <1>1, <2>3, <2>2, <2>5, TablesOfVersions DEF SchemaInv, MigratorsFollow
    <2> QED BY <2>3, <2>2, <2>4, <2>6 DEF SchemaInv, SchemaIsWhole
  <1>3. CASE tables \cap Migrations[next] # {}
    <2>1. process' = [process EXCEPT ![p] = Closed] /\ UNCHANGED <<version, tables>>
      BY <1>3 DEF Migrate
    <2> QED BY <2>1 DEF Closed, SchemaInv, MigratorsFollow, SchemaIsWhole
  <1> QED BY <1>2, <1>3

LEMMA OtherOpeningLemma ==
    ASSUME SchemaInv, NEW p \in Process, OpenStore(p) \/ Validate(p) \/ Crash(p)
    PROVE  SchemaInv'
  <1>1. UNCHANGED <<version, tables>>
    BY DEF OpenStore, Validate, Crash
  <1>2. CASE OpenStore(p)
    <2>1. /\ version <= Latest
          /\ process' = [process EXCEPT ![p] = [at |-> "migrating", current |-> version]]
      BY <1>2 DEF OpenStore
    <2>2. version \in 0 .. Latest
      BY <2>1, TablesOfVersions DEF SchemaInv
    <2>3. MigratorsFollow'
      BY <1>1, <2>1, <2>2 DEF SchemaInv, MigratorsFollow
    <2> QED BY <1>1, <2>1, <2>3 DEF SchemaInv, SchemaIsWhole
  <1>3. CASE Validate(p)
    <2>1. /\ process[p].at = "migrating"
          /\ \/ process' = [process EXCEPT ![p] = [@ EXCEPT !.at = "open"]]
             \/ process' = [process EXCEPT ![p] = Closed]
      BY <1>3 DEF Validate
    <2> QED BY <1>1, <2>1 DEF Closed, SchemaInv, MigratorsFollow, SchemaIsWhole
  <1>4. CASE Crash(p)
    <2>1. process' = [process EXCEPT ![p] = Closed]
      BY <1>4 DEF Crash
    <2> QED BY <1>1, <2>1 DEF Closed, SchemaInv, MigratorsFollow, SchemaIsWhole
  <1> QED BY <1>2, <1>3, <1>4

(* Neither a transaction nor an export looks at the schema.                *)
LEMMA SchemaUntouched == Writing \/ Exporting \/ UNCHANGED vars => UNCHANGED schema
  BY DEF Writing, PutCapture, DeleteCaptures, CommitAnalysis, PutWorkflow, PutNotice,
         RewriteColumn, Exporting, SaveExport, CancelExport, CheckCancelled, CreateTemp,
         WriteTemp, RenameTemp, ReplySaved, CleanUp, CrashExport, StoreUntouched, vars, schema

(* The version never runs ahead of the tables or falls behind them,        *)
(* however the instances interleave and wherever one dies.                 *)
THEOREM SchemaIsWholeAlways == Spec => []SchemaIsWhole
  <1>1. Init => SchemaInv
    BY LibraryAssumption DEF Init, Closed, SchemaInv, MigratorsFollow, SchemaIsWhole
  <1>2. SchemaInv /\ [Next]_vars => SchemaInv'
    <2> SUFFICES ASSUME SchemaInv, [Next]_vars PROVE SchemaInv'
      OBVIOUS
    <2>1. CASE Opening
      BY <2>1, MigrateLemma, OtherOpeningLemma DEF Opening
    <2>2. CASE Writing \/ Exporting \/ UNCHANGED vars
      <3>1. UNCHANGED <<version, tables, process>>
        BY <2>2, SchemaUntouched DEF schema
      <3> QED BY <3>1 DEF SchemaInv, MigratorsFollow, SchemaIsWhole
    <2> QED BY <2>1, <2>2 DEF Next
  <1>3. SchemaInv => SchemaIsWhole
    BY DEF SchemaInv
  <1> QED BY <1>1, <1>2, <1>3, PTL DEF Spec

-----------------------------------------------------------------------------
(* The export *)

(* The destination is as it was until the rename, and the whole rendering  *)
(* after it; the temporary file is the whole rendering before the rename.  *)
ExportInv ==
    /\ job = [at |-> job.at, lines |-> job.lines, cancelled |-> job.cancelled,
              before |-> job.before]
    /\ job.at = "idle" => job = NoJob
    /\ job.at \notin {"idle", "saved"} => file = job.before
    /\ job.at = "rename" => temp = Whole(job.lines)
    /\ job.at = "saved" => file = Whole(job.lines) /\ temp = Absent

(* What an answer or a step does to the job.                               *)
LEMMA GoesToFacts ==
    ASSUME ExportInv, NEW at, at # "idle", GoesTo(at)
    PROVE  /\ job' = [at |-> at, lines |-> job.lines, cancelled |-> job.cancelled,
                      before |-> job.before]
           /\ job' # NoJob /\ UNCHANGED reply
  <1>1. job' = [at |-> at, lines |-> job.lines, cancelled |-> job.cancelled,
                before |-> job.before]
    BY DEF ExportInv, GoesTo
  <1>2. NoJob.at = "idle"
    BY DEF NoJob
  <1> QED BY <1>1, <1>2 DEF GoesTo

(* ReplyTellsTheFile, of one step.                                         *)
TellsTheFile ==
    /\ file' # file => file' = Whole(job.lines)
    /\ job # NoJob /\ job' = NoJob =>
          /\ reply' \in {"cancelled", "failed"} => file' = job.before
          /\ reply' = "saved" => file' = Whole(job.lines) /\ temp' = Absent
          /\ reply' = "crashed" => file' \in {job.before, Whole(job.lines)}

LEMMA NoJobFacts ==
    /\ NoJob = [at |-> NoJob.at, lines |-> NoJob.lines, cancelled |-> NoJob.cancelled,
                before |-> NoJob.before]
    /\ NoJob.at = "idle"
  BY DEF NoJob

LEMMA ExportLemma == ASSUME ExportInv, Exporting PROVE ExportInv' /\ TellsTheFile
  <1> USE NoJobFacts DEF JobAt
  <1>1. ASSUME NEW document, NEW variant, SaveExport(document, variant)
        PROVE  ExportInv' /\ TellsTheFile
    BY <1>1 DEF SaveExport, ExportInv, TellsTheFile
  <1>2. CASE CancelExport
    BY <1>2 DEF CancelExport, ExportInv, TellsTheFile
  <1>3. CASE CheckCancelled
    <2>1. CASE Answer("cancelled")
      BY <1>3, <2>1 DEF CheckCancelled, Answer, ExportInv, TellsTheFile
    <2>2. CASE GoesTo("create")
      BY <1>3, <2>2, GoesToFacts DEF CheckCancelled, ExportInv, TellsTheFile
    <2> QED BY <1>3, <2>1, <2>2 DEF CheckCancelled
  <1>4. CASE CreateTemp
    <2>1. GoesTo("write") \/ GoesTo("cleanup")
      BY <1>4 DEF CreateTemp
    <2> QED BY <1>4, <2>1, GoesToFacts DEF CreateTemp, ExportInv, TellsTheFile
  <1>5. CASE WriteTemp
    <2>1. (temp' = Whole(job.lines) /\ GoesTo("rename")) \/ GoesTo("cleanup")
      BY <1>5 DEF WriteTemp
    <2> QED BY <1>5, <2>1, GoesToFacts DEF WriteTemp, ExportInv, TellsTheFile
  <1>6. CASE RenameTemp
    <2>1. CASE file' = temp /\ temp' = Absent /\ GoesTo("saved")
      <3>1. file' = Whole(job.lines)
        BY <1>6, <2>1 DEF RenameTemp, ExportInv
      <3> QED BY <2>1, <3>1, GoesToFacts DEF ExportInv, TellsTheFile
    <2>2. CASE UNCHANGED <<file, temp>> /\ GoesTo("cleanup")
      BY <1>6, <2>2, GoesToFacts DEF RenameTemp, ExportInv, TellsTheFile
    <2> QED BY <1>6, <2>1, <2>2 DEF RenameTemp
  <1>7. CASE CleanUp
    BY <1>7 DEF CleanUp, Answer, ExportInv, TellsTheFile
  <1>8. CASE ReplySaved
    BY <1>8 DEF ReplySaved, Answer, ExportInv, TellsTheFile
  <1>9. CASE CrashExport
    BY <1>9 DEF CrashExport, Answer, ExportInv, TellsTheFile
  <1> QED BY <1>1, <1>2, <1>3, <1>4, <1>5, <1>6, <1>7, <1>8, <1>9 DEF Exporting

LEMMA ExportUntouched == Opening \/ Writing \/ UNCHANGED vars => UNCHANGED export
  BY DEF Opening, OpenStore, Migrate, Validate, Crash, Writing, PutCapture, DeleteCaptures,
         CommitAnalysis, PutWorkflow, PutNotice, RewriteColumn, vars, export

LEMMA ExportInvariant == Spec => []ExportInv
  <1>1. Init => ExportInv
    BY NoJobFacts DEF Init, ExportInv
  <1>2. ExportInv /\ [Next]_vars => ExportInv'
    <2>1. ExportInv /\ UNCHANGED export => ExportInv'
      BY DEF export, ExportInv
    <2> QED BY <2>1, ExportLemma, ExportUntouched DEF Next
  <1> QED BY <1>1, <1>2, PTL DEF Spec

(* The answer of an export tells what the destination holds (save.rs).     *)
THEOREM RepliesTellTheFile == Spec => ReplyTellsTheFile
  <1>1. ExportInv /\ [Next]_vars => [TellsTheFile]_vars
    <2>1. ExportInv /\ UNCHANGED export => TellsTheFile
      BY DEF export, ExportInv, TellsTheFile
    <2> QED BY <2>1, ExportLemma, ExportUntouched DEF Next
  <1> QED BY <1>1, ExportInvariant, PTL DEF Spec, ReplyTellsTheFile, TellsTheFile

-----------------------------------------------------------------------------
(* What is written as JSON is read as it was, one kind of value after the  *)
(* other.                                                                  *)

LEMMA OptionReads ==
    ASSUME NEW value
    PROVE  IsOption(OptionValue(value)) /\ OptionValue(value).value = value
  <1>1. Null.type = "null" /\ Null.value = None
    BY DEF Null, Json
  <1>2. Json("string", value).type = "string" /\ Json("string", value).value = value
    BY DEF Json
  <1> QED BY <1>1, <1>2 DEF IsOption, OptionValue

LEMMA TextsRead ==
    ASSUME NEW texts, IsList(texts)
    PROVE  IsTexts(TextsValue(texts)) /\ TextsOf(TextsValue(texts)) = texts
  <1> DEFINE json == TextsValue(texts)
  <1>1. /\ json.type = "array" /\ DOMAIN json.value = DOMAIN texts
        /\ \A i \in DOMAIN texts : json.value[i].type = "string" /\ json.value[i].value = texts[i]
    BY DEF TextsValue, Json
  <1>2. IsTexts(json)
    BY <1>1 DEF IsTexts, IsA
  <1>3. TextsOf(json) = [i \in DOMAIN texts |-> texts[i]]
    BY <1>1 DEF TextsOf
  <1> QED BY <1>2, <1>3 DEF IsList

LEMMA ConfidenceReads ==
    ASSUME NEW assessment, IsAssessment(assessment)
    PROVE  /\ IsConfidence(ConfidenceValue(assessment))
           /\ ConfidenceOf(ConfidenceValue(assessment)) = assessment
  <1> DEFINE json == ConfidenceValue(assessment)
             score == IF assessment.score = None THEN Null ELSE Json("number", assessment.score)
  <1>1. /\ json.type = "object" /\ DOMAIN json.value = {"score", "basis"}
        /\ json.value.score = score /\ json.value.basis = OptionValue(assessment.basis)
    BY DEF ConfidenceValue, Json
  <1>2. /\ score.value = assessment.score
        /\ score.type = "null" \/ (score.type = "number" /\ score.value \in 0 .. Full)
    BY DEF Null, Json, IsAssessment
  <1>3. IsConfidence(json)
    BY <1>1, <1>2, OptionReads DEF IsConfidence, HasFields, IsA
  <1>4. ConfidenceOf(json) = Confidence(assessment.score, assessment.basis)
    BY <1>1, <1>2, OptionReads DEF ConfidenceOf
  <1> QED BY <1>3, <1>4 DEF IsAssessment

LEMMA ProvenanceReads ==
    ASSUME NEW origin, IsOrigin(origin)
    PROVE  /\ IsProvenance(ProvenanceValue(origin))
           /\ ProvenanceOf(ProvenanceValue(origin)) = origin
  <1> DEFINE json == ProvenanceValue(origin)
  <1>1. /\ json.type = "object"
        /\ DOMAIN json.value = {"session_id", "observation_ids", "capture_ids", "note"}
        /\ json.value.session_id = OptionValue(origin.session_id)
        /\ json.value.observation_ids = TextsValue(origin.observation_ids)
        /\ json.value.capture_ids = TextsValue(origin.capture_ids)
        /\ json.value.note = OptionValue(origin.note)
    BY DEF ProvenanceValue, Json
  <1>2. IsList(origin.observation_ids) /\ IsList(origin.capture_ids)
    BY DEF IsOrigin
  <1>3. IsProvenance(json)
    BY <1>1, <1>2, OptionReads, TextsRead DEF IsProvenance, HasFields, IsA
  <1>4. ProvenanceOf(json) = Provenance(origin.session_id, origin.observation_ids,
                                        origin.capture_ids, origin.note)
    BY <1>1, <1>2, OptionReads, TextsRead DEF ProvenanceOf
  <1> QED BY <1>3, <1>4 DEF IsOrigin

LEMMA PairsRead ==
    ASSUME NEW pairs, IsList(pairs), \A i \in DOMAIN pairs : IsAlternative(pairs[i])
    PROVE  LET json == Json("array", [i \in DOMAIN pairs |-> PairValue(pairs[i])])
           IN  IsPairs(json) /\ [i \in DOMAIN json.value |-> PairOf(json.value[i])] = pairs
  <1> DEFINE json == Json("array", [i \in DOMAIN pairs |-> PairValue(pairs[i])])
  <1>1. /\ json.type = "array" /\ DOMAIN json.value = DOMAIN pairs
        /\ \A i \in DOMAIN pairs : json.value[i] = PairValue(pairs[i])
    BY DEF Json
  <1>2. ASSUME NEW i \in DOMAIN pairs
        PROVE  LET pair == PairValue(pairs[i])
               IN  /\ pair.type = "object" /\ DOMAIN pair.value = {"condition", "outcome"}
                   /\ pair.value.condition.type = "string" /\ pair.value.outcome.type = "string"
                   /\ PairOf(pair) = pairs[i]
    <2> DEFINE pair == PairValue(pairs[i])
    <2>1. /\ pair.type = "object" /\ DOMAIN pair.value = {"condition", "outcome"}
          /\ pair.value.condition = Json("string", pairs[i].condition)
          /\ pair.value.outcome = Json("string", pairs[i].outcome)
      BY DEF PairValue, Json
    <2>2. PairOf(pair) = [condition |-> pairs[i].condition, outcome |-> pairs[i].outcome]
      BY <2>1 DEF PairOf, Json
    <2>3. pair.value.condition.type = "string" /\ pair.value.outcome.type = "string"
      BY <2>1 DEF Json
    <2> QED BY <2>1, <2>2, <2>3 DEF IsAlternative
  <1>3. IsPairs(json)
    BY <1>1, <1>2 DEF IsPairs, HasFields, IsA
  <1>4. [i \in DOMAIN json.value |-> PairOf(json.value[i])] = [i \in DOMAIN pairs |-> pairs[i]]
    BY <1>1, <1>2
  <1> QED BY <1>3, <1>4 DEF IsList

(* The fields of a shape are of one kind each.                             *)
Separate(shape) ==
    /\ shape.texts \cap (shape.options \cup shape.flags \cup shape.lists \cup shape.pairs) = {}
    /\ shape.options \cap (shape.flags \cup shape.lists \cup shape.pairs) = {}
    /\ shape.flags \cap (shape.lists \cup shape.pairs) = {}
    /\ shape.lists \cap shape.pairs = {}
    /\ {"confidence", "provenance"} \cap
          (shape.texts \cup shape.options \cup shape.flags \cup shape.lists \cup shape.pairs) = {}
    /\ Fields(shape) = shape.texts \cup shape.options \cup shape.flags \cup shape.lists
                         \cup shape.pairs \cup {"confidence", "provenance"}

LEMMA ShapesAreSeparate == \A list \in Lists : Separate(ShapeOf[list])
  <1>1. /\ Lists = {"inputs", "outputs", "tools", "steps", "decision_points", "variations"}
        /\ ShapeOf["inputs"] = Artifact /\ ShapeOf["outputs"] = Artifact
        /\ ShapeOf["tools"] = ToolObserved /\ ShapeOf["steps"] = WorkflowStep
        /\ ShapeOf["decision_points"] = DecisionPoint
        /\ ShapeOf["variations"] = WorkflowVariation
    BY DEF Lists, ShapeOf
  <1>2. ASSUME NEW texts, NEW options, NEW flags, NEW lists, NEW pairs, NEW shape,
               shape = Shape(texts, options, flags, lists, pairs)
        PROVE  /\ shape.texts = texts /\ shape.options = options /\ shape.flags = flags
               /\ shape.lists = lists /\ shape.pairs = pairs
               /\ Fields(shape) = texts \cup options \cup flags \cup lists \cup pairs
                                    \cup {"confidence", "provenance"}
    <2>1. DOMAIN shape = {"texts", "options", "flags", "lists", "pairs"}
      BY <1>2 DEF Shape
    <2>2. /\ shape.texts = texts /\ shape.options = options /\ shape.flags = flags
          /\ shape.lists = lists /\ shape.pairs = pairs
      BY <1>2 DEF Shape
    <2> DEFINE kinds == UNION {shape[kind] : kind \in DOMAIN shape}
    <2>3. kinds = texts \cup options \cup flags \cup lists \cup pairs
      BY <2>1, <2>2
    <2>4. Fields(shape) = kinds \cup {"confidence", "provenance"}
      BY Zenon DEF Fields
    <2> HIDE DEF kinds
    <2> QED BY <2>2, <2>3, <2>4
  <1>3. Separate(Artifact)
    <2>1. Artifact = Shape({"name"}, {"description"}, {"required"}, {}, {})
      BY DEF Artifact
    <2> QED BY <1>2, <2>1 DEF Separate
  <1>4. Separate(ToolObserved)
    <2>1. ToolObserved = Shape({"name"}, {"purpose", "observed_usage"}, {}, {}, {})
      BY DEF ToolObserved
    <2> QED BY <1>2, <2>1 DEF Separate
  <1>5. Separate(WorkflowStep)
    <2>1. WorkflowStep = Shape({"name", "action"}, {"rationale"}, {},
                               {"tools", "inputs", "outputs"}, {})
      BY DEF WorkflowStep
    <2> QED BY <1>2, <2>1 DEF Separate
  <1>6. Separate(DecisionPoint)
    <2>1. DecisionPoint = Shape({"question"}, {"observed_answer"}, {}, {}, {"alternatives"})
      BY DEF DecisionPoint
    <2> QED BY <1>2, <2>1 DEF Separate
  <1>7. Separate(WorkflowVariation)
    <2>1. WorkflowVariation = Shape({"name", "when", "difference"}, {}, {}, {}, {})
      BY DEF WorkflowVariation
    <2> QED BY <1>2, <2>1 DEF Separate
  <1> QED BY <1>1, <1>3, <1>4, <1>5, <1>6, <1>7

LEMMA FieldReads ==
    ASSUME NEW shape, Separate(shape), NEW part, IsPart(shape, part), NEW field \in Fields(shape)
    PROVE  LET json == FieldValue(shape, field, part[field])
           IN  IsField(shape, field, json) /\ FieldOf(shape, field, json) = part[field]
  <1> DEFINE json == FieldValue(shape, field, part[field])
  <1>1. CASE field \in shape.texts
    <2>1. json = Json("string", part[field]) /\ (IsField(shape, field, json) <=> IsA("string", json))
      BY <1>1 DEF FieldValue, IsField, Separate
    <2>2. FieldOf(shape, field, json) = json.value
      BY <1>1 DEF FieldOf, Separate
    <2> QED BY <2>1, <2>2 DEF IsA, Json
  <1>2. CASE field \in shape.options
    <2>1. json = OptionValue(part[field]) /\ (IsField(shape, field, json) <=> IsOption(json))
      BY <1>2 DEF FieldValue, IsField, Separate
    <2>2. FieldOf(shape, field, json) = json.value
      BY <1>2 DEF FieldOf, Separate
    <2> QED BY <2>1, <2>2, OptionReads
  <1>3. CASE field \in shape.flags
    <2>1. json = Json("bool", part[field]) /\ (IsField(shape, field, json) <=> IsA("bool", json))
      BY <1>3 DEF FieldValue, IsField, Separate
    <2>2. FieldOf(shape, field, json) = json.value
      BY <1>3 DEF FieldOf, Separate
    <2> QED BY <2>1, <2>2 DEF IsA, Json
  <1>4. CASE field \in shape.lists
    <2>1. json = TextsValue(part[field]) /\ (IsField(shape, field, json) <=> IsTexts(json))
      BY <1>4 DEF FieldValue, IsField, Separate
    <2>2. FieldOf(shape, field, json) = TextsOf(json)
      BY <1>4 DEF FieldOf, Separate
    <2> QED BY <1>4, <2>1, <2>2, TextsRead DEF IsPart
  <1>5. CASE field \in shape.pairs
    <2>1. /\ json = Json("array", [i \in DOMAIN part[field] |-> PairValue(part[field][i])])
          /\ IsField(shape, field, json) <=> IsPairs(json)
      BY <1>5 DEF FieldValue, IsField, Separate
    <2>2. FieldOf(shape, field, json) = [i \in DOMAIN json.value |-> PairOf(json.value[i])]
      BY <1>5 DEF FieldOf, Separate
    <2>3. IsList(part[field]) /\ \A i \in DOMAIN part[field] : IsAlternative(part[field][i])
      BY <1>5 DEF IsPart
    <2> QED BY <2>1, <2>2, <2>3, PairsRead
  <1>6. CASE field = "confidence"
    <2>1. /\ json = ConfidenceValue(part.confidence)
          /\ IsField(shape, field, json) <=> IsConfidence(json)
          /\ FieldOf(shape, field, json) = ConfidenceOf(json)
      BY <1>6 DEF FieldValue, IsField, FieldOf, Separate
    <2> QED BY <1>6, <2>1, ConfidenceReads DEF IsPart
  <1>7. CASE field = "provenance"
    <2>1. /\ json = ProvenanceValue(part.provenance)
          /\ IsField(shape, field, json) <=> IsProvenance(json)
          /\ FieldOf(shape, field, json) = ProvenanceOf(json)
      BY <1>7 DEF FieldValue, IsField, FieldOf, Separate
    <2> QED BY <1>7, <2>1, ProvenanceReads DEF IsPart
  <1> QED BY <1>1, <1>2, <1>3, <1>4, <1>5, <1>6, <1>7 DEF Separate

LEMMA PartReads ==
    ASSUME NEW shape, Separate(shape), NEW part, IsPart(shape, part)
    PROVE  LET json == PartValue(shape, Fields(shape), part)
           IN  /\ HasFields(json, Fields(shape))
               /\ \A field \in Fields(shape) : IsField(shape, field, json.value[field])
               /\ PartOf(shape, json) = part /\ IsBuilt(shape, PartOf(shape, json))
  <1> DEFINE json == PartValue(shape, Fields(shape), part)
  <1>1. /\ json.type = "object" /\ DOMAIN json.value = Fields(shape)
        /\ \A field \in Fields(shape) :
              json.value[field] = FieldValue(shape, field, part[field])
    BY DEF PartValue, Json
  <1>2. \A field \in Fields(shape) :
            /\ IsField(shape, field, json.value[field])
            /\ FieldOf(shape, field, json.value[field]) = part[field]
    BY <1>1, FieldReads
  <1>3. PartOf(shape, json) = [field \in Fields(shape) |-> part[field]]
    BY <1>2 DEF PartOf
  <1>4. PartOf(shape, json) = part /\ IsBuilt(shape, part)
    BY <1>3 DEF IsPart
  <1>5. HasFields(json, Fields(shape))
    BY <1>1 DEF HasFields, IsA
  <1> QED BY <1>2, <1>4, <1>5

LEMMA PartsRead ==
    ASSUME NEW shape, Separate(shape), NEW parts, IsList(parts),
           \A i \in DOMAIN parts : IsPart(shape, parts[i])
    PROVE  LET json == PartsValue(shape, Fields(shape), parts)
           IN  IsParts(shape, json) /\ PartsOf(shape, json) = parts
  <1> DEFINE json == PartsValue(shape, Fields(shape), parts)
  <1>1. /\ json.type = "array" /\ DOMAIN json.value = DOMAIN parts
        /\ \A i \in DOMAIN parts : json.value[i] = PartValue(shape, Fields(shape), parts[i])
    BY DEF PartsValue, Json
  <1>2. \A i \in DOMAIN parts :
            /\ HasFields(json.value[i], Fields(shape))
            /\ \A field \in Fields(shape) : IsField(shape, field, json.value[i].value[field])
            /\ PartOf(shape, json.value[i]) = parts[i]
            /\ IsBuilt(shape, PartOf(shape, json.value[i]))
    BY <1>1, PartReads
  <1>3. IsParts(shape, json)
    BY <1>1, <1>2 DEF IsParts, IsA
  <1>4. PartsOf(shape, json) = [i \in DOMAIN parts |-> parts[i]]
    BY <1>1, <1>2 DEF PartsOf
  <1> QED BY <1>3, <1>4 DEF IsList

(* A document of this code: of its type, with what the builder asks for.   *)
IsWritten(document) ==
    /\ IsDraft(document) /\ document # Invalid
    /\ Given(document.title) /\ Given(document.goal) /\ Given(document.context)

LEMMA MergedFacts ==
    ASSUME NEW f, NEW g, DOMAIN f \cap DOMAIN g = {}
    PROVE  /\ Merged(f, g) = [x \in DOMAIN f \cup DOMAIN g |-> Merged(f, g)[x]]
           /\ DOMAIN Merged(f, g) = DOMAIN f \cup DOMAIN g
           /\ \A x \in DOMAIN f : Merged(f, g)[x] = f[x]
           /\ \A x \in DOMAIN g : Merged(f, g)[x] = g[x]
  BY DEF Merged

LEMMA ListNames ==
    Lists \cap (Scalars \cup {"format", "version"}) = {}
  BY DEF Lists, ShapeOf, Scalars

LEMMA DocumentFields ==
    ASSUME NEW document
    PROVE  LET json == DocumentValue(document)
           IN  /\ json.type = "object"
               /\ DOMAIN json.value = Lists \cup {"format", "version", "id", "title", "goal",
                                                  "context", "confidence", "provenance"}
               /\ \A list \in Lists :
                     json.value[list] =
                       PartsValue(ShapeOf[list], Fields(ShapeOf[list]), document[list])
               /\ json.value.format = Json("string", Format)
               /\ json.value.version = Json("number", Version)
               /\ json.value.id = Json("string", document.id)
               /\ json.value.title = Json("string", document.title)
               /\ json.value.goal = OptionValue(document.goal)
               /\ json.value.context = OptionValue(document.context)
               /\ json.value.confidence = ConfidenceValue(document.confidence)
               /\ json.value.provenance = ProvenanceValue(document.provenance)
  <1> DEFINE lists == [list \in Lists |->
                         PartsValue(ShapeOf[list], Fields(ShapeOf[list]), document[list])]
             scalars == [format |-> Json("string", Format), version |-> Json("number", Version),
                         id |-> Json("string", document.id),
                         title |-> Json("string", document.title),
                         goal |-> OptionValue(document.goal),
                         context |-> OptionValue(document.context),
                         confidence |-> ConfidenceValue(document.confidence),
                         provenance |-> ProvenanceValue(document.provenance)]
             value == Merged(lists, scalars)
  <1>1. DocumentValue(document).type = "object" /\ DocumentValue(document).value = value
    BY DEF DocumentValue, Json
  <1>2. DOMAIN scalars = {"format", "version", "id", "title", "goal", "context", "confidence",
                          "provenance"}
        /\ DOMAIN lists = Lists
    OBVIOUS
  <1>3. DOMAIN lists \cap DOMAIN scalars = {}
    BY <1>2, ListNames DEF Scalars
  <1>4. /\ scalars.format = Json("string", Format) /\ scalars.version = Json("number", Version)
        /\ scalars.id = Json("string", document.id)
        /\ scalars.title = Json("string", document.title)
        /\ scalars.goal = OptionValue(document.goal)
        /\ scalars.context = OptionValue(document.context)
        /\ scalars.confidence = ConfidenceValue(document.confidence)
        /\ scalars.provenance = ProvenanceValue(document.provenance)
    OBVIOUS
  <1>5. \A list \in Lists :
           lists[list] = PartsValue(ShapeOf[list], Fields(ShapeOf[list]), document[list])
    OBVIOUS
  <1>6. /\ DOMAIN value = DOMAIN lists \cup DOMAIN scalars
        /\ \A x \in DOMAIN lists : value[x] = lists[x]
        /\ \A x \in DOMAIN scalars : value[x] = scalars[x]
    <2> HIDE DEF lists, scalars
    <2> QED BY <1>3, MergedFacts
  <1> HIDE DEF value, lists, scalars
  <1>7. /\ value.format = scalars.format /\ value.version = scalars.version
        /\ value.id = scalars.id /\ value.title = scalars.title /\ value.goal = scalars.goal
        /\ value.context = scalars.context /\ value.confidence = scalars.confidence
        /\ value.provenance = scalars.provenance
    BY <1>2, <1>6
  <1> QED BY <1>1, <1>2, <1>4, <1>5, <1>6, <1>7

(* An encoding of a document may have a field of its own beside these.     *)
LEMMA EncodingFields ==
    ASSUME NEW document, NEW json \in Encodings(document)
    PROVE  /\ json.type = "object"
           /\ DOMAIN DocumentValue(document).value \subseteq DOMAIN json.value
           /\ \A field \in DOMAIN DocumentValue(document).value :
                 json.value[field] = DocumentValue(document).value[field]
  <1> DEFINE value == DocumentValue(document).value
             own == [reviewed |-> Json("bool", TRUE)]
  <1>1. DocumentValue(document).type = "object"
    BY DocumentFields
  <1>2. CASE json = DocumentValue(document)
    BY <1>1, <1>2
  <1>3. CASE json = Json("object", Merged(value, own))
    <2> HIDE DEF value, own
    <2>1. json.type = "object" /\ json.value = Merged(value, own)
      BY <1>3 DEF Json
    <2>2. /\ DOMAIN value \subseteq DOMAIN Merged(value, own)
          /\ \A field \in DOMAIN value : Merged(value, own)[field] = value[field]
      BY DEF Merged
    <2> QED BY <2>1, <2>2 DEF value
  <1> QED BY <1>2, <1>3 DEF Encodings

LEMMA EncodingValues ==
    ASSUME NEW document, NEW json \in Encodings(document)
    PROVE  /\ json.type = "object"
           /\ Lists \cup {"format", "version", "id", "title", "goal", "context", "confidence",
                          "provenance"} \subseteq DOMAIN json.value
           /\ \A list \in Lists :
                 json.value[list] =
                   PartsValue(ShapeOf[list], Fields(ShapeOf[list]), document[list])
           /\ json.value.format = Json("string", Format)
           /\ json.value.version = Json("number", Version)
           /\ json.value.id = Json("string", document.id)
           /\ json.value.title = Json("string", document.title)
           /\ json.value.goal = OptionValue(document.goal)
           /\ json.value.context = OptionValue(document.context)
           /\ json.value.confidence = ConfidenceValue(document.confidence)
           /\ json.value.provenance = ProvenanceValue(document.provenance)
  <1> DEFINE value == DocumentValue(document).value
             scalars == {"format", "version", "id", "title", "goal", "context", "confidence",
                         "provenance"}
  <1>1. /\ DOMAIN value = Lists \cup scalars
        /\ json.type = "object" /\ DOMAIN value \subseteq DOMAIN json.value
        /\ \A field \in DOMAIN value : json.value[field] = value[field]
    BY DocumentFields, EncodingFields
  <1>2. /\ \A list \in Lists :
              value[list] = PartsValue(ShapeOf[list], Fields(ShapeOf[list]), document[list])
        /\ value.format = Json("string", Format) /\ value.version = Json("number", Version)
        /\ value.id = Json("string", document.id) /\ value.title = Json("string", document.title)
        /\ value.goal = OptionValue(document.goal) /\ value.context = OptionValue(document.context)
        /\ value.confidence = ConfidenceValue(document.confidence)
        /\ value.provenance = ProvenanceValue(document.provenance)
    BY DocumentFields
  <1> HIDE DEF value
  <1>3. /\ json.value.format = value.format /\ json.value.version = value.version
        /\ json.value.id = value.id /\ json.value.title = value.title
        /\ json.value.goal = value.goal /\ json.value.context = value.context
        /\ json.value.confidence = value.confidence /\ json.value.provenance = value.provenance
        /\ \A list \in Lists : json.value[list] = value[list]
    BY <1>1
  <1> QED BY <1>1, <1>2, <1>3

(* An encoding of a document is read, and as what the builder makes of it. *)
LEMMA DocumentReads ==
    ASSUME NEW document, IsDraft(document), NEW json \in Encodings(document)
    PROVE  IsDocument(json) /\ DocumentOf(json) = Build(document)
  <1> DEFINE lists == [list \in Lists |-> PartsOf(ShapeOf[list], json.value[list])]
             scalars == [id |-> json.value.id.value, title |-> json.value.title.value,
                         goal |-> json.value.goal.value, context |-> json.value.context.value,
                         confidence |-> ConfidenceOf(json.value.confidence),
                         provenance |-> ProvenanceOf(json.value.provenance)]
             draft == Merged(lists, scalars)
  <1>1. /\ json.value.id.value = document.id /\ IsA("string", json.value.id)
        /\ json.value.title.value = document.title /\ IsA("string", json.value.title)
    <2>1. /\ json.value.id = Json("string", document.id)
          /\ json.value.title = Json("string", document.title)
      BY EncodingValues
    <2> QED BY <2>1 DEF Json, IsA
  <1>2. /\ json.value.goal.value = document.goal /\ IsOption(json.value.goal)
        /\ json.value.context.value = document.context /\ IsOption(json.value.context)
    BY EncodingValues, OptionReads
  <1>3. /\ ConfidenceOf(json.value.confidence) = document.confidence
        /\ IsConfidence(json.value.confidence)
    BY EncodingValues, ConfidenceReads DEF IsDraft
  <1>4. /\ ProvenanceOf(json.value.provenance) = document.provenance
        /\ IsProvenance(json.value.provenance)
    BY EncodingValues, ProvenanceReads DEF IsDraft
  <1>5. \A list \in Lists : /\ PartsOf(ShapeOf[list], json.value[list]) = document[list]
                            /\ IsParts(ShapeOf[list], json.value[list])
    BY EncodingValues, PartsRead, ShapesAreSeparate DEF IsDraft
  <1>6. HasFields(json, Lists \cup {"format", "version", "id", "title", "goal", "context",
                                    "confidence", "provenance"})
    BY EncodingValues DEF HasFields, IsA
  <1>7. json.value.format = Json("string", Format) /\ json.value.version = Json("number", Version)
    BY EncodingValues
  <1>8. DocumentOf(json) = Build(draft)
    BY DEF DocumentOf
  <1>9. /\ DOMAIN lists = Lists /\ DOMAIN scalars = Scalars
        /\ \A list \in Lists : lists[list] = document[list]
    BY <1>5 DEF Scalars
  <1>10. /\ scalars.id = document.id /\ scalars.title = document.title
         /\ scalars.goal = document.goal /\ scalars.context = document.context
         /\ scalars.confidence = document.confidence /\ scalars.provenance = document.provenance
    <2> QED BY <1>1, <1>2, <1>3, <1>4
  <1> HIDE DEF lists, scalars
  <1>11. \A field \in Scalars : scalars[field] = document[field]
    BY <1>10 DEF Scalars
  <1>12. draft = [field \in Lists \cup Scalars |-> draft[field]]
         /\ \A field \in Lists \cup Scalars : draft[field] = document[field]
    <2>1. DOMAIN lists \cap DOMAIN scalars = {}
      BY <1>9, ListNames
    <2>2. /\ draft = [field \in DOMAIN lists \cup DOMAIN scalars |-> draft[field]]
          /\ \A field \in DOMAIN lists : draft[field] = lists[field]
          /\ \A field \in DOMAIN scalars : draft[field] = scalars[field]
      BY <2>1, MergedFacts
    <2> HIDE DEF draft
    <2> QED BY <1>9, <1>11, <2>2
  <1>13. draft = document
    BY <1>12 DEF IsDraft
  <1> HIDE DEF draft
  <1>14. IsDocument(json)
    BY <1>1, <1>2, <1>3, <1>4, <1>5, <1>6, <1>7 DEF IsDocument
  <1> QED BY <1>8, <1>13, <1>14

-----------------------------------------------------------------------------
(* The rows of the store.                                                  *)

(* A record of the columns of a document that has a session.               *)
LEMMA RecordFields ==
    ASSUME NEW document, document.provenance.session_id # None, NEW at
    PROVE  LET record == ToRecord(document, at)
           IN  /\ DOMAIN record =
                    {"id", "session_id", "title", "goal", "context", "tools", "sequence",
                     "decisions", "variations", "evidence_confidence", "created_at"}
               /\ record.sequence = DocumentValue(document)
               /\ Agrees(document, record)
  BY DEF ToRecord, Agrees

(* A row whose column "sequence" holds an encoding of the document         *)
(* restores to it, or to nothing: where a scalar column says otherwise, or *)
(* no builder would take the document.                                     *)
LEMMA SequenceReads ==
    ASSUME NEW document, IsDraft(document),
           NEW record, record.sequence \in Encodings(document)
    PROVE  /\ FromRecord(record) \in {document, Invalid}
           /\ Build(document) # Invalid /\ Agrees(document, record)
                 => FromRecord(record) = document
  <1>1. IsDocument(record.sequence) /\ DocumentOf(record.sequence) = Build(document)
    BY DocumentReads
  <1>2. Build(document) \in {document, Invalid}
    BY DEF Build
  <1> QED BY <1>1, <1>2 DEF FromRecord

LEMMA RecordReads ==
    ASSUME NEW document, IsDraft(document), Restorable(document), NEW at
    PROVE  FromRecord(ToRecord(document, at)) = document
  <1>1. /\ ToRecord(document, at).sequence = DocumentValue(document)
        /\ Agrees(document, ToRecord(document, at))
    BY RecordFields DEF Restorable
  <1>2. ToRecord(document, at).sequence \in Encodings(document)
    BY <1>1 DEF Encodings
  <1> QED BY <1>1, <1>2, SequenceReads DEF Restorable

(* What another program puts in place of a document is a draft, or nothing *)
(* that is read as a document.                                             *)
LEMMA RedraftedIsDraft ==
    ASSUME NEW document, IsDraft(document), NEW draft \in Redrafted(document)
    PROVE  IsDraft(draft)
  <1>1. CASE draft \in Supplied
    BY <1>1, LibraryAssumption
  <1>2. CASE draft = [document EXCEPT !.steps = <<>>]
    <2>1. "steps" \in Lists /\ "steps" \notin Scalars /\ IsList(<<>>) /\ DOMAIN <<>> = {}
      BY DEF Lists, ShapeOf, Scalars, IsList
    <2> QED BY <1>2, <2>1, ListNames DEF IsDraft, Scalars
  <1>3. CASE draft = [document EXCEPT !.title = Empty]
    BY <1>3, ListNames DEF IsDraft, Scalars
  <1>4. CASE draft = [document EXCEPT !.confidence = Unknown]
    <2>1. IsAssessment(Unknown)
      BY DEF IsAssessment, Unknown, Confidence
    <2> QED BY <1>4, <2>1, ListNames DEF IsDraft, Scalars
  <1> QED BY <1>1, <1>2, <1>3, <1>4 DEF Redrafted

LEMMA UndocumentedIsRefused ==
    ASSUME NEW document, NEW json \in Undocumented(document) PROVE ~IsDocument(json)
  <1> DEFINE newer == [version |-> Json("number", Version + 1)]
             value == Merged(newer, DocumentValue(document).value)
  <1>1. CASE json = Json("string", <<"open", "the", "report">>)
    BY <1>1 DEF IsDocument, HasFields, IsA, Json
  <1>2. CASE json = Json("object", value)
    <2>1. value.version = Json("number", Version + 1)
      <3>1. "version" \in DOMAIN newer /\ newer.version = Json("number", Version + 1)
        OBVIOUS
      <3> HIDE DEF newer
      <3> QED BY <3>1 DEF Merged
    <2> HIDE DEF value
    <2>2. json.value.version.value = 2
      BY <1>2, <2>1 DEF Json, Version
    <2>3. Json("number", Version).value = 1
      BY DEF Json, Version
    <2> QED BY <2>2, <2>3 DEF IsDocument
  <1> QED BY <1>1, <1>2 DEF Undocumented

-----------------------------------------------------------------------------
(* What the builders make is of the type of a document.                    *)

IsObservation(o) ==
    /\ o = [id |-> o.id, capture_id |-> o.capture_id, session_id |-> o.session_id,
            title |-> o.title, summary |-> o.summary, confidence |-> o.confidence]
    /\ o.confidence \in 0 .. Full

LEMMA BuilderFacts ==
    ASSUME NEW id, NEW title
    PROVE  /\ DOMAIN Builder(id, title) = Lists \cup Scalars
           /\ \A list \in Lists : Builder(id, title)[list] = <<>>
  <1> DEFINE lists == [list \in Lists |-> <<>>]
             scalars == [id |-> id, title |-> title, goal |-> None, context |-> None,
                         confidence |-> Unknown, provenance |-> NoProvenance]
  <1>1. Builder(id, title) = Merged(lists, scalars)
    BY DEF Builder
  <1>2. DOMAIN lists = Lists /\ DOMAIN scalars = Scalars /\ \A list \in Lists : lists[list] = <<>>
    BY DEF Scalars
  <1> HIDE DEF lists, scalars
  <1>3. DOMAIN lists \cap DOMAIN scalars = {}
    BY <1>2, ListNames
  <1>4. /\ DOMAIN Merged(lists, scalars) = DOMAIN lists \cup DOMAIN scalars
        /\ \A x \in DOMAIN lists : Merged(lists, scalars)[x] = lists[x]
    BY <1>3, MergedFacts
  <1> QED BY <1>1, <1>2, <1>4

(* A draft without parts, of the goal, context and evidence given.         *)
LEMMA PartlessDraft ==
    ASSUME NEW draft, draft = [field \in Lists \cup Scalars |-> draft[field]],
           \A list \in Lists : draft[list] = <<>>,
           IsAssessment(draft.confidence), IsOrigin(draft.provenance)
    PROVE  IsDraft(draft)
  <1>1. IsList(<<>>) /\ DOMAIN <<>> = {}
    BY DEF IsList
  <1> QED BY <1>1 DEF IsDraft

LEMMA OriginFacts ==
    ASSUME NEW session, NEW observations_, NEW captures_, NEW note,
           IsList(observations_), IsList(captures_)
    PROVE  IsOrigin(Provenance(session, observations_, captures_, note))
  BY DEF IsOrigin, Provenance

LEMMA ShortLists == IsList(<<>>) /\ \A x : IsList(<<x>>)
  BY DEF IsList

LEMMA AssessmentFacts ==
    ASSUME NEW score \in 0 .. Full, NEW basis
    PROVE  IsAssessment(Confidence(score, basis))
  BY DEF IsAssessment, Confidence

LEMMA BuiltIsWritten ==
    ASSUME NEW draft, IsDraft(draft), Build(draft) # Invalid
    PROVE  Build(draft) = draft /\ IsWritten(draft)
  BY DEF Build, IsWritten

LEMMA ObservationIsWritten ==
    ASSUME NEW o, IsObservation(o), FromObservation(o) # Invalid
    PROVE  IsWritten(FromObservation(o))
  <1> DEFINE start == Builder(<<"observation">> \o o.id, o.title)
             evidence == Confidence(o.confidence, <<"inherited">>)
             origin == Provenance(o.session_id, <<o.id>>,
                         IF o.capture_id = None THEN <<>> ELSE <<o.capture_id>>,
                         <<"one", "observation">>)
             draft == [start EXCEPT !.context = o.summary, !.confidence = evidence,
                                    !.provenance = origin]
  <1>1. FromObservation(o) = Build(draft)
    BY DEF FromObservation
  <1>2. IsAssessment(evidence)
    BY AssessmentFacts DEF IsObservation
  <1>3. IsOrigin(origin)
    BY OriginFacts, ShortLists
  <1>4. DOMAIN start = Lists \cup Scalars /\ \A list \in Lists : start[list] = <<>>
    BY BuilderFacts
  <1> HIDE DEF start, evidence, origin
  <1>5. /\ draft = [field \in Lists \cup Scalars |-> draft[field]]
        /\ \A list \in Lists : draft[list] = <<>>
        /\ draft.confidence = evidence /\ draft.provenance = origin
    BY <1>4, ListNames DEF Scalars
  <1> HIDE DEF draft
  <1>6. IsDraft(draft)
    BY <1>2, <1>3, <1>5, PartlessDraft
  <1> QED BY <1>1, <1>6, BuiltIsWritten

LEMMA CandidateIsWritten ==
    ASSUME NEW session, session # None, NEW candidate, NEW index, NEW evidence, NEW capture,
           IsAssessment(evidence),
           FromCandidate(session, candidate, index, evidence, capture) # Invalid
    PROVE  LET document == FromCandidate(session, candidate, index, evidence, capture)
           IN  IsWritten(document) /\ document.provenance.session_id # None
  <1> DEFINE start == Builder(<<"candidate">> \o session \o <<index>>, candidate.title)
             origin == Provenance(session, <<>>, <<capture>>, <<"provider", "candidate">>)
             draft == [start EXCEPT !.goal = candidate.goal, !.confidence = evidence,
                                    !.provenance = origin]
  <1>1. FromCandidate(session, candidate, index, evidence, capture) = Build(draft)
    BY DEF FromCandidate
  <1>2. IsOrigin(origin)
    BY OriginFacts, ShortLists
  <1>3. origin.session_id = session
    BY DEF Provenance
  <1>4. DOMAIN start = Lists \cup Scalars /\ \A list \in Lists : start[list] = <<>>
    BY BuilderFacts
  <1> HIDE DEF start, origin
  <1>5. /\ draft = [field \in Lists \cup Scalars |-> draft[field]]
        /\ \A list \in Lists : draft[list] = <<>>
        /\ draft.confidence = evidence /\ draft.provenance = origin
    BY <1>4, ListNames DEF Scalars
  <1> HIDE DEF draft
  <1>6. IsDraft(draft)
    BY <1>2, <1>5, PartlessDraft
  <1> QED BY <1>1, <1>3, <1>5, <1>6, BuiltIsWritten

-----------------------------------------------------------------------------
(* The invariant of the rows.                                              *)

(* The column "sequence" of a row encodes the draft it was last given, or  *)
(* nothing that is read as a document; the observations are of their type, *)
(* since documents are built from them.                                    *)
RowInv(id) ==
    /\ id \in DOMAIN written /\ IsDraft(written[id])
    /\ "sequence" \in DOMAIN workflows[id]
    /\ \/ workflows[id].sequence \in Encodings(written[id])
       \/ ~IsDocument(workflows[id].sequence)
RowsInv ==
    /\ \A id \in DOMAIN workflows : RowInv(id)
    /\ \A id \in DOMAIN observations : IsObservation(observations[id])

(* The row of a document of this code.                                     *)
LEMMA PutRowLemma ==
    ASSUME \A id \in DOMAIN workflows : RowInv(id),
           NEW document, IsWritten(document), document.provenance.session_id # None, NEW at,
           workflows' = Put(workflows, document.id, ToRecord(document, at)),
           written' = Put(written, document.id, document)
    PROVE  \A id \in DOMAIN workflows' : RowInv(id)'
  <1> DEFINE key == document.id
             record == ToRecord(document, at)
  <1>1. /\ DOMAIN workflows' = DOMAIN workflows \cup {key} /\ workflows'[key] = record
        /\ \A other \in DOMAIN workflows \ {key} : workflows'[other] = workflows[other]
    <2>1. workflows' = Put(workflows, key, record)
      OBVIOUS
    <2> HIDE DEF key, record
    <2> QED BY <2>1 DEF Put, Merged
  <1>2. /\ DOMAIN written' = DOMAIN written \cup {key} /\ written'[key] = document
        /\ \A other \in DOMAIN written \ {key} : written'[other] = written[other]
    <2>1. written' = Put(written, key, document)
      OBVIOUS
    <2> HIDE DEF key
    <2> QED BY <2>1 DEF Put, Merged
  <1> HIDE DEF key
  <1> SUFFICES ASSUME NEW id \in DOMAIN workflows' PROVE RowInv(id)'
    OBVIOUS
  <1>3. CASE id = key
    <2>1. workflows'[id] = record /\ written'[id] = document /\ id \in DOMAIN written'
      BY <1>3, <1>1, <1>2
    <2>2. /\ "sequence" \in DOMAIN record /\ record.sequence = DocumentValue(document)
      BY RecordFields
    <2>3. record.sequence \in Encodings(document) /\ IsDraft(document)
      BY <2>2 DEF Encodings, IsWritten
    <2> HIDE DEF record
    <2> QED BY <2>1, <2>2, <2>3 DEF RowInv
  <1>4. CASE id # key
    <2>1. id \in DOMAIN workflows /\ workflows'[id] = workflows[id]
      BY <1>4, <1>1
    <2>2. id \in DOMAIN written /\ id \in DOMAIN written' /\ written'[id] = written[id]
      BY <1>4, <2>1, <1>2 DEF RowInv
    <2> QED BY <2>1, <2>2 DEF RowInv
  <1> QED BY <1>3, <1>4

LEMMA CommitLemma ==
    ASSUME RowsInv, NEW s \in Session, NEW c \in Capture, NEW f \in Findings,
           NEW k \in Candidates, CommitAnalysis(s, c, f, k)
    PROVE  RowsInv'
  <1> DEFINE observation == ObservationOf(s, c, f)
             evidence == Confidence(f.confidence, <<"inherited">>)
             document == FromCandidate(s, k, "0", evidence, c)
  <1>1. CASE UNCHANGED <<observations, workflows, written>>
    BY <1>1 DEF RowsInv, RowInv
  <1>2. CASE /\ observations' = Put(observations, observation.id, observation)
             /\ workflows' = Put(workflows, document.id, ToRecord(document, writes))
             /\ written' = Put(written, document.id, document)
    <2>1. document # Invalid
      BY DEF CommitAnalysis
    <2>2. s # None /\ f.confidence \in 0 .. Full
      BY LibraryAssumption
    <2>3. IsObservation(observation)
      BY <2>2 DEF IsObservation, ObservationOf
    <2>4. IsAssessment(evidence)
      BY <2>2, AssessmentFacts
    <2> HIDE DEF observation, evidence
    <2>5. IsWritten(document) /\ document.provenance.session_id # None
      BY <2>1, <2>2, <2>4, CandidateIsWritten
    <2> HIDE DEF document
    <2>6. \A id \in DOMAIN workflows' : RowInv(id)'
      BY <1>2, <2>5, PutRowLemma DEF RowsInv
    <2>7. \A id \in DOMAIN observations' : IsObservation(observations'[id])
      <3> DEFINE key == observation.id
      <3>1. observations' = Put(observations, key, observation)
        BY <1>2
      <3> HIDE DEF key
      <3>2. /\ DOMAIN observations' = DOMAIN observations \cup {key}
            /\ observations'[key] = observation
            /\ \A other \in DOMAIN observations \ {key} :
                  observations'[other] = observations[other]
        BY <3>1 DEF Put, Merged
      <3> QED BY <2>3, <3>2 DEF RowsInv
    <2> QED BY <2>6, <2>7 DEF RowsInv
  <1> QED BY <1>1, <1>2 DEF CommitAnalysis

LEMMA PutWorkflowLemma ==
    ASSUME RowsInv, NEW document \in Built, PutWorkflow(document)
    PROVE  RowsInv'
  <1>1. UNCHANGED observations /\ document # Invalid
    BY DEF PutWorkflow
  <1>2. CASE UNCHANGED <<workflows, written>>
    BY <1>1, <1>2 DEF RowsInv, RowInv
  <1>3. CASE /\ ToRecord(document, writes) # Invalid
             /\ workflows' = Put(workflows, document.id, ToRecord(document, writes))
             /\ written' = Put(written, document.id, document)
    <2>1. document.provenance.session_id # None
      BY <1>3 DEF ToRecord
    <2>2. IsWritten(document)
      <3>1. CASE \E draft \in Supplied : document = Build(draft)
        BY <1>1, <3>1, LibraryAssumption, BuiltIsWritten
      <3>2. CASE \E id \in DOMAIN observations : document = FromObservation(observations[id])
        BY <1>1, <3>2, ObservationIsWritten DEF RowsInv
      <3> QED BY <3>1, <3>2 DEF Built
    <2>3. \A id \in DOMAIN workflows' : RowInv(id)'
      BY <1>3, <2>1, <2>2, PutRowLemma DEF RowsInv
    <2> QED BY <1>1, <2>3 DEF RowsInv
  <1> QED BY <1>2, <1>3 DEF PutWorkflow

(* A rewriting leaves a row and the draft its column encodes, or a row     *)
(* that is not read as a document.                                         *)
RewrittenInto(id, row, draft) ==
    /\ workflows' = [workflows EXCEPT ![id] = row]
    /\ DOMAIN written' = DOMAIN written /\ written'[id] = draft
    /\ \A other \in DOMAIN written \ {id} : written'[other] = written[other]
    /\ IsDraft(draft) /\ "sequence" \in DOMAIN row
    /\ row.sequence \in Encodings(draft) \/ ~IsDocument(row.sequence)

LEMMA RewriteLemma ==
    ASSUME RowsInv, NEW id \in DOMAIN workflows, RewriteColumn(id)
    PROVE  RowsInv'
  <1>1. UNCHANGED observations /\ RowInv(id)
    BY DEF RewriteColumn, RowsInv
  <1>2. \E row, draft : RewrittenInto(id, row, draft)
    <2>1. ASSUME NEW record \in Rewritten(workflows[id]), UNCHANGED written,
                 workflows' = [workflows EXCEPT ![id] = record]
          PROVE  RewrittenInto(id, record, written[id])
      <3>1. record.sequence = workflows[id].sequence /\ "sequence" \in DOMAIN record
        BY <1>1 DEF Rewritten, RowInv
      <3> QED BY <1>1, <2>1, <3>1 DEF RowInv, RewrittenInto
    <2>2. ASSUME NEW draft \in Redrafted(written[id]), NEW json \in Encodings(draft),
                 workflows' = [workflows EXCEPT ![id].sequence = json],
                 written' = [written EXCEPT ![id] = draft]
          PROVE  RewrittenInto(id, [workflows[id] EXCEPT !.sequence = json], draft)
      <3>1. IsDraft(draft)
        BY <1>1, RedraftedIsDraft DEF RowInv
      <3> QED BY <1>1, <2>2, <3>1 DEF RowInv, RewrittenInto
    <2>3. ASSUME NEW json \in Undocumented(written[id]), UNCHANGED written,
                 workflows' = [workflows EXCEPT ![id].sequence = json]
          PROVE  RewrittenInto(id, [workflows[id] EXCEPT !.sequence = json], written[id])
      <3>1. ~IsDocument(json)
        BY UndocumentedIsRefused
      <3> QED BY <1>1, <2>3, <3>1 DEF RowInv, RewrittenInto
    <2> QED BY <2>1, <2>2, <2>3 DEF RewriteColumn
  <1>3. PICK row, draft : RewrittenInto(id, row, draft)
    BY <1>2
  <1>4. /\ DOMAIN workflows' = DOMAIN workflows /\ workflows'[id] = row
        /\ DOMAIN written' = DOMAIN written /\ written'[id] = draft
        /\ \A other \in DOMAIN workflows \ {id} : workflows'[other] = workflows[other]
        /\ \A other \in DOMAIN written \ {id} : written'[other] = written[other]
    BY <1>1, <1>3 DEF RewrittenInto, RowInv
  <1>5. ASSUME NEW key \in DOMAIN workflows' PROVE RowInv(key)'
    <2>1. CASE key = id
      BY <1>1, <1>3, <1>4, <2>1 DEF RowInv, RewrittenInto
    <2>2. CASE key # id
      <3>1. RowInv(key) /\ workflows'[key] = workflows[key] /\ written'[key] = written[key]
        BY <1>4, <2>2 DEF RowsInv, RowInv
      <3> QED BY <1>4, <3>1 DEF RowInv
    <2> QED BY <2>1, <2>2
  <1> QED BY <1>1, <1>5 DEF RowsInv

LEMMA DeleteLemma ==
    ASSUME RowsInv, NEW gone, DeleteCaptures(gone)
    PROVE  RowsInv'
  <1>1. UNCHANGED <<workflows, written>>
    BY DEF DeleteCaptures
  <1>2. ASSUME NEW id \in DOMAIN observations' PROVE IsObservation(observations'[id])
    <2>1. /\ id \in DOMAIN observations
          /\ observations'[id] \in {observations[id],
                                    [observations[id] EXCEPT !.capture_id = None]}
      BY DEF DeleteCaptures
    <2>2. IsObservation(observations[id])
      BY <2>1 DEF RowsInv
    <2> QED BY <2>1, <2>2 DEF IsObservation
  <1> QED BY <1>1, <1>2 DEF RowsInv, RowInv

LEMMA RowsUntouched ==
    ASSUME RowsInv, UNCHANGED <<observations, workflows, written>> PROVE RowsInv'
  BY DEF RowsInv, RowInv

LEMMA WritingLemma == ASSUME RowsInv, Writing PROVE RowsInv'
  <1>1. ASSUME NEW c \in Capture, PutCapture(c) PROVE RowsInv'
    BY <1>1, RowsUntouched DEF PutCapture
  <1>2. ASSUME NEW count \in 0 .. 1, PutNotice(count) PROVE RowsInv'
    BY <1>2, RowsUntouched DEF PutNotice
  <1> QED BY <1>1, <1>2, DeleteLemma, CommitLemma, PutWorkflowLemma, RewriteLemma DEF Writing

LEMMA RowsKept == Opening \/ Exporting \/ UNCHANGED vars => UNCHANGED rows
  BY DEF Opening, OpenStore, Migrate, Validate, Crash, Exporting, SaveExport, CancelExport,
         CheckCancelled, CreateTemp, WriteTemp, RenameTemp, ReplySaved, CleanUp, CrashExport,
         StoreUntouched, vars, rows

(* The invariant holds, whatever the candidates and the supplied documents *)
(* are.                                                                    *)
LEMMA RowsInvariant == Spec => []RowsInv
  <1>1. Init => RowsInv
    BY DEF Init, RowsInv
  <1>2. RowsInv /\ [Next]_vars => RowsInv'
    <2>1. UNCHANGED rows /\ RowsInv => RowsInv'
      BY RowsUntouched DEF rows
    <2> QED BY <2>1, WritingLemma, RowsKept DEF Next
  <1> QED BY <1>1, <1>2, PTL DEF Spec

(* A row restores to the whole document its column "sequence" was last     *)
(* given, by this code or by another program, with the evidence of every   *)
(* part, or to nothing; and to nothing only where the columns disagree, or *)
(* no builder would take that document or it has no session                *)
(* (WorkflowDocument::to_record and from_record).                          *)
THEOREM RowsRestoreWhatWasWritten == Spec => []RestoresWhatWasWritten
  <1>1. RowsInv => RestoresWhatWasWritten
    <2> SUFFICES ASSUME RowsInv, NEW id \in DOMAIN workflows
                 PROVE  /\ FromRecord(workflows[id]) \in {written[id], Invalid}
                        /\ Restorable(written[id]) =>
                              (workflows[id] = ToRecord(written[id], workflows[id].created_at)
                                  => FromRecord(workflows[id]) = written[id])
      BY DEF RestoresWhatWasWritten
    <2>1. RowInv(id)
      BY DEF RowsInv
    <2>2. FromRecord(workflows[id]) \in {written[id], Invalid}
      BY <2>1, SequenceReads DEF RowInv, FromRecord
    <2> QED BY <2>1, <2>2, RecordReads DEF RowInv
  <1> QED BY <1>1, RowsInvariant, PTL

-----------------------------------------------------------------------------
(* Numbers: induction, as a fact about a set of them.                      *)

LEMMA Smallest ==
    ASSUME NEW S, S \subseteq Nat, S # {}
    PROVE  \E i \in S : \A j \in S : i <= j
  <1>1. PICK i \in S : \A j \in S : ~ (<<j, i>> \in OpToRel(<, Nat))
    BY NatLessThanWellFounded, WFMin, Zenon
  <1>2. \A j \in S : ~ (j < i)
    BY <1>1 DEF OpToRel
  <1> QED BY <1>2

LEMMA SetInduction ==
    ASSUME NEW S, 0 \in S, \A n \in Nat : n \in S => n + 1 \in S
    PROVE  Nat \subseteq S
  <1> DEFINE T == Nat \ S
  <1>1. SUFFICES ASSUME T # {} PROVE FALSE
    OBVIOUS
  <1>2. PICK i \in T : \A j \in T : i <= j
    BY <1>1, Smallest
  <1>3. i # 0 /\ i - 1 \in Nat /\ i - 1 \notin T
    BY <1>2
  <1> QED BY <1>3

-----------------------------------------------------------------------------
(* Lists, and what FlattenSeq makes of a list of lists.                    *)

ItemsOf(s) == {s[i] : i \in DOMAIN s}

LEMMA ListFacts ==
    ASSUME NEW s, IsList(s)
    PROVE  Len(s) \in Nat /\ DOMAIN s = 1 .. Len(s) /\ s = [i \in 1 .. Len(s) |-> s[i]]
  <1>1. s \in Seq(ItemsOf(s))
    BY DEF IsList, ItemsOf
  <1> QED BY <1>1

LEMMA IsListOf ==
    ASSUME NEW n \in Nat, NEW s, s = [i \in 1 .. n |-> s[i]]
    PROVE  IsList(s) /\ Len(s) = n /\ DOMAIN s = 1 .. n
  <1>1. DOMAIN s = 1 .. n
    OBVIOUS
  <1>2. s \in [1 .. n -> ItemsOf(s)]
    BY <1>1 DEF ItemsOf
  <1>3. s \in Seq(ItemsOf(s))
    BY <1>2
  <1> QED BY <1>1, <1>2, <1>3 DEF IsList, ItemsOf

LEMMA ListsEqual ==
    ASSUME NEW a, IsList(a), NEW b, IsList(b), Len(a) = Len(b), \A i \in 1 .. Len(a) : a[i] = b[i]
    PROVE  a = b
  <1>1. a = [i \in 1 .. Len(a) |-> a[i]] /\ b = [i \in 1 .. Len(b) |-> b[i]]
    BY ListFacts
  <1> QED BY <1>1

LEMMA CatFacts ==
    ASSUME NEW a, IsList(a), NEW b, IsList(b)
    PROVE  /\ IsList(a \o b) /\ Len(a \o b) = Len(a) + Len(b)
           /\ DOMAIN (a \o b) = 1 .. Len(a) + Len(b)
           /\ \A i \in 1 .. Len(a) : (a \o b)[i] = a[i]
           /\ \A i \in 1 .. Len(b) : (a \o b)[Len(a) + i] = b[i]
  <1> DEFINE S == ItemsOf(a) \cup ItemsOf(b)
  <1>1. a \in Seq(S) /\ b \in Seq(S)
    <2>1. a \in Seq(ItemsOf(a)) /\ b \in Seq(ItemsOf(b))
      BY DEF IsList, ItemsOf
    <2> QED BY <2>1
  <1> HIDE DEF S
  <1>2. /\ a \o b \in Seq(S) /\ Len(a \o b) = Len(a) + Len(b) /\ Len(a) \in Nat /\ Len(b) \in Nat
        /\ \A i \in 1 .. Len(a) : (a \o b)[i] = a[i]
        /\ \A i \in 1 .. Len(b) : (a \o b)[Len(a) + i] = b[i]
    BY <1>1
  <1>3. a \o b = [i \in 1 .. Len(a) + Len(b) |-> (a \o b)[i]]
    <2> DEFINE c == a \o b
    <2>1. c \in Seq(S) /\ Len(c) = Len(a) + Len(b)
      BY <1>2
    <2> HIDE DEF c
    <2>2. c = [i \in 1 .. Len(c) |-> c[i]]
      BY <2>1
    <2> QED BY <2>1, <2>2 DEF c
  <1>4. Len(a) + Len(b) \in Nat
    BY <1>2
  <1>5. IsList(a \o b) /\ DOMAIN (a \o b) = 1 .. Len(a) + Len(b)
    BY <1>3, <1>4, IsListOf
  <1> QED BY <1>2, <1>5

LEMMA CatEmpty ==
    ASSUME NEW a, IsList(a)
    PROVE  <<>> \o a = a /\ a \o <<>> = a /\ IsList(<<>>)
  <1>1. a \in Seq(ItemsOf(a))
    BY DEF IsList, ItemsOf
  <1> QED BY <1>1 DEF IsList

LEMMA CatAssoc ==
    ASSUME NEW a, IsList(a), NEW b, IsList(b), NEW c, IsList(c)
    PROVE  (a \o b) \o c = a \o (b \o c)
  <1> DEFINE S == ItemsOf(a) \cup (ItemsOf(b) \cup ItemsOf(c))
  <1>1. a \in Seq(S) /\ b \in Seq(S) /\ c \in Seq(S)
    <2>1. a \in Seq(ItemsOf(a)) /\ b \in Seq(ItemsOf(b)) /\ c \in Seq(ItemsOf(c))
      BY DEF IsList, ItemsOf
    <2> QED BY <2>1
  <1> HIDE DEF S
  <1> QED BY <1>1, ConcatAssociative

LEMMA OneItem ==
    ASSUME NEW x
    PROVE  IsList(<<x>>) /\ Len(<<x>>) = 1 /\ DOMAIN <<x>> = {1} /\ <<x>>[1] = x
  BY DEF IsList

(* A list is empty, or a shorter one and its last item.                    *)
LEMMA LastItem ==
    ASSUME NEW s, IsList(s), s # <<>>
    PROVE  LET n == Len(s) - 1
               r == [i \in 1 .. n |-> s[i]]
           IN  /\ n \in Nat /\ IsList(r) /\ Len(r) = n /\ s = r \o <<s[Len(s)]>>
               /\ \A i \in 1 .. n : r[i] = s[i] /\ i \in 1 .. Len(s)
  <1> DEFINE n == Len(s) - 1
             r == [i \in 1 .. n |-> s[i]]
             z == <<s[Len(s)]>>
  <1>0. Len(s) \in Nat /\ DOMAIN s = 1 .. Len(s) /\ s = [i \in 1 .. Len(s) |-> s[i]]
    BY ListFacts
  <1>1. n \in Nat
    <2>1. Len(s) = 0 => s = <<>>
      <3>1. s \in Seq(ItemsOf(s))
        BY DEF IsList, ItemsOf
      <3> QED BY <3>1
    <2> QED BY <2>1, <1>0
  <1>2. r = [i \in 1 .. n |-> r[i]] /\ \A i \in 1 .. n : r[i] = s[i] /\ i \in 1 .. Len(s)
    BY <1>0
  <1>2a. n + 1 = Len(s)
    BY <1>0
  <1> HIDE DEF r, n
  <1>3. IsList(r) /\ Len(r) = n
    BY <1>1, <1>2, IsListOf
  <1>4. IsList(z) /\ Len(z) = 1 /\ z[1] = s[Len(s)]
    BY OneItem
  <1> HIDE DEF z
  <1>5. /\ IsList(r \o z) /\ Len(r \o z) = n + 1
        /\ \A i \in 1 .. n : (r \o z)[i] = r[i]
        /\ \A i \in 1 .. 1 : (r \o z)[n + i] = z[i]
    <2>1. /\ IsList(r \o z) /\ Len(r \o z) = Len(r) + Len(z)
          /\ \A i \in 1 .. Len(r) : (r \o z)[i] = r[i]
          /\ \A i \in 1 .. Len(z) : (r \o z)[Len(r) + i] = z[i]
      <3>1. IsList(r) /\ IsList(z)
        BY <1>3, <1>4
      <3> QED BY <3>1, CatFacts
    <2> QED BY <2>1, <1>3, <1>4
  <1>6. \A i \in 1 .. Len(s) : s[i] = (r \o z)[i]
    <2>1. ASSUME NEW i \in 1 .. Len(s)
          PROVE  s[i] = (r \o z)[i]
      <3>1. CASE i \in 1 .. n
        BY <3>1, <1>2, <1>5
      <3>2. CASE i \notin 1 .. n
        <4>1. i = n + 1 /\ 1 \in 1 .. 1
          BY <3>2, <2>1, <1>0, <1>1, <1>2a
        <4>2. (r \o z)[n + 1] = z[1]
          BY <4>1, <1>5
        <4> QED BY <4>1, <4>2, <1>2a, <1>4
      <3> QED BY <3>1, <3>2
    <2> QED BY <2>1
  <1>7. s = r \o z
    BY <1>2a, <1>5, <1>6, ListsEqual
  <1> QED BY <1>1, <1>2, <1>3, <1>7 DEF n, r, z

(* The lists that FlattenSeq puts together, one after the other.           *)
Flattens(seqs, n, f) == f = [i \in 1 .. n |-> IF i = 1 THEN seqs[i] ELSE f[i - 1] \o seqs[i]]

LEMMA FlattensExists ==
    ASSUME NEW seqs, NEW n \in Nat
    PROVE  \E f : Flattens(seqs, n, f)
  <1> DEFINE S == {m \in Nat : \E f : Flattens(seqs, m, f)}
  <1>1. 0 \in S
    <2> DEFINE none == [i \in 1 .. 0 |-> <<>>]
    <2>1. none = [i \in 1 .. 0 |-> IF i = 1 THEN seqs[i] ELSE none[i - 1] \o seqs[i]]
      OBVIOUS
    <2>2. Flattens(seqs, 0, none)
      BY <2>1, Zenon DEF Flattens
    <2> QED BY <2>2
  <1>2. ASSUME NEW m \in Nat, NEW f, Flattens(seqs, m, f)
        PROVE  \E g : Flattens(seqs, m + 1, g)
    <2> DEFINE g == [i \in 1 .. m + 1 |-> IF i = 1 THEN seqs[i] ELSE f[i - 1] \o seqs[i]]
    <2>1. ASSUME NEW i \in 1 .. m + 1, i # 1
          PROVE  f[i - 1] = g[i - 1]
      <3> DEFINE j == i - 1
      <3>1. j \in 1 .. m /\ j \in 1 .. m + 1
        BY <2>1
      <3> HIDE DEF j
      <3>2. f[j] = IF j = 1 THEN seqs[j] ELSE f[j - 1] \o seqs[j]
        BY <1>2, <3>1 DEF Flattens
      <3>3. g[j] = IF j = 1 THEN seqs[j] ELSE f[j - 1] \o seqs[j]
        BY <3>1
      <3> HIDE DEF g
      <3> QED BY <3>2, <3>3, Zenon DEF j
    <2>2. g = [i \in 1 .. m + 1 |-> IF i = 1 THEN seqs[i] ELSE g[i - 1] \o seqs[i]]
      BY <2>1
    <2> HIDE DEF g
    <2>3. Flattens(seqs, m + 1, g)
      BY <2>2, Zenon DEF Flattens
    <2> QED BY <2>3
  <1>3. Nat \subseteq S
    <2>1. ASSUME NEW m \in Nat, m \in S
          PROVE  m + 1 \in S
      <3>1. PICK f : Flattens(seqs, m, f)
        BY <2>1
      <3>2. \E g : Flattens(seqs, m + 1, g)
        BY <3>1, <1>2, Zenon
      <3> QED BY <3>2
    <2> HIDE DEF S
    <2> QED BY <1>1, <2>1, SetInduction
  <1> QED BY <1>3

LEMMA FlattensAgree ==
    ASSUME NEW n \in Nat, NEW m \in Nat, n <= m, NEW a, NEW b, \A i \in 1 .. n : a[i] = b[i],
           NEW f, Flattens(a, n, f), NEW g, Flattens(b, m, g), NEW i \in 1 .. n
    PROVE  f[i] = g[i]
  <1> DEFINE S == {k \in Nat : k + 1 \in 1 .. n => f[k + 1] = g[k + 1]}
  <1>1. ASSUME NEW k \in 1 .. n
        PROVE  /\ f[k] = IF k = 1 THEN a[k] ELSE f[k - 1] \o a[k]
               /\ g[k] = IF k = 1 THEN a[k] ELSE g[k - 1] \o a[k]
    <2>1. k \in 1 .. m
      OBVIOUS
    <2>2. f[k] = IF k = 1 THEN a[k] ELSE f[k - 1] \o a[k]
      BY DEF Flattens
    <2>3. g[k] = IF k = 1 THEN b[k] ELSE g[k - 1] \o b[k]
      BY <2>1 DEF Flattens
    <2> QED BY <2>2, <2>3
  <1>2. 0 \in S
    <2>1. 1 \in 1 .. n => f[1] = g[1]
      BY <1>1
    <2> QED BY <2>1
  <1>3. ASSUME NEW k \in Nat, k + 1 \in 1 .. n => f[k + 1] = g[k + 1], k + 1 + 1 \in 1 .. n
        PROVE  f[k + 1 + 1] = g[k + 1 + 1]
    <2> DEFINE j == k + 1 + 1
    <2>1. j \in 1 .. n /\ j # 1 /\ j - 1 = k + 1 /\ k + 1 \in 1 .. n
      BY <1>3
    <2>2. f[k + 1] = g[k + 1]
      BY <2>1, <1>3
    <2> HIDE DEF j
    <2>3. f[j] = f[j - 1] \o a[j] /\ g[j] = g[j - 1] \o a[j]
      BY <2>1, <1>1
    <2>4. f[j] = g[j]
      BY <2>1, <2>2, <2>3
    <2> QED BY <2>4 DEF j
  <1>4. Nat \subseteq S
    <2>1. \A k \in Nat : k \in S => k + 1 \in S
      BY <1>3
    <2> HIDE DEF S
    <2> QED BY <1>2, <2>1, SetInduction
  <1>5. i - 1 \in Nat /\ i - 1 + 1 = i
    OBVIOUS
  <1> QED BY <1>4, <1>5

LEMMA FlattenSolution ==
    ASSUME NEW seqs, IsList(seqs), seqs # <<>>
    PROVE  /\ Len(seqs) \in Nat /\ Len(seqs) >= 1
           /\ \E f : Flattens(seqs, Len(seqs), f) /\ FlattenSeq(seqs) = f[Len(seqs)]
  <1> DEFINE n == Len(seqs)
             f == CHOOSE f : f = [i \in 1 .. n |-> IF i = 1 THEN seqs[i] ELSE f[i - 1] \o seqs[i]]
  <1>1. n \in Nat /\ n # 0 /\ n >= 1
    <2>1. seqs \in Seq(ItemsOf(seqs))
      BY DEF IsList, ItemsOf
    <2> QED BY <2>1
  <1>2. FlattenSeq(seqs) = f[n]
    BY <1>1 DEF FlattenSeq
  <1> HIDE DEF n
  <1>3. Flattens(seqs, n, f)
    <2>1. PICK g : Flattens(seqs, n, g)
      BY <1>1, FlattensExists
    <2> QED BY <2>1, Zenon DEF Flattens
  <1> HIDE DEF f
  <1> QED BY <1>1, <1>2, <1>3 DEF n

LEMMA FlattenNone == FlattenSeq(<<>>) = <<>>
  BY DEF FlattenSeq

LEMMA FlattenOne ==
    ASSUME NEW x
    PROVE  FlattenSeq(<<x>>) = x
  <1>1. IsList(<<x>>) /\ Len(<<x>>) = 1 /\ <<x>>[1] = x /\ <<x>> # <<>>
    BY OneItem
  <1>2. PICK f : Flattens(<<x>>, 1, f) /\ FlattenSeq(<<x>>) = f[1]
    BY <1>1, FlattenSolution
  <1>3. f[1] = <<x>>[1]
    BY <1>2 DEF Flattens
  <1> QED BY <1>1, <1>2, <1>3

(* With one more list.                                                     *)
LEMMA FlattenLast ==
    ASSUME NEW r, IsList(r), NEW x, IsList(x)
    PROVE  FlattenSeq(r \o <<x>>) = FlattenSeq(r) \o x
  <1>1. CASE r = <<>>
    <2>1. r \o <<x>> = <<x>>
      BY <1>1, OneItem, CatEmpty
    <2>2. <<>> \o x = x
      BY CatEmpty
    <2> QED BY <2>1, <2>2, <1>1, FlattenOne, FlattenNone
  <1>2. CASE r # <<>>
    <2> DEFINE s == r \o <<x>>
               n == Len(r)
               m == n + 1
    <2>1. n \in Nat /\ n >= 1
      BY <1>2, FlattenSolution
    <2>2. PICK f : Flattens(r, n, f) /\ FlattenSeq(r) = f[n]
      BY <1>2, FlattenSolution
    <2>3. IsList(s) /\ Len(s) = m /\ (\A i \in 1 .. n : s[i] = r[i]) /\ s[m] = x /\ s # <<>>
      <3>1. IsList(<<x>>) /\ Len(<<x>>) = 1 /\ <<x>>[1] = x
        BY OneItem
      <3>2. /\ IsList(s) /\ Len(s) = n + Len(<<x>>)
            /\ \A i \in 1 .. n : s[i] = r[i]
            /\ \A i \in 1 .. Len(<<x>>) : s[n + i] = <<x>>[i]
        BY <3>1, CatFacts
      <3> HIDE DEF s, n
      <3>3. Len(s) = m /\ s[m] = x
        BY <3>1, <3>2
      <3>4. Len(<<>>) = 0
        OBVIOUS
      <3> QED BY <3>2, <3>3, <3>4, <2>1
    <2> HIDE DEF s, n
    <2>4. PICK g : Flattens(s, m, g) /\ FlattenSeq(s) = g[m]
      BY <2>3, FlattenSolution
    <2>5. m \in Nat /\ n <= m /\ n \in 1 .. n /\ m \in 1 .. m /\ m # 1 /\ m - 1 = n
      BY <2>1
    <2>6. f[n] = g[n]
      BY <2>1, <2>2, <2>3, <2>4, <2>5, FlattensAgree
    <2> HIDE DEF m
    <2>7. g[m] = g[n] \o s[m]
      BY <2>4, <2>5 DEF Flattens
    <2> QED BY <2>2, <2>3, <2>4, <2>6, <2>7 DEF s
  <1> QED BY <1>1, <1>2

LEMMA EmptyList ==
    ASSUME NEW s, IsList(s), Len(s) = 0
    PROVE  s = <<>>
  <1>1. s \in Seq(ItemsOf(s))
    BY DEF IsList, ItemsOf
  <1> QED BY <1>1

LEMMA AllButLast ==
    ASSUME NEW n \in Nat, NEW s, IsList(s), Len(s) = n + 1
    PROVE  \E r, x : /\ IsList(r) /\ Len(r) = n /\ s = r \o <<x>> /\ x = s[n + 1]
                     /\ \A i \in DOMAIN r : r[i] = s[i] /\ i \in DOMAIN s
                     /\ n + 1 \in DOMAIN s
  <1> DEFINE m == Len(s) - 1
             r == [i \in 1 .. m |-> s[i]]
             x == s[Len(s)]
  <1>1. m = n /\ DOMAIN s = 1 .. Len(s) /\ n + 1 \in 1 .. Len(s)
    BY ListFacts
  <1>2. s # <<>>
    <2>1. Len(<<>>) = 0
      OBVIOUS
    <2> QED BY <2>1
  <1>3. /\ IsList(r) /\ Len(r) = m /\ s = r \o <<x>>
        /\ \A i \in 1 .. m : r[i] = s[i] /\ i \in 1 .. Len(s)
    BY <1>2, LastItem
  <1>4. DOMAIN r = 1 .. m
    OBVIOUS
  <1>5. x = s[n + 1]
    OBVIOUS
  <1> HIDE DEF r, x, m
  <1> QED BY <1>1, <1>3, <1>4, <1>5

(* Induction on the length of a list, as the step from a list to the list  *)
(* with one more item.                                                     *)
LEMMA FlattenIsList ==
    ASSUME NEW seqs, IsList(seqs), \A k \in DOMAIN seqs : IsList(seqs[k])
    PROVE  IsList(FlattenSeq(seqs))
  <1> DEFINE P(s) == (\A k \in DOMAIN s : IsList(s[k])) => IsList(FlattenSeq(s))
             S == {n \in Nat : \A s : IsList(s) /\ Len(s) = n => P(s)}
  <1>1. ASSUME NEW s, IsList(s), Len(s) = 0
        PROVE  P(s)
    <2>1. s = <<>>
      BY <1>1, EmptyList
    <2> QED BY <2>1, FlattenNone, CatEmpty
  <1>2. ASSUME NEW n \in Nat, \A r : IsList(r) /\ Len(r) = n => P(r),
               NEW s, IsList(s), Len(s) = n + 1, \A k \in DOMAIN s : IsList(s[k])
        PROVE  IsList(FlattenSeq(s))
    <2>0. IsList(s) /\ Len(s) = n + 1
      BY <1>2
    <2>1. PICK r, x : /\ IsList(r) /\ Len(r) = n /\ s = r \o <<x>> /\ x = s[n + 1]
                      /\ \A i \in DOMAIN r : r[i] = s[i] /\ i \in DOMAIN s
                      /\ n + 1 \in DOMAIN s
      BY <2>0, AllButLast, Zenon
    <2>2. IsList(FlattenSeq(r)) /\ IsList(x)
      BY <2>1, <1>2
    <2>3. FlattenSeq(s) = FlattenSeq(r) \o x
      BY <2>1, <2>2, FlattenLast
    <2>4. IsList(FlattenSeq(r) \o x)
      BY <2>2, CatFacts
    <2> QED BY <2>3, <2>4
  <1>2a. ASSUME NEW n \in Nat, \A r : IsList(r) /\ Len(r) = n => P(r),
                NEW s, IsList(s), Len(s) = n + 1
         PROVE  P(s)
    BY <1>2a, <1>2
  <1> HIDE DEF P
  <1>3. Nat \subseteq S
    <2>1. 0 \in S
      BY <1>1
    <2>2. ASSUME NEW n \in Nat, n \in S PROVE n + 1 \in S
      BY <2>2, <1>2a
    <2> HIDE DEF S
    <2> QED BY <2>1, <2>2, SetInduction
  <1>4. Len(seqs) \in Nat
    BY ListFacts
  <1>5. P(seqs)
    BY <1>3, <1>4
  <1> QED BY <1>5 DEF P

LEMMA CatItems ==
    ASSUME NEW a, IsList(a), NEW b, IsList(b)
    PROVE  ItemsOf(a \o b) = ItemsOf(a) \cup ItemsOf(b)
  <1> DEFINE c == a \o b
             n == Len(a)
  <1>1. /\ DOMAIN c = 1 .. n + Len(b)
        /\ \A i \in 1 .. n : c[i] = a[i]
        /\ \A i \in 1 .. Len(b) : c[n + i] = b[i]
        /\ n \in Nat /\ DOMAIN a = 1 .. n /\ DOMAIN b = 1 .. Len(b) /\ Len(b) \in Nat
    <2>1. /\ DOMAIN c = 1 .. n + Len(b)
          /\ \A i \in 1 .. n : c[i] = a[i]
          /\ \A i \in 1 .. Len(b) : c[n + i] = b[i]
      BY CatFacts
    <2>2. n \in Nat /\ DOMAIN a = 1 .. n
      BY ListFacts
    <2>3. Len(b) \in Nat /\ DOMAIN b = 1 .. Len(b)
      BY ListFacts
    <2> QED BY <2>1, <2>2, <2>3
  <1> HIDE DEF c, n
  <1>2. ASSUME NEW i \in DOMAIN c PROVE c[i] \in ItemsOf(a) \cup ItemsOf(b)
    <2>1. CASE i \in 1 .. n
      BY <2>1, <1>1 DEF ItemsOf
    <2>2. CASE i \notin 1 .. n
      <3> DEFINE j == i - n
      <3>1. j \in 1 .. Len(b) /\ n + j = i
        BY <2>2, <1>1
      <3> HIDE DEF j
      <3>2. c[i] = b[j]
        BY <3>1, <1>1
      <3> QED BY <3>1, <3>2, <1>1 DEF ItemsOf
    <2> QED BY <2>1, <2>2
  <1>3. ASSUME NEW i \in DOMAIN a PROVE a[i] \in ItemsOf(c)
    <2>1. i \in DOMAIN c /\ c[i] = a[i]
      BY <1>1
    <2> QED BY <2>1 DEF ItemsOf
  <1>4. ASSUME NEW i \in DOMAIN b PROVE b[i] \in ItemsOf(c)
    <2>1. n + i \in DOMAIN c /\ c[n + i] = b[i]
      BY <1>1
    <2> QED BY <2>1 DEF ItemsOf
  <1>5. ItemsOf(c) \subseteq ItemsOf(a) \cup ItemsOf(b)
    BY <1>2 DEF ItemsOf
  <1>6. ItemsOf(a) \subseteq ItemsOf(c) /\ ItemsOf(b) \subseteq ItemsOf(c)
    BY <1>3, <1>4 DEF ItemsOf
  <1> QED BY <1>5, <1>6 DEF c

LEMMA FlattenItems ==
    ASSUME NEW seqs, IsList(seqs), \A k \in DOMAIN seqs : IsList(seqs[k])
    PROVE  ItemsOf(FlattenSeq(seqs)) = UNION {ItemsOf(seqs[k]) : k \in DOMAIN seqs}
  <1> DEFINE U(s) == UNION {ItemsOf(s[k]) : k \in DOMAIN s}
             P(s) == (\A k \in DOMAIN s : IsList(s[k])) => ItemsOf(FlattenSeq(s)) = U(s)
             S == {n \in Nat : \A s : IsList(s) /\ Len(s) = n => P(s)}
  <1>1. ASSUME NEW s, IsList(s), Len(s) = 0
        PROVE  P(s)
    <2>1. s = <<>>
      BY <1>1, EmptyList
    <2> QED BY <2>1, FlattenNone DEF ItemsOf
  <1>2. ASSUME NEW n \in Nat, \A r : IsList(r) /\ Len(r) = n => P(r),
               NEW s, IsList(s), Len(s) = n + 1, \A k \in DOMAIN s : IsList(s[k])
        PROVE  ItemsOf(FlattenSeq(s)) = U(s)
    <2>0. IsList(s) /\ Len(s) = n + 1
      BY <1>2
    <2>1. PICK r, x : /\ IsList(r) /\ Len(r) = n /\ s = r \o <<x>> /\ x = s[n + 1]
                      /\ \A i \in DOMAIN r : r[i] = s[i] /\ i \in DOMAIN s
                      /\ n + 1 \in DOMAIN s
      BY <2>0, AllButLast, Zenon
    <2>2. (\A k \in DOMAIN r : IsList(r[k])) /\ IsList(x)
      BY <2>1, <1>2
    <2>3. ItemsOf(FlattenSeq(r)) = U(r)
      BY <2>1, <2>2, <1>2
    <2>4. FlattenSeq(s) = FlattenSeq(r) \o x
      BY <2>1, <2>2, FlattenLast
    <2>5. IsList(FlattenSeq(r))
      BY <2>1, <2>2, FlattenIsList
    <2>6. ItemsOf(FlattenSeq(s)) = U(r) \cup ItemsOf(x)
      BY <2>2, <2>3, <2>4, <2>5, CatItems
    <2>7. U(s) = U(r) \cup ItemsOf(x)
      <3>1. DOMAIN s = 1 .. n + 1 /\ DOMAIN r = 1 .. n
        BY <2>1, <1>2, ListFacts
      <3>2. DOMAIN s = DOMAIN r \cup {n + 1}
        BY <3>1
      <3> QED BY <3>2, <2>1, Zenon
    <2> QED BY <2>6, <2>7
  <1>2a. ASSUME NEW n \in Nat, \A r : IsList(r) /\ Len(r) = n => P(r),
                NEW s, IsList(s), Len(s) = n + 1
         PROVE  P(s)
    BY <1>2a, <1>2
  <1> HIDE DEF P
  <1>3. Nat \subseteq S
    <2>1. 0 \in S
      BY <1>1
    <2>2. ASSUME NEW n \in Nat, n \in S PROVE n + 1 \in S
      BY <2>2, <1>2a
    <2> HIDE DEF S
    <2> QED BY <2>1, <2>2, SetInduction
  <1>4. Len(seqs) \in Nat
    BY ListFacts
  <1>5. P(seqs)
    BY <1>3, <1>4
  <1> QED BY <1>5 DEF P

(* Lists of lists all empty but one.                                       *)
LEMMA FlattenEmpties ==
    ASSUME NEW seqs, IsList(seqs), \A k \in DOMAIN seqs : seqs[k] = <<>>
    PROVE  FlattenSeq(seqs) = <<>>
  <1> DEFINE P(s) == (\A k \in DOMAIN s : s[k] = <<>>) => FlattenSeq(s) = <<>>
             S == {n \in Nat : \A s : IsList(s) /\ Len(s) = n => P(s)}
  <1>1. ASSUME NEW s, IsList(s), Len(s) = 0
        PROVE  P(s)
    BY <1>1, EmptyList, FlattenNone
  <1>2. ASSUME NEW n \in Nat, \A r : IsList(r) /\ Len(r) = n => P(r),
               NEW s, IsList(s), Len(s) = n + 1, \A k \in DOMAIN s : s[k] = <<>>
        PROVE  FlattenSeq(s) = <<>>
    <2>0. IsList(s) /\ Len(s) = n + 1
      BY <1>2
    <2>1. PICK r, x : /\ IsList(r) /\ Len(r) = n /\ s = r \o <<x>> /\ x = s[n + 1]
                      /\ \A i \in DOMAIN r : r[i] = s[i] /\ i \in DOMAIN s
                      /\ n + 1 \in DOMAIN s
      BY <2>0, AllButLast, Zenon
    <2>2. FlattenSeq(r) = <<>> /\ x = <<>> /\ IsList(<<>>)
      BY <2>1, <1>2, CatEmpty
    <2>3. FlattenSeq(s) = FlattenSeq(r) \o x
      BY <2>1, <2>2, FlattenLast
    <2> QED BY <2>2, <2>3, CatEmpty
  <1>2a. ASSUME NEW n \in Nat, \A r : IsList(r) /\ Len(r) = n => P(r),
                NEW s, IsList(s), Len(s) = n + 1
         PROVE  P(s)
    BY <1>2a, <1>2
  <1> HIDE DEF P
  <1>3. Nat \subseteq S
    <2>1. 0 \in S
      BY <1>1
    <2>2. ASSUME NEW n \in Nat, n \in S PROVE n + 1 \in S
      BY <2>2, <1>2a
    <2> HIDE DEF S
    <2> QED BY <2>1, <2>2, SetInduction
  <1>4. Len(seqs) \in Nat
    BY ListFacts
  <1>5. P(seqs)
    BY <1>3, <1>4
  <1> QED BY <1>5 DEF P

LEMMA FlattenOnly ==
    ASSUME NEW seqs, IsList(seqs), NEW m \in DOMAIN seqs, IsList(seqs[m]),
           \A k \in DOMAIN seqs : k # m => seqs[k] = <<>>
    PROVE  FlattenSeq(seqs) = seqs[m]
  <1> DEFINE P(s) == m \in DOMAIN s /\ IsList(s[m]) /\ (\A k \in DOMAIN s : k # m => s[k] = <<>>)
                        => FlattenSeq(s) = s[m]
             S == {n \in Nat : \A s : IsList(s) /\ Len(s) = n => P(s)}
  <1>1. ASSUME NEW s, IsList(s), Len(s) = 0
        PROVE  P(s)
    <2>1. s = <<>> /\ DOMAIN <<>> = {}
      BY <1>1, EmptyList
    <2> QED BY <2>1
  <1>2. ASSUME NEW n \in Nat, \A r : IsList(r) /\ Len(r) = n => P(r),
               NEW s, IsList(s), Len(s) = n + 1, m \in DOMAIN s, IsList(s[m]),
               \A k \in DOMAIN s : k # m => s[k] = <<>>
        PROVE  FlattenSeq(s) = s[m]
    <2>0. IsList(s) /\ Len(s) = n + 1
      BY <1>2
    <2>1. PICK r, x : /\ IsList(r) /\ Len(r) = n /\ s = r \o <<x>> /\ x = s[n + 1]
                      /\ \A i \in DOMAIN r : r[i] = s[i] /\ i \in DOMAIN s
                      /\ n + 1 \in DOMAIN s
      BY <2>0, AllButLast, Zenon
    <2>2. DOMAIN s = 1 .. n + 1 /\ DOMAIN r = 1 .. n
      BY <2>1, <1>2, ListFacts
    <2>3. CASE m = n + 1
      <3>1. \A k \in DOMAIN r : r[k] = <<>>
        BY <2>1, <2>2, <2>3, <1>2
      <3>2. FlattenSeq(r) = <<>> /\ IsList(x)
        BY <3>1, <2>1, <2>3, <1>2, FlattenEmpties
      <3>3. FlattenSeq(s) = FlattenSeq(r) \o x
        BY <2>1, <3>2, FlattenLast
      <3> QED BY <2>1, <2>3, <3>2, <3>3, CatEmpty
    <2>4. CASE m # n + 1
      <3>1. m \in DOMAIN r
        BY <2>2, <2>4, <1>2
      <3>2. x = <<>> /\ IsList(x) /\ IsList(s[m]) /\ r[m] = s[m]
        BY <2>1, <2>4, <3>1, <1>2, CatEmpty
      <3>3. FlattenSeq(r) = s[m]
        BY <2>1, <3>1, <3>2, <1>2
      <3>4. FlattenSeq(s) = FlattenSeq(r) \o x
        BY <2>1, <3>2, FlattenLast
      <3> QED BY <3>2, <3>3, <3>4, CatEmpty
    <2> QED BY <2>3, <2>4
  <1>2a. ASSUME NEW n \in Nat, \A r : IsList(r) /\ Len(r) = n => P(r),
                NEW s, IsList(s), Len(s) = n + 1
         PROVE  P(s)
    BY <1>2a, <1>2
  <1> HIDE DEF P
  <1>3. Nat \subseteq S
    <2>1. 0 \in S
      BY <1>1
    <2>2. ASSUME NEW n \in Nat, n \in S PROVE n + 1 \in S
      BY <2>2, <1>2a
    <2> HIDE DEF S
    <2> QED BY <2>1, <2>2, SetInduction
  <1>4. Len(seqs) \in Nat
    BY ListFacts
  <1>5. P(seqs)
    BY <1>3, <1>4
  <1> QED BY <1>5 DEF P

LEMMA FlattenTwo ==
    ASSUME NEW seqs, IsList(seqs), NEW m \in DOMAIN seqs, NEW l \in DOMAIN seqs, m < l,
           IsList(seqs[m]), IsList(seqs[l]),
           \A k \in DOMAIN seqs : k \notin {m, l} => seqs[k] = <<>>
    PROVE  FlattenSeq(seqs) = seqs[m] \o seqs[l]
  <1> DEFINE P(s) == m \in DOMAIN s /\ l \in DOMAIN s /\ IsList(s[m]) /\ IsList(s[l])
                     /\ (\A k \in DOMAIN s : k \notin {m, l} => s[k] = <<>>)
                        => FlattenSeq(s) = s[m] \o s[l]
             S == {n \in Nat : \A s : IsList(s) /\ Len(s) = n => P(s)}
  <1>1. ASSUME NEW s, IsList(s), Len(s) = 0
        PROVE  P(s)
    <2>1. s = <<>> /\ DOMAIN <<>> = {}
      BY <1>1, EmptyList
    <2> QED BY <2>1
  <1>2. ASSUME NEW n \in Nat, \A r : IsList(r) /\ Len(r) = n => P(r),
               NEW s, IsList(s), Len(s) = n + 1, m \in DOMAIN s, l \in DOMAIN s,
               IsList(s[m]), IsList(s[l]),
               \A k \in DOMAIN s : k \notin {m, l} => s[k] = <<>>
        PROVE  FlattenSeq(s) = s[m] \o s[l]
    <2>0. IsList(s) /\ Len(s) = n + 1
      BY <1>2
    <2>1. PICK r, x : /\ IsList(r) /\ Len(r) = n /\ s = r \o <<x>> /\ x = s[n + 1]
                      /\ \A i \in DOMAIN r : r[i] = s[i] /\ i \in DOMAIN s
                      /\ n + 1 \in DOMAIN s
      BY <2>0, AllButLast, Zenon
    <2>2. DOMAIN s = 1 .. n + 1 /\ DOMAIN r = 1 .. n
      BY <2>1, <1>2, ListFacts
    <2>3. CASE l = n + 1
      <3>1. m \in DOMAIN r /\ n + 1 \notin DOMAIN r
        BY <2>2, <2>3, <1>2
      <3>2. r[m] = s[m] /\ \A k \in DOMAIN r : k # m => r[k] = <<>>
        BY <2>1, <2>3, <3>1, <1>2
      <3>3. FlattenSeq(r) = s[m]
        BY <3>1, <3>2, <2>1, <1>2, FlattenOnly
      <3>4. IsList(x) /\ x = s[l]
        BY <2>1, <2>3, <1>2
      <3>5. FlattenSeq(s) = FlattenSeq(r) \o x
        BY <2>1, <3>4, FlattenLast
      <3> QED BY <3>3, <3>4, <3>5
    <2>4. CASE l # n + 1
      <3>1. m \in DOMAIN r /\ l \in DOMAIN r /\ m # n + 1
        BY <2>2, <2>4, <1>2
      <3>2. x = <<>> /\ IsList(x) /\ r[m] = s[m] /\ r[l] = s[l]
        BY <2>1, <2>4, <3>1, <1>2, CatEmpty
      <3>3. FlattenSeq(r) = s[m] \o s[l]
        BY <2>1, <3>1, <3>2, <1>2
      <3>4. FlattenSeq(s) = FlattenSeq(r) \o x
        BY <2>1, <3>2, FlattenLast
      <3>5. IsList(s[m] \o s[l])
        BY <1>2, CatFacts
      <3> QED BY <3>2, <3>3, <3>4, <3>5, CatEmpty
    <2> QED BY <2>3, <2>4
  <1>2a. ASSUME NEW n \in Nat, \A r : IsList(r) /\ Len(r) = n => P(r),
                NEW s, IsList(s), Len(s) = n + 1
         PROVE  P(s)
    BY <1>2a, <1>2
  <1> HIDE DEF P
  <1>3. Nat \subseteq S
    <2>1. 0 \in S
      BY <1>1
    <2>2. ASSUME NEW n \in Nat, n \in S PROVE n + 1 \in S
      BY <2>2, <1>2a
    <2> HIDE DEF S
    <2> QED BY <2>1, <2>2, SetInduction
  <1>4. Len(seqs) \in Nat
    BY ListFacts
  <1>5. P(seqs)
    BY <1>3, <1>4
  <1> QED BY <1>5 DEF P

(* Lists of one item each.                                                 *)
LEMMA FlattenSingles ==
    ASSUME NEW names, IsList(names), NEW seqs, IsList(seqs), Len(seqs) = Len(names),
           \A i \in DOMAIN seqs : seqs[i] = <<names[i]>>
    PROVE  FlattenSeq(seqs) = names
  <1> DEFINE P(s) == \A l : IsList(l) /\ Len(l) = Len(s) /\ (\A i \in DOMAIN s : s[i] = <<l[i]>>)
                        => FlattenSeq(s) = l
             S == {n \in Nat : \A s : IsList(s) /\ Len(s) = n => P(s)}
  <1>1. ASSUME NEW s, IsList(s), Len(s) = 0
        PROVE  P(s)
    BY <1>1, EmptyList, FlattenNone
  <1>2. ASSUME NEW n \in Nat, \A r : IsList(r) /\ Len(r) = n => P(r),
               NEW s, IsList(s), Len(s) = n + 1,
               NEW l, IsList(l), Len(l) = n + 1, \A i \in DOMAIN s : s[i] = <<l[i]>>
        PROVE  FlattenSeq(s) = l
    <2>0. IsList(s) /\ Len(s) = n + 1
      BY <1>2
    <2>1. PICK r, x : /\ IsList(r) /\ Len(r) = n /\ s = r \o <<x>> /\ x = s[n + 1]
                      /\ \A i \in DOMAIN r : r[i] = s[i] /\ i \in DOMAIN s
                      /\ n + 1 \in DOMAIN s
      BY <2>0, AllButLast, Zenon
    <2>2. PICK h, y : /\ IsList(h) /\ Len(h) = n /\ l = h \o <<y>> /\ y = l[n + 1]
                      /\ \A i \in DOMAIN h : h[i] = l[i] /\ i \in DOMAIN l
      BY <1>2, AllButLast
    <2>3. DOMAIN r = 1 .. n /\ DOMAIN h = 1 .. n
      BY <2>1, <2>2, ListFacts
    <2>4. \A i \in DOMAIN r : r[i] = <<h[i]>>
      BY <2>1, <2>2, <2>3, <1>2
    <2>5. FlattenSeq(r) = h
      <3>1. IsList(r) /\ Len(r) = n
        BY <2>1
      <3>2. P(r)
        BY <3>1, <1>2, Zenon
      <3>3. IsList(h) /\ Len(h) = Len(r)
        BY <2>1, <2>2
      <3> QED BY <3>2, <3>3, <2>4, Zenon
    <2>6. x = <<y>> /\ IsList(x)
      <3>1. IsList(<<y>>)
        BY OneItem
      <3>2. \A i \in DOMAIN s : s[i] = <<l[i]>>
        BY <1>2
      <3> QED BY <2>1, <2>2, <3>1, <3>2
    <2>7. FlattenSeq(s) = FlattenSeq(r) \o x
      BY <2>1, <2>6, FlattenLast
    <2> QED BY <2>2, <2>5, <2>6, <2>7
  <1>2a. ASSUME NEW n \in Nat, \A r : IsList(r) /\ Len(r) = n => P(r),
                NEW s, IsList(s), Len(s) = n + 1
         PROVE  P(s)
    BY <1>2a, <1>2
  <1> HIDE DEF P
  <1>3. Nat \subseteq S
    <2>1. 0 \in S
      BY <1>1
    <2>2. ASSUME NEW n \in Nat, n \in S PROVE n + 1 \in S
      BY <2>2, <1>2a
    <2> HIDE DEF S
    <2> QED BY <2>1, <2>2, SetInduction
  <1>4. Len(seqs) \in Nat
    BY ListFacts
  <1>5. P(seqs)
    BY <1>3, <1>4
  <1> QED BY <1>5 DEF P

LEMMA FlattenCat ==
    ASSUME NEW a, IsList(a), \A k \in DOMAIN a : IsList(a[k]),
           NEW b, IsList(b), \A k \in DOMAIN b : IsList(b[k])
    PROVE  FlattenSeq(a \o b) = FlattenSeq(a) \o FlattenSeq(b)
  <1> DEFINE P(s) == (\A k \in DOMAIN s : IsList(s[k]))
                        => FlattenSeq(a \o s) = FlattenSeq(a) \o FlattenSeq(s)
             S == {n \in Nat : \A s : IsList(s) /\ Len(s) = n => P(s)}
  <1>0. IsList(FlattenSeq(a))
    BY FlattenIsList
  <1>1. ASSUME NEW s, IsList(s), Len(s) = 0
        PROVE  P(s)
    <2>1. s = <<>> /\ FlattenSeq(s) = <<>>
      BY <1>1, EmptyList, FlattenNone
    <2>2. a \o <<>> = a /\ FlattenSeq(a) \o <<>> = FlattenSeq(a)
      BY <1>0, CatEmpty
    <2> QED BY <2>1, <2>2
  <1>2. ASSUME NEW n \in Nat, \A r : IsList(r) /\ Len(r) = n => P(r),
               NEW s, IsList(s), Len(s) = n + 1, \A k \in DOMAIN s : IsList(s[k])
        PROVE  FlattenSeq(a \o s) = FlattenSeq(a) \o FlattenSeq(s)
    <2>0. IsList(s) /\ Len(s) = n + 1
      BY <1>2
    <2>1. PICK r, x : /\ IsList(r) /\ Len(r) = n /\ s = r \o <<x>> /\ x = s[n + 1]
                      /\ \A i \in DOMAIN r : r[i] = s[i] /\ i \in DOMAIN s
                      /\ n + 1 \in DOMAIN s
      BY <2>0, AllButLast, Zenon
    <2>2. (\A k \in DOMAIN r : IsList(r[k])) /\ IsList(x) /\ IsList(<<x>>)
      BY <2>1, <1>2, OneItem
    <2>3. FlattenSeq(a \o r) = FlattenSeq(a) \o FlattenSeq(r)
      BY <2>1, <2>2, <1>2
    <2>4. a \o s = (a \o r) \o <<x>>
      <3> DEFINE z == <<x>>
      <3>1. IsList(a) /\ IsList(r) /\ IsList(z)
        BY <2>1, <2>2
      <3>2. s = r \o z
        BY <2>1
      <3> HIDE DEF z
      <3>3. a \o (r \o z) = (a \o r) \o z
        BY <3>1, CatAssoc
      <3> QED BY <3>2, <3>3 DEF z
    <2>5. IsList(a \o r) /\ IsList(FlattenSeq(r))
      BY <2>1, <2>2, CatFacts, FlattenIsList
    <2>6. FlattenSeq(a \o s) = FlattenSeq(a \o r) \o x
      BY <2>2, <2>4, <2>5, FlattenLast
    <2>7. FlattenSeq(s) = FlattenSeq(r) \o x
      BY <2>1, <2>2, FlattenLast
    <2>8. (FlattenSeq(a) \o FlattenSeq(r)) \o x = FlattenSeq(a) \o (FlattenSeq(r) \o x)
      <3>1. IsList(FlattenSeq(a)) /\ IsList(FlattenSeq(r)) /\ IsList(x)
        BY <1>0, <2>2, <2>5
      <3> QED BY <3>1, CatAssoc
    <2> QED BY <2>3, <2>6, <2>7, <2>8
  <1>2a. ASSUME NEW n \in Nat, \A r : IsList(r) /\ Len(r) = n => P(r),
                NEW s, IsList(s), Len(s) = n + 1
         PROVE  P(s)
    BY <1>2a, <1>2
  <1> HIDE DEF P
  <1>3. Nat \subseteq S
    <2>1. 0 \in S
      BY <1>1
    <2>2. ASSUME NEW n \in Nat, n \in S PROVE n + 1 \in S
      BY <2>2, <1>2a
    <2> HIDE DEF S
    <2> QED BY <2>1, <2>2, SetInduction
  <1>4. Len(b) \in Nat
    BY ListFacts
  <1>5. P(b)
    BY <1>3, <1>4
  <1> QED BY <1>5 DEF P

-----------------------------------------------------------------------------
(* What is told of some labels, line by line and block by block.           *)

Labels(lines) == {lines[i].label : i \in DOMAIN lines}
ToldOf(lines, labels) ==
    [i \in DOMAIN lines |-> IF lines[i].label \in labels THEN <<lines[i].text>> ELSE <<>>]

LEMMA ToldOfFacts ==
    ASSUME NEW lines, IsList(lines), NEW labels
    PROVE  /\ Told(lines, labels) = FlattenSeq(ToldOf(lines, labels))
           /\ IsList(ToldOf(lines, labels)) /\ Len(ToldOf(lines, labels)) = Len(lines)
           /\ DOMAIN ToldOf(lines, labels) = DOMAIN lines
           /\ \A i \in DOMAIN lines : IsList(ToldOf(lines, labels)[i])
  <1> DEFINE t == ToldOf(lines, labels)
  <1>1. Told(lines, labels) = FlattenSeq(t)
    BY DEF Told, ToldOf
  <1>2. Len(lines) \in Nat /\ DOMAIN lines = 1 .. Len(lines)
    BY ListFacts
  <1>3. DOMAIN t = DOMAIN lines /\ t = [i \in DOMAIN lines |-> t[i]]
    BY DEF ToldOf
  <1>4. \A i \in DOMAIN lines : t[i] = <<lines[i].text>> \/ t[i] = <<>>
    BY DEF ToldOf
  <1> HIDE DEF t
  <1>5. \A i \in DOMAIN lines : IsList(t[i])
    <2>1. IsList(<<>>) /\ \A x : IsList(<<x>>)
      BY OneItem, ShortLists
    <2> QED BY <1>4, <2>1
  <1>6. IsList(t) /\ Len(t) = Len(lines)
    BY <1>2, <1>3, IsListOf
  <1> QED BY <1>1, <1>3, <1>5, <1>6 DEF t

LEMMA ToldIsList ==
    ASSUME NEW lines, IsList(lines), NEW labels
    PROVE  IsList(Told(lines, labels))
  BY ToldOfFacts, FlattenIsList

LEMMA ToldCat ==
    ASSUME NEW a, IsList(a), NEW b, IsList(b), NEW labels
    PROVE  Told(a \o b, labels) = Told(a, labels) \o Told(b, labels)
  <1> DEFINE c == a \o b
             ta == ToldOf(a, labels)
             tb == ToldOf(b, labels)
             tc == ToldOf(c, labels)
  <1>1. /\ IsList(c) /\ Len(c) = Len(a) + Len(b)
        /\ \A i \in 1 .. Len(a) : c[i] = a[i]
        /\ \A i \in 1 .. Len(b) : c[Len(a) + i] = b[i]
    BY CatFacts
  <1>2. /\ Len(a) \in Nat /\ DOMAIN a = 1 .. Len(a)
        /\ Len(b) \in Nat /\ DOMAIN b = 1 .. Len(b)
    BY ListFacts
  <1>2c. DOMAIN c = 1 .. Len(c)
    BY <1>1, ListFacts
  <1>3. /\ IsList(ta) /\ Len(ta) = Len(a) /\ \A i \in DOMAIN ta : IsList(ta[i])
        /\ Told(a, labels) = FlattenSeq(ta)
    BY ToldOfFacts
  <1>4. /\ IsList(tb) /\ Len(tb) = Len(b) /\ \A i \in DOMAIN tb : IsList(tb[i])
        /\ Told(b, labels) = FlattenSeq(tb)
    BY ToldOfFacts
  <1>5. /\ IsList(tc) /\ Len(tc) = Len(c) /\ Told(c, labels) = FlattenSeq(tc)
    BY <1>1, ToldOfFacts
  <1>6. /\ IsList(ta \o tb) /\ Len(ta \o tb) = Len(a) + Len(b)
        /\ \A i \in 1 .. Len(a) : (ta \o tb)[i] = ta[i]
        /\ \A i \in 1 .. Len(b) : (ta \o tb)[Len(a) + i] = tb[i]
    <2>1. IsList(ta) /\ IsList(tb)
      BY <1>3, <1>4
    <2>2. /\ IsList(ta \o tb) /\ Len(ta \o tb) = Len(ta) + Len(tb)
          /\ \A i \in 1 .. Len(ta) : (ta \o tb)[i] = ta[i]
          /\ \A i \in 1 .. Len(tb) : (ta \o tb)[Len(ta) + i] = tb[i]
      BY <2>1, CatFacts
    <2>3. Len(ta) = Len(a) /\ Len(tb) = Len(b)
      BY <1>3, <1>4
    <2> QED BY <2>2, <2>3
  <1>7. /\ \A i \in 1 .. Len(a) : tc[i] = ta[i]
        /\ \A i \in 1 .. Len(b) : tc[Len(a) + i] = tb[i]
    <2>1. \A i \in 1 .. Len(a) : i \in DOMAIN c /\ i \in DOMAIN a
      BY <1>1, <1>2, <1>2c
    <2>2. \A i \in 1 .. Len(b) : Len(a) + i \in DOMAIN c /\ i \in DOMAIN b
      BY <1>1, <1>2, <1>2c
    <2> HIDE DEF c
    <2>3. \A i \in 1 .. Len(a) : tc[i] = ta[i]
      BY <1>1, <2>1 DEF ToldOf
    <2>4. \A i \in 1 .. Len(b) : tc[Len(a) + i] = tb[i]
      BY <1>1, <2>2 DEF ToldOf
    <2> QED BY <2>3, <2>4
  <1> HIDE DEF ta, tb, tc, c
  <1>8. tc = ta \o tb
    <2> DEFINE d == ta \o tb
    <2> HIDE DEF d
    <2>1. ASSUME NEW i \in 1 .. Len(tc) PROVE tc[i] = d[i]
      <3>1. CASE i \in 1 .. Len(a)
        BY <3>1, <1>6, <1>7 DEF d
      <3>2. CASE i \notin 1 .. Len(a)
        <4> DEFINE j == i - Len(a)
        <4>1. j \in 1 .. Len(b) /\ Len(a) + j = i
          BY <3>2, <1>1, <1>2, <1>5
        <4> HIDE DEF j
        <4>2. tc[Len(a) + j] = tb[j] /\ d[Len(a) + j] = tb[j]
          BY <4>1, <1>6, <1>7 DEF d
        <4> QED BY <4>1, <4>2
      <3> QED BY <3>1, <3>2
    <2>2. IsList(tc) /\ IsList(d) /\ Len(tc) = Len(d)
      BY <1>1, <1>5, <1>6 DEF d
    <2>3. tc = d
      BY <2>1, <2>2, ListsEqual
    <2> QED BY <2>3 DEF d
  <1>9. FlattenSeq(ta \o tb) = FlattenSeq(ta) \o FlattenSeq(tb)
    BY <1>3, <1>4, FlattenCat
  <1> QED BY <1>3, <1>4, <1>5, <1>8, <1>9 DEF c

LEMMA ToldLine ==
    ASSUME NEW line, NEW labels
    PROVE  Told(<<line>>, labels) = IF line.label \in labels THEN <<line.text>> ELSE <<>>
  <1> DEFINE t == ToldOf(<<line>>, labels)
             x == IF line.label \in labels THEN <<line.text>> ELSE <<>>
  <1>1. IsList(<<line>>) /\ Len(<<line>>) = 1 /\ DOMAIN <<line>> = {1} /\ <<line>>[1] = line
    BY OneItem
  <1>2. IsList(t) /\ Told(<<line>>, labels) = FlattenSeq(t) /\ DOMAIN t = {1}
        /\ \A i \in DOMAIN t : IsList(t[i])
    BY <1>1, ToldOfFacts
  <1>3. t[1] = x
    BY <1>1, Zenon DEF ToldOf
  <1> HIDE DEF t, x
  <1>4. FlattenSeq(t) = t[1]
    BY <1>2, FlattenOnly
  <1> QED BY <1>2, <1>3, <1>4 DEF x

LEMMA Silent ==
    ASSUME NEW lines, IsList(lines), NEW labels, Labels(lines) \cap labels = {}
    PROVE  Told(lines, labels) = <<>>
  <1>1. \A i \in DOMAIN lines : ToldOf(lines, labels)[i] = <<>>
    BY DEF Labels, ToldOf
  <1> QED BY <1>1, ToldOfFacts, FlattenEmpties

(* A block of lines told together: its labels, and what it tells.          *)
ToldEach(seqs, labels) == [k \in DOMAIN seqs |-> Told(seqs[k], labels)]

LEMMA ToldFlatten ==
    ASSUME NEW labels, NEW seqs, IsList(seqs), \A k \in DOMAIN seqs : IsList(seqs[k])
    PROVE  Told(FlattenSeq(seqs), labels) = FlattenSeq(ToldEach(seqs, labels))
  <1> DEFINE P(s) == (\A k \in DOMAIN s : IsList(s[k]))
                        => Told(FlattenSeq(s), labels) = FlattenSeq(ToldEach(s, labels))
             S == {n \in Nat : \A s : IsList(s) /\ Len(s) = n => P(s)}
  <1>1. ASSUME NEW s, IsList(s), Len(s) = 0
        PROVE  P(s)
    <2>1. s = <<>> /\ FlattenSeq(s) = <<>>
      BY <1>1, EmptyList, FlattenNone
    <2>2. Told(<<>>, labels) = <<>>
      <3>1. IsList(<<>>) /\ Labels(<<>>) \cap labels = {}
        BY ShortLists DEF Labels
      <3> QED BY <3>1, Silent
    <2>3. ToldEach(s, labels) = <<>>
      BY <2>1 DEF ToldEach
    <2> QED BY <2>1, <2>2, <2>3
  <1>2. ASSUME NEW n \in Nat, \A r : IsList(r) /\ Len(r) = n => P(r),
               NEW s, IsList(s), Len(s) = n + 1, \A k \in DOMAIN s : IsList(s[k])
        PROVE  Told(FlattenSeq(s), labels) = FlattenSeq(ToldEach(s, labels))
    <2>0. IsList(s) /\ Len(s) = n + 1
      BY <1>2
    <2>1. PICK r, x : /\ IsList(r) /\ Len(r) = n /\ s = r \o <<x>> /\ x = s[n + 1]
                      /\ \A i \in DOMAIN r : r[i] = s[i] /\ i \in DOMAIN s
                      /\ n + 1 \in DOMAIN s
      BY <2>0, AllButLast, Zenon
    <2>2. (\A k \in DOMAIN r : IsList(r[k])) /\ IsList(x)
      BY <2>1, <1>2
    <2>3. Told(FlattenSeq(r), labels) = FlattenSeq(ToldEach(r, labels))
      <3>1. IsList(r) /\ Len(r) = n
        BY <2>1
      <3>2. P(r)
        BY <3>1, <1>2, Zenon
      <3> QED BY <3>2, <2>2, Zenon
    <2>4. FlattenSeq(s) = FlattenSeq(r) \o x /\ IsList(FlattenSeq(r))
      BY <2>1, <2>2, FlattenLast, FlattenIsList
    <2>5. Told(FlattenSeq(s), labels) = FlattenSeq(ToldEach(r, labels)) \o Told(x, labels)
      <3>1. Told(FlattenSeq(r) \o x, labels) = Told(FlattenSeq(r), labels) \o Told(x, labels)
        BY <2>2, <2>4, ToldCat
      <3> QED BY <2>3, <2>4, <3>1
    <2> DEFINE tr == ToldEach(r, labels)
               tx == Told(x, labels)
               ts == ToldEach(s, labels)
    <2>6. DOMAIN r = 1 .. n /\ DOMAIN s = 1 .. n + 1
      BY <2>0, <2>1, ListFacts
    <2>7. IsList(tr) /\ Len(tr) = n /\ IsList(ts) /\ Len(ts) = n + 1
      <3>1. tr = [i \in 1 .. n |-> tr[i]] /\ ts = [i \in 1 .. n + 1 |-> ts[i]]
        BY <2>6 DEF ToldEach
      <3> HIDE DEF tr, ts
      <3>2. n + 1 \in Nat
        OBVIOUS
      <3> QED BY <3>1, <3>2, IsListOf
    <2>8. IsList(tx)
      BY <2>2, ToldIsList
    <2>9. (\A i \in 1 .. n : ts[i] = tr[i]) /\ ts[n + 1] = tx
      <3>1. ASSUME NEW i \in 1 .. n PROVE ts[i] = tr[i]
        <4>1. i \in DOMAIN r /\ i \in DOMAIN s /\ r[i] = s[i]
          BY <2>1, <2>6
        <4> QED BY <4>1 DEF ToldEach
      <3>2. ts[n + 1] = tx
        BY <2>1 DEF ToldEach
      <3> QED BY <3>1, <3>2
    <2> HIDE DEF tr, tx, ts
    <2>10. ts = tr \o <<tx>>
      <3> DEFINE z == <<tx>>
                 d == tr \o z
      <3>1. IsList(z) /\ Len(z) = 1 /\ z[1] = tx
        BY OneItem
      <3> HIDE DEF z
      <3>2. /\ IsList(d) /\ Len(d) = n + Len(z)
            /\ \A i \in 1 .. n : d[i] = tr[i]
            /\ \A i \in 1 .. Len(z) : d[n + i] = z[i]
        <4>1. IsList(tr) /\ IsList(z) /\ Len(tr) = n
          BY <2>7, <3>1
        <4>2. /\ IsList(tr \o z) /\ Len(tr \o z) = Len(tr) + Len(z)
              /\ \A i \in 1 .. Len(tr) : (tr \o z)[i] = tr[i]
              /\ \A i \in 1 .. Len(z) : (tr \o z)[Len(tr) + i] = z[i]
          <5>1. IsList(tr) /\ IsList(z)
            BY <4>1
          <5> QED BY <5>1, CatFacts
        <4> HIDE DEF z, tr
        <4> QED BY <4>1, <4>2, Zenon DEF d
      <3> HIDE DEF d
      <3>3. Len(d) = n + 1 /\ d[n + 1] = tx
        BY <3>1, <3>2
      <3>4. \A i \in 1 .. n + 1 : ts[i] = d[i]
        BY <2>9, <3>2, <3>3
      <3>5. ts = d
        BY <2>7, <3>2, <3>3, <3>4, ListsEqual
      <3> QED BY <3>5 DEF d, z
    <2>11. FlattenSeq(ts) = FlattenSeq(tr) \o tx
      BY <2>7, <2>8, <2>10, FlattenLast
    <2> QED BY <2>5, <2>11 DEF ts, tr, tx
  <1>2a. ASSUME NEW n \in Nat, \A r : IsList(r) /\ Len(r) = n => P(r),
                NEW s, IsList(s), Len(s) = n + 1
         PROVE  P(s)
    BY <1>2a, <1>2
  <1> HIDE DEF P
  <1>3. Nat \subseteq S
    <2>1. 0 \in S
      BY <1>1
    <2>2. ASSUME NEW n \in Nat, n \in S PROVE n + 1 \in S
      BY <2>2, <1>2a
    <2> HIDE DEF S
    <2> QED BY <2>1, <2>2, SetInduction
  <1>4. Len(seqs) \in Nat
    BY ListFacts
  <1>5. P(seqs)
    BY <1>3, <1>4
  <1> QED BY <1>5 DEF P

-----------------------------------------------------------------------------
(* A part of a rendering: its lines, the labels they may have, and what it *)
(* tells of some of them.                                                  *)

Says(lines, words, labels, texts) ==
    IsList(lines) /\ Labels(lines) \subseteq words /\ Told(lines, labels) = texts
Hushed(lines, words) == IsList(lines) /\ Labels(lines) \subseteq words

LEMMA LabelsOfItems == ASSUME NEW lines PROVE Labels(lines) = {x.label : x \in ItemsOf(lines)}
  BY DEF Labels, ItemsOf

LEMMA LabelsCat ==
    ASSUME NEW a, IsList(a), NEW b, IsList(b)
    PROVE  IsList(a \o b) /\ Labels(a \o b) = Labels(a) \cup Labels(b)
  <1>1. ItemsOf(a \o b) = ItemsOf(a) \cup ItemsOf(b)
    BY CatItems
  <1> QED BY <1>1, CatFacts, LabelsOfItems

LEMMA LabelsOne ==
    ASSUME NEW line
    PROVE  IsList(<<line>>) /\ Labels(<<line>>) = {line.label}
  BY OneItem DEF Labels

LEMMA LabelsNone == IsList(<<>>) /\ Labels(<<>>) = {}
  BY ShortLists DEF Labels

LEMMA HushedCat ==
    ASSUME NEW words, NEW a, Hushed(a, words), NEW b, Hushed(b, words)
    PROVE  Hushed(a \o b, words)
  BY LabelsCat DEF Hushed

(* What is said first, and what follows it without a word of it.           *)
LEMMA SaysThen ==
    ASSUME NEW words, NEW labels, NEW text, NEW a, Says(a, words, labels, <<text>>),
           NEW quiet, quiet \subseteq words, quiet \cap labels = {}, NEW b, Hushed(b, quiet)
    PROVE  Says(a \o b, words, labels, <<text>>)
  <1>1. IsList(a) /\ IsList(b)
    BY DEF Says, Hushed
  <1>2. IsList(a \o b) /\ Labels(a \o b) \subseteq words
    BY <1>1, LabelsCat DEF Says, Hushed
  <1>3. Told(b, labels) = <<>>
    BY <1>1, Silent DEF Hushed
  <1>4. Told(a \o b, labels) = Told(a, labels) \o <<>>
    <2>1. Told(a \o b, labels) = Told(a, labels) \o Told(b, labels)
      BY <1>1, ToldCat
    <2> QED BY <2>1, <1>3, Zenon
  <1>5. Told(a \o b, labels) = <<text>>
    <2>1. <<text>> \o <<>> = <<text>>
      BY CatEmpty, OneItem
    <2> QED BY <1>4, <2>1 DEF Says
  <1> QED BY <1>2, <1>5 DEF Says

LEMMA ThenSays ==
    ASSUME NEW words, NEW labels, NEW text, NEW b, Says(b, words, labels, <<text>>),
           NEW quiet, quiet \subseteq words, quiet \cap labels = {}, NEW a, Hushed(a, quiet)
    PROVE  Says(a \o b, words, labels, <<text>>)
  <1>1. IsList(a) /\ IsList(b)
    BY DEF Says, Hushed
  <1>2. IsList(a \o b) /\ Labels(a \o b) \subseteq words
    BY <1>1, LabelsCat DEF Says, Hushed
  <1>3. Told(a, labels) = <<>>
    BY <1>1, Silent DEF Hushed
  <1>4. Told(a \o b, labels) = <<>> \o Told(b, labels)
    <2>1. Told(a \o b, labels) = Told(a, labels) \o Told(b, labels)
      BY <1>1, ToldCat
    <2> QED BY <2>1, <1>3, Zenon
  <1>5. Told(a \o b, labels) = <<text>>
    <2>1. <<>> \o <<text>> = <<text>>
      BY CatEmpty, OneItem
    <2> QED BY <1>4, <2>1 DEF Says
  <1> QED BY <1>2, <1>5 DEF Says

LEMMA SaysLine ==
    ASSUME NEW label, NEW text, NEW labels, label \in labels, NEW words, label \in words
    PROVE  Says(<<Line(label, text)>>, words, labels, <<SafeText(text)>>)
  <1>1. Line(label, text).label = label /\ Line(label, text).text = SafeText(text)
    BY DEF Line
  <1> DEFINE line == Line(label, text)
  <1> HIDE DEF line
  <1>2. IsList(<<line>>) /\ Labels(<<line>>) = {line.label}
    BY LabelsOne
  <1>3. Told(<<line>>, labels) = IF line.label \in labels THEN <<line.text>> ELSE <<>>
    BY ToldLine
  <1>4. line.label = label /\ line.text = SafeText(text)
    BY <1>1 DEF line
  <1>5. Says(<<line>>, words, labels, <<SafeText(text)>>)
    BY <1>2, <1>3, <1>4 DEF Says
  <1> QED BY <1>5 DEF line

LEMMA HushedLine ==
    ASSUME NEW label, NEW text
    PROVE  Hushed(<<Line(label, text)>>, {label})
  <1>1. Line(label, text).label = label
    BY DEF Line
  <1> QED BY <1>1, LabelsOne DEF Hushed

LEMMA HushedParts ==
    ASSUME NEW label
    PROVE  /\ \A option : Hushed(Always(label, option), {label})
           /\ \A option : Hushed(IfAny(label, option), {label})
           /\ \A texts : Hushed(Joined(label, texts), {label})
  <1>1. \A text : Hushed(<<Line(label, text)>>, {label})
    BY HushedLine
  <1>2. Hushed(<<Gap(label)>>, {label})
    <2>1. Gap(label).label = label
      BY DEF Gap
    <2> QED BY <2>1, LabelsOne DEF Hushed
  <1>3. Hushed(<<>>, {label})
    BY LabelsNone DEF Hushed
  <1> QED BY <1>1, <1>2, <1>3 DEF Always, IfAny, Joined

LEMMA HushedEvidence == ASSUME NEW assessment PROVE Hushed(Evidence(assessment), {"evidence"})
  <1> DEFINE t == <<IF assessment.score = None THEN "UNKNOWN" ELSE Level(assessment.score)>>
                  \o (IF assessment.basis = None THEN <<>> ELSE SafeText(assessment.basis))
             line == [label |-> "evidence", text |-> t]
  <1>1. Evidence(assessment) = <<line>>
    BY DEF Evidence
  <1>2. line.label = "evidence"
    OBVIOUS
  <1> HIDE DEF line
  <1> QED BY <1>1, <1>2, LabelsOne DEF Hushed

LEMMA HushedMore ==
    ASSUME NEW lines, NEW some, Hushed(lines, some), NEW words, some \subseteq words
    PROVE  Hushed(lines, words)
  BY DEF Hushed

LEMMA HushedFlatten ==
    ASSUME NEW words, NEW seqs, IsList(seqs), \A k \in DOMAIN seqs : Hushed(seqs[k], words)
    PROVE  Hushed(FlattenSeq(seqs), words)
  <1>1. \A k \in DOMAIN seqs : IsList(seqs[k])
    BY DEF Hushed
  <1>2. IsList(FlattenSeq(seqs))
       /\ ItemsOf(FlattenSeq(seqs)) = UNION {ItemsOf(seqs[k]) : k \in DOMAIN seqs}
    BY <1>1, FlattenIsList, FlattenItems
  <1>3. \A k \in DOMAIN seqs : \A x \in ItemsOf(seqs[k]) : x.label \in words
    BY LabelsOfItems DEF Hushed
  <1>4. \A x \in ItemsOf(FlattenSeq(seqs)) : x.label \in words
    BY <1>2, <1>3
  <1> QED BY <1>2, <1>4, LabelsOfItems DEF Hushed

(* The labels that the sections of the lists may have.                     *)
Words ==
    [inputs |-> {"inputs", "required", "optional", "description", "evidence"},
     outputs |-> {"outputs", "required", "optional", "description", "evidence"},
     tools |-> {"tools", "tool", "purpose", "usage", "evidence"},
     steps |-> {"steps", "step", "action", "why", "takes", "makes", "uses",
                "evidence"},
     decision_points |-> {"decisions", "question", "answer", "if", "then", "evidence"},
     variations |-> {"variations", "variation", "when", "difference", "evidence"}]
Spoken(list) == Words[list] \ {GapOf[list]}

LEMMA WordFacts ==
    ASSUME NEW list \in Lists
    PROVE  GapOf[list] \in Words[list] /\ GapOf[list] \notin LabelOf[list]
  BY DEF Lists, ShapeOf, Words, GapOf, LabelOf

(* A block of lines that tells a list: its names in their order, and the   *)
(* gap where it is to be told, which is then all it says under that label. *)
TellsGap(block, list, untold) ==
    /\ \A line \in ItemsOf(block) : line.label = GapOf[list] => line.text = NotCaptured
    /\ GapOf[list] \in Labels(block) <=> untold
IsSection(block, list, document) ==
    /\ Says(block, Words[list], LabelOf[list], NamesIn(document, list))
    /\ TellsGap(block, list, document[list] = <<>>)

LEMMA NamesFacts ==
    ASSUME NEW document, NEW list, IsList(document[list])
    PROVE  /\ IsList(NamesIn(document, list))
           /\ Len(NamesIn(document, list)) = Len(document[list])
           /\ DOMAIN NamesIn(document, list) = DOMAIN document[list]
  <1> DEFINE n == Len(document[list])
             names == NamesIn(document, list)
  <1>1. n \in Nat /\ DOMAIN document[list] = 1 .. n
    BY ListFacts
  <1> HIDE DEF n
  <1>2. names = [i \in 1 .. n |-> names[i]]
    BY <1>1 DEF NamesIn
  <1> HIDE DEF names
  <1>3. IsList(names) /\ Len(names) = n /\ DOMAIN names = 1 .. n
    BY <1>1, <1>2, IsListOf
  <1> QED BY <1>1, <1>3 DEF n, names

(* The items of a list, one after the other.                               *)
LEMMA ItemsTell ==
    ASSUME NEW list \in Lists, NEW document, IsList(document[list]),
           NEW items, IsList(items), Len(items) = Len(document[list]),
           \A i \in DOMAIN items :
              Says(items[i], Spoken(list), LabelOf[list],
                   <<SafeText(document[list][i][NameOf[list]])>>)
    PROVE  Says(FlattenSeq(items), Spoken(list), LabelOf[list], NamesIn(document, list))
  <1> DEFINE names == NamesIn(document, list)
             told == ToldEach(items, LabelOf[list])
  <1>1. IsList(names) /\ Len(names) = Len(items) /\ DOMAIN names = DOMAIN document[list]
    BY NamesFacts
  <1>2. Len(items) \in Nat /\ DOMAIN items = 1 .. Len(items)
        /\ DOMAIN document[list] = DOMAIN items
    BY ListFacts
  <1>3. \A i \in DOMAIN items : IsList(items[i]) /\ Hushed(items[i], Spoken(list))
    BY DEF Says, Hushed
  <1>4. Hushed(FlattenSeq(items), Spoken(list))
    BY <1>3, HushedFlatten
  <1>5. Told(FlattenSeq(items), LabelOf[list]) = FlattenSeq(told)
    BY <1>3, ToldFlatten
  <1>6. told = [i \in 1 .. Len(items) |-> told[i]]
    BY <1>2 DEF ToldEach
  <1>7. \A i \in DOMAIN items : told[i] = <<names[i]>>
    <2>1. ASSUME NEW i \in DOMAIN items PROVE told[i] = <<names[i]>>
      <3>1. told[i] = Told(items[i], LabelOf[list])
        BY DEF ToldEach
      <3>2. Told(items[i], LabelOf[list]) = <<SafeText(document[list][i][NameOf[list]])>>
        BY DEF Says
      <3>3. names[i] = SafeText(document[list][i][NameOf[list]])
        BY <1>2 DEF NamesIn
      <3> QED BY <3>1, <3>2, <3>3, Zenon
    <2> QED BY <2>1
  <1> HIDE DEF names, told
  <1>8. IsList(told) /\ Len(told) = Len(items) /\ DOMAIN told = DOMAIN items
    BY <1>2, <1>6, IsListOf
  <1>9. FlattenSeq(told) = names
    <2>1. Len(told) = Len(names) /\ \A i \in DOMAIN told : told[i] = <<names[i]>>
      BY <1>1, <1>7, <1>8
    <2> QED BY <2>1, <1>1, <1>8, FlattenSingles
  <1> QED BY <1>4, <1>5, <1>9 DEF Says, Hushed, names

LEMMA SectionTells ==
    ASSUME NEW list \in Lists, NEW document, IsList(document[list]),
           NEW items, IsList(items), Len(items) = Len(document[list]),
           \A i \in DOMAIN items :
              Says(items[i], Spoken(list), LabelOf[list],
                   <<SafeText(document[list][i][NameOf[list]])>>)
    PROVE  IsSection(Section(GapOf[list], items), list, document)
  <1> DEFINE gap == GapOf[list]
  <1>0. gap \in Words[list] /\ gap \notin LabelOf[list]
    BY WordFacts
  <1>1. CASE items = <<>>
    <2>1. Section(gap, items) = <<Gap(gap)>> /\ Gap(gap).label = gap
          /\ Gap(gap).text = NotCaptured
      BY <1>1 DEF Section, Gap
    <2> DEFINE line == Gap(gap)
    <2> HIDE DEF gap, line
    <2>2. document[list] = <<>> /\ NamesIn(document, list) = <<>>
      <3>1. Len(items) = 0
        BY <1>1
      <3>2. document[list] = <<>>
        BY <3>1, EmptyList
      <3>3. IsList(NamesIn(document, list)) /\ Len(NamesIn(document, list)) = 0
        BY <3>1, NamesFacts
      <3>4. NamesIn(document, list) = <<>>
        BY <3>3, EmptyList
      <3> QED BY <3>2, <3>4
    <2>3. IsList(<<line>>) /\ Labels(<<line>>) = {line.label} /\ ItemsOf(<<line>>) = {line}
      BY LabelsOne, OneItem DEF ItemsOf
    <2>4. Told(<<line>>, LabelOf[list]) = IF line.label \in LabelOf[list] THEN <<line.text>> ELSE <<>>
      BY ToldLine
    <2>5. line.label = gap /\ line.text = NotCaptured /\ Section(gap, items) = <<line>>
      BY <2>1 DEF line
    <2>6. Told(<<line>>, LabelOf[list]) = <<>>
      BY <2>4, <2>5, <1>0, Zenon
    <2>7. Says(<<line>>, Words[list], LabelOf[list], NamesIn(document, list))
      BY <2>2, <2>3, <2>5, <2>6, <1>0 DEF Says
    <2>8. TellsGap(<<line>>, list, document[list] = <<>>)
      BY <2>2, <2>3, <2>5 DEF TellsGap, gap
    <2> QED BY <2>5, <2>7, <2>8 DEF IsSection, gap
  <1>2. CASE items # <<>>
    <2>1. Section(gap, items) = FlattenSeq(items)
      BY <1>2 DEF Section
    <2>2. Says(FlattenSeq(items), Spoken(list), LabelOf[list], NamesIn(document, list))
      BY ItemsTell
    <2>3. document[list] # <<>>
      <3>1. Len(<<>>) = 0
        OBVIOUS
      <3> QED BY <3>1, <1>2, EmptyList
    <2>4. gap \notin Labels(FlattenSeq(items)) /\ Labels(FlattenSeq(items)) \subseteq Words[list]
      BY <2>2 DEF Says, Spoken
    <2>5. \A line \in ItemsOf(FlattenSeq(items)) : line.label # gap
      BY <2>4, LabelsOfItems
    <2>6. TellsGap(FlattenSeq(items), list, document[list] = <<>>)
      BY <2>3, <2>4, <2>5 DEF TellsGap
    <2>7. Says(FlattenSeq(items), Words[list], LabelOf[list], NamesIn(document, list))
      BY <2>2, <2>4 DEF Says
    <2> QED BY <2>1, <2>6, <2>7 DEF IsSection
  <1> QED BY <1>1, <1>2

LEMMA TwoLines ==
    ASSUME NEW a, NEW b
    PROVE  <<a, b>> = <<a>> \o <<b>>
  <1> DEFINE all == <<a, b>>
             one == <<a>>
             last == <<b>>
             both == one \o last
  <1>1. IsList(all) /\ Len(all) = 2 /\ all[1] = a /\ all[2] = b
    <2>1. all = [i \in 1 .. 2 |-> all[i]]
      OBVIOUS
    <2>2. all[1] = a /\ all[2] = b
      OBVIOUS
    <2> HIDE DEF all
    <2> QED BY <2>1, <2>2, IsListOf
  <1>2. IsList(one) /\ Len(one) = 1 /\ one[1] = a
    BY OneItem
  <1>3. IsList(last) /\ Len(last) = 1 /\ last[1] = b
    BY OneItem
  <1> HIDE DEF all, one, last
  <1>4. /\ IsList(both) /\ Len(both) = Len(one) + Len(last)
        /\ \A i \in 1 .. Len(one) : both[i] = one[i]
        /\ \A i \in 1 .. Len(last) : both[Len(one) + i] = last[i]
    <2>1. IsList(one) /\ IsList(last)
      BY <1>2, <1>3
    <2> QED BY <2>1, CatFacts
  <1> HIDE DEF both
  <1>5. Len(both) = 2 /\ both[1] = a /\ both[2] = b
    BY <1>2, <1>3, <1>4
  <1>6. \A i \in 1 .. Len(all) : all[i] = both[i]
    <2>1. \A i \in 1 .. 2 : i = 1 \/ i = 2
      OBVIOUS
    <2> QED BY <2>1, <1>1, <1>5
  <1>7. all = both
    <2>1. IsList(all) /\ IsList(both) /\ Len(all) = Len(both)
      BY <1>1, <1>4, <1>5
    <2> QED BY <2>1, <1>6, ListsEqual
  <1> QED BY <1>7 DEF all, one, last, both

LEMMA ThreeLines ==
    ASSUME NEW a, NEW b, NEW c
    PROVE  <<a, b, c>> = (<<a>> \o <<b>>) \o <<c>>
  <1> DEFINE all == <<a, b, c>>
             two == <<a, b>>
             one == <<c>>
             both == two \o one
  <1>1. IsList(all) /\ Len(all) = 3 /\ all[1] = a /\ all[2] = b /\ all[3] = c
    <2>1. all = [i \in 1 .. 3 |-> all[i]]
      OBVIOUS
    <2>2. all[1] = a /\ all[2] = b /\ all[3] = c
      OBVIOUS
    <2> HIDE DEF all
    <2> QED BY <2>1, <2>2, IsListOf
  <1>2. IsList(two) /\ Len(two) = 2 /\ two[1] = a /\ two[2] = b
    <2>1. two = [i \in 1 .. 2 |-> two[i]]
      OBVIOUS
    <2>2. two[1] = a /\ two[2] = b
      OBVIOUS
    <2> HIDE DEF two
    <2> QED BY <2>1, <2>2, IsListOf
  <1>3. IsList(one) /\ Len(one) = 1 /\ one[1] = c
    BY OneItem
  <1> HIDE DEF all, two, one
  <1>4. /\ IsList(both) /\ Len(both) = Len(two) + Len(one)
        /\ \A i \in 1 .. Len(two) : both[i] = two[i]
        /\ \A i \in 1 .. Len(one) : both[Len(two) + i] = one[i]
    <2>1. IsList(two) /\ IsList(one)
      BY <1>2, <1>3
    <2> QED BY <2>1, CatFacts
  <1> HIDE DEF both
  <1>5. Len(both) = 3 /\ both[1] = a /\ both[2] = b /\ both[3] = c
    BY <1>2, <1>3, <1>4
  <1>6. \A i \in 1 .. Len(all) : all[i] = both[i]
    <2>1. \A i \in 1 .. 3 : i = 1 \/ i = 2 \/ i = 3
      OBVIOUS
    <2> QED BY <2>1, <1>1, <1>5
  <1>7. all = both
    <2>1. IsList(all) /\ IsList(both) /\ Len(all) = Len(both)
      BY <1>1, <1>4, <1>5
    <2> QED BY <2>1, <1>6, ListsEqual
  <1> QED BY <1>7, TwoLines DEF all, two, one, both

-----------------------------------------------------------------------------
(* The items of the lists.                                                 *)

LEMMA MappedList ==
    ASSUME NEW parts, IsList(parts), NEW items, items = [i \in DOMAIN parts |-> items[i]]
    PROVE  IsList(items) /\ Len(items) = Len(parts) /\ DOMAIN items = DOMAIN parts
  <1>1. Len(parts) \in Nat /\ DOMAIN parts = 1 .. Len(parts)
    BY ListFacts
  <1> QED BY <1>1, IsListOf

(* An artifact: as needed to know of it, in its section or its check list. *)
LEMMA ArtifactSays ==
    ASSUME NEW list \in {"inputs", "outputs"}, NEW artifact, NEW lines,
           Hushed(lines, {"description"})
    PROVE  Says(<<Line(IF artifact.required THEN "required" ELSE "optional", artifact.name)>>
                  \o lines \o Evidence(artifact.confidence),
                Spoken(list), LabelOf[list], <<SafeText(artifact[NameOf[list]])>>)
  <1> DEFINE label == IF artifact.required THEN "required" ELSE "optional"
             first == <<Line(label, artifact.name)>>
             words == Spoken(list)
             labels == LabelOf[list]
             text == SafeText(artifact[NameOf[list]])
             evidence == Evidence(artifact.confidence)
  <1>1. /\ label \in labels /\ label \in words /\ artifact.name = artifact[NameOf[list]]
        /\ {"description"} \subseteq words /\ {"description"} \cap labels = {}
        /\ {"evidence"} \subseteq words /\ {"evidence"} \cap labels = {}
    BY DEF Spoken, Words, LabelOf, GapOf, NameOf
  <1> HIDE DEF label, words, labels
  <1>2. Says(first, words, labels, <<text>>)
    <2>1. Says(first, words, labels, <<SafeText(artifact.name)>>)
      BY <1>1, SaysLine
    <2> QED BY <2>1, <1>1
  <1>3. Hushed(evidence, {"evidence"})
    BY HushedEvidence
  <1> HIDE DEF first, text, evidence
  <1>4. Says(first \o lines, words, labels, <<text>>)
    BY <1>1, <1>2, SaysThen
  <1>5. Says((first \o lines) \o evidence, words, labels, <<text>>)
    BY <1>1, <1>3, <1>4, SaysThen
  <1> QED BY <1>5 DEF first, label, words, labels, text, evidence

LEMMA ArtifactsSay ==
    ASSUME NEW list \in {"inputs", "outputs"}, NEW artifacts, IsList(artifacts),
           NEW items, items \in {ArtifactLines(artifacts), CheckLines(artifacts)}
    PROVE  /\ IsList(items) /\ Len(items) = Len(artifacts)
           /\ \A i \in DOMAIN items :
                 Says(items[i], Spoken(list), LabelOf[list],
                      <<SafeText(artifacts[i][NameOf[list]])>>)
  <1>1. items = [i \in DOMAIN artifacts |-> items[i]]
    BY DEF ArtifactLines, CheckLines
  <1>2. IsList(items) /\ Len(items) = Len(artifacts) /\ DOMAIN items = DOMAIN artifacts
    BY <1>1, MappedList
  <1>3. ASSUME NEW i \in DOMAIN items
        PROVE  Says(items[i], Spoken(list), LabelOf[list],
                    <<SafeText(artifacts[i][NameOf[list]])>>)
    <2> DEFINE artifact == artifacts[i]
               label == IF artifact.required THEN "required" ELSE "optional"
               always == Always("description", artifact.description)
               ifany == IfAny("description", artifact.description)
    <2>1. Hushed(always, {"description"}) /\ Hushed(ifany, {"description"})
      BY HushedParts
    <2>2. \/ items[i] = <<Line(label, artifact.name)>> \o always \o Evidence(artifact.confidence)
          \/ items[i] = <<Line(label, artifact.name)>> \o ifany \o Evidence(artifact.confidence)
      BY <1>2, Zenon DEF ArtifactLines, CheckLines
    <2> HIDE DEF always, ifany
    <2> QED BY <2>1, <2>2, ArtifactSays, Zenon
  <1> QED BY <1>2, <1>3

(* A tool, told with its use or without.                                   *)
LEMMA ToolSays ==
    ASSUME NEW tool, NEW lines, Hushed(lines, {"purpose", "usage"})
    PROVE  Says(<<Line("tool", tool.name)>> \o lines \o Evidence(tool.confidence),
                Spoken("tools"), LabelOf["tools"], <<SafeText(tool[NameOf["tools"]])>>)
  <1> DEFINE first == <<Line("tool", tool.name)>>
             words == Spoken("tools")
             labels == LabelOf["tools"]
             text == SafeText(tool[NameOf["tools"]])
             evidence == Evidence(tool.confidence)
  <1>1. /\ "tool" \in labels /\ "tool" \in words /\ tool.name = tool[NameOf["tools"]]
        /\ {"purpose", "usage"} \subseteq words /\ {"purpose", "usage"} \cap labels = {}
        /\ {"evidence"} \subseteq words /\ {"evidence"} \cap labels = {}
    BY DEF Spoken, Words, LabelOf, GapOf, NameOf
  <1> HIDE DEF words, labels
  <1>2. Says(first, words, labels, <<text>>)
    <2>1. Says(first, words, labels, <<SafeText(tool.name)>>)
      BY <1>1, SaysLine
    <2> QED BY <2>1, <1>1
  <1>3. Hushed(evidence, {"evidence"})
    BY HushedEvidence
  <1> HIDE DEF first, text, evidence
  <1>4. Says(first \o lines, words, labels, <<text>>)
    BY <1>1, <1>2, SaysThen
  <1>5. Says((first \o lines) \o evidence, words, labels, <<text>>)
    BY <1>1, <1>3, <1>4, SaysThen
  <1> QED BY <1>5 DEF first, words, labels, text, evidence

LEMMA ToolsSay ==
    ASSUME NEW tools, IsList(tools),
           NEW items, items \in {AutomationTools(tools), ToolLines(tools), ToolRows(tools)}
    PROVE  /\ IsList(items) /\ Len(items) = Len(tools)
           /\ \A i \in DOMAIN items :
                 Says(items[i], Spoken("tools"), LabelOf["tools"],
                      <<SafeText(tools[i][NameOf["tools"]])>>)
  <1>1. items = [i \in DOMAIN tools |-> items[i]]
    BY DEF AutomationTools, ToolLines, ToolRows
  <1>2. IsList(items) /\ Len(items) = Len(tools) /\ DOMAIN items = DOMAIN tools
    BY <1>1, MappedList
  <1>3. ASSUME NEW i \in DOMAIN items
        PROVE  Says(items[i], Spoken("tools"), LabelOf["tools"],
                    <<SafeText(tools[i][NameOf["tools"]])>>)
    <2> DEFINE tool == tools[i]
               first == <<Line("tool", tool.name)>>
               purpose == Always("purpose", tool.purpose)
               always == Always("usage", tool.observed_usage)
               ifany == IfAny("usage", tool.observed_usage)
               evidence == Evidence(tool.confidence)
               words == {"purpose", "usage"}
    <2>1. Hushed(purpose, words) /\ Hushed(always, words) /\ Hushed(ifany, words)
      <3>1. Hushed(purpose, {"purpose"}) /\ Hushed(always, {"usage"}) /\ Hushed(ifany, {"usage"})
        BY HushedParts
      <3>2. {"purpose"} \subseteq words /\ {"usage"} \subseteq words
        OBVIOUS
      <3> HIDE DEF purpose, always, ifany, words
      <3> QED BY <3>1, <3>2, HushedMore
    <2>2. \/ items[i] = ((first \o purpose) \o always) \o evidence
          \/ items[i] = ((first \o purpose) \o ifany) \o evidence
          \/ items[i] = (first \o purpose) \o evidence
      BY <1>2, Zenon DEF AutomationTools, ToolLines, ToolRows
    <2>3. IsList(first) /\ IsList(purpose) /\ IsList(always) /\ IsList(ifany)
      BY <2>1, OneItem DEF Hushed
    <2> HIDE DEF first, purpose, always, ifany, words
    <2>4. /\ (first \o purpose) \o always = first \o (purpose \o always)
          /\ (first \o purpose) \o ifany = first \o (purpose \o ifany)
      <3>1. (first \o purpose) \o always = first \o (purpose \o always)
        <4>1. IsList(first) /\ IsList(purpose) /\ IsList(always)
          BY <2>3
        <4> QED BY <4>1, CatAssoc
      <3>2. (first \o purpose) \o ifany = first \o (purpose \o ifany)
        <4>1. IsList(first) /\ IsList(purpose) /\ IsList(ifany)
          BY <2>3
        <4> QED BY <4>1, CatAssoc
      <3> QED BY <3>1, <3>2
    <2>5. Hushed(purpose \o always, words) /\ Hushed(purpose \o ifany, words)
      BY <2>1, HushedCat
    <2>6. PICK lines : Hushed(lines, words) /\ items[i] = (first \o lines) \o evidence
      BY <2>1, <2>2, <2>4, <2>5, Zenon
    <2>7. Says((first \o lines) \o evidence, Spoken("tools"), LabelOf["tools"],
               <<SafeText(tool[NameOf["tools"]])>>)
      BY <2>6, ToolSays, Zenon DEF first, words
    <2> QED BY <2>6, <2>7
  <1> QED BY <1>2, <1>3

(* A step, with its reasons and its uses.                                  *)
LEMMA StepSays ==
    ASSUME NEW step, NEW why, Hushed(why, {"why"}),
           NEW uses, Hushed(uses, {"uses", "takes", "makes"})
    PROVE  Says(StepLines(step, why, uses), Spoken("steps"), LabelOf["steps"],
                <<SafeText(step[NameOf["steps"]])>>)
  <1> DEFINE name == <<Line("step", step.name)>>
             action == <<Line("action", step.action)>>
             words == Spoken("steps")
             labels == LabelOf["steps"]
             text == SafeText(step[NameOf["steps"]])
             evidence == Evidence(step.confidence)
  <1>0. StepLines(step, why, uses) = (((name \o action) \o why) \o uses) \o evidence
    BY TwoLines DEF StepLines
  <1>1. /\ "action" \in labels /\ "action" \in words /\ step.action = step[NameOf["steps"]]
        /\ {"step"} \subseteq words /\ {"step"} \cap labels = {}
        /\ {"why"} \subseteq words /\ {"why"} \cap labels = {}
        /\ {"uses", "takes", "makes"} \subseteq words
        /\ {"uses", "takes", "makes"} \cap labels = {}
        /\ {"evidence"} \subseteq words /\ {"evidence"} \cap labels = {}
    BY DEF Spoken, Words, LabelOf, GapOf, NameOf
  <1> HIDE DEF words, labels
  <1>2. Says(action, words, labels, <<text>>)
    <2>1. Says(action, words, labels, <<SafeText(step.action)>>)
      BY <1>1, SaysLine
    <2> QED BY <2>1, <1>1
  <1>3. Hushed(evidence, {"evidence"}) /\ Hushed(name, {"step"})
    BY HushedEvidence, HushedLine
  <1> HIDE DEF name, action, text, evidence
  <1>4. Says(name \o action, words, labels, <<text>>)
    BY <1>1, <1>2, <1>3, ThenSays
  <1>5. Says((name \o action) \o why, words, labels, <<text>>)
    BY <1>1, <1>4, SaysThen
  <1>6. Says(((name \o action) \o why) \o uses, words, labels, <<text>>)
    BY <1>1, <1>5, SaysThen
  <1>7. Says((((name \o action) \o why) \o uses) \o evidence, words, labels, <<text>>)
    BY <1>1, <1>3, <1>6, SaysThen
  <1> QED BY <1>0, <1>7 DEF words, labels, text

LEMMA StepsSay ==
    ASSUME NEW steps, IsList(steps),
           NEW items, items \in {AutomationSteps(steps), HandoffSteps(steps), GuidedSteps(steps)}
    PROVE  /\ IsList(items) /\ Len(items) = Len(steps)
           /\ \A i \in DOMAIN items :
                 Says(items[i], Spoken("steps"), LabelOf["steps"],
                      <<SafeText(steps[i][NameOf["steps"]])>>)
  <1>1. items = [i \in DOMAIN steps |-> items[i]]
    BY DEF AutomationSteps, HandoffSteps, GuidedSteps
  <1>2. IsList(items) /\ Len(items) = Len(steps) /\ DOMAIN items = DOMAIN steps
    BY <1>1, MappedList
  <1>3. ASSUME NEW i \in DOMAIN items
        PROVE  Says(items[i], Spoken("steps"), LabelOf["steps"],
                    <<SafeText(steps[i][NameOf["steps"]])>>)
    <2> DEFINE step == steps[i]
               takes == Joined("takes", step.inputs)
               makes == Joined("makes", step.outputs)
               uses == Joined("uses", step.tools)
               words == {"uses", "takes", "makes"}
    <2>1. Hushed(takes, words) /\ Hushed(makes, words) /\ Hushed(uses, words)
      <3>1. Hushed(takes, {"takes"}) /\ Hushed(makes, {"makes"}) /\ Hushed(uses, {"uses"})
        BY HushedParts
      <3>2. {"takes"} \subseteq words /\ {"makes"} \subseteq words /\ {"uses"} \subseteq words
        OBVIOUS
      <3> HIDE DEF takes, makes, uses, words
      <3> QED BY <3>1, <3>2, HushedMore
    <2>2. /\ Hushed((takes \o makes) \o uses, words)
          /\ Hushed((uses \o takes) \o makes, words)
      <3> HIDE DEF takes, makes, uses, words
      <3>1. Hushed(takes \o makes, words) /\ Hushed(uses \o takes, words)
        BY <2>1, HushedCat
      <3> QED BY <2>1, <3>1, HushedCat
    <2>3. \A option : Hushed(Always("why", option), {"why"}) /\ Hushed(IfAny("why", option), {"why"})
      BY HushedParts
    <2>4. \E why, use : /\ Hushed(why, {"why"}) /\ Hushed(use, words)
                        /\ items[i] = StepLines(step, why, use)
      <3>1. \/ items[i] = StepLines(step, IfAny("why", step.rationale), (takes \o makes) \o uses)
            \/ items[i] = StepLines(step, IfAny("why", step.rationale), (uses \o takes) \o makes)
            \/ items[i] = StepLines(step, Always("why", step.rationale), (uses \o takes) \o makes)
        BY <1>2, Zenon DEF AutomationSteps, HandoffSteps, GuidedSteps, ToolsInputsOutputs
      <3> HIDE DEF takes, makes, uses, words
      <3> QED BY <2>2, <2>3, <3>1, Zenon
    <2> QED BY <2>4, StepSays, Zenon
  <1> QED BY <1>2, <1>3

(* A variation.                                                            *)
LEMMA VariationsSay ==
    ASSUME NEW variations, IsList(variations)
    PROVE  LET items == VariationLines(variations)
           IN  /\ IsList(items) /\ Len(items) = Len(variations)
               /\ \A i \in DOMAIN items :
                     Says(items[i], Spoken("variations"), LabelOf["variations"],
                          <<SafeText(variations[i][NameOf["variations"]])>>)
  <1> DEFINE items == VariationLines(variations)
  <1>1. items = [i \in DOMAIN variations |-> items[i]]
    BY DEF VariationLines
  <1>1a. ASSUME NEW i \in DOMAIN variations
         PROVE  LET variation == variations[i]
                IN  items[i] = <<Line("variation", variation.name), Line("when", variation.when),
                                 Line("difference", variation.difference)>>
                               \o Evidence(variation.confidence)
    BY Zenon DEF VariationLines
  <1> HIDE DEF items
  <1>2. IsList(items) /\ Len(items) = Len(variations) /\ DOMAIN items = DOMAIN variations
    BY <1>1, MappedList
  <1>3. ASSUME NEW i \in DOMAIN items
        PROVE  Says(items[i], Spoken("variations"), LabelOf["variations"],
                    <<SafeText(variations[i][NameOf["variations"]])>>)
    <2> DEFINE variation == variations[i]
               name == <<Line("variation", variation.name)>>
               when == <<Line("when", variation.when)>>
               difference == <<Line("difference", variation.difference)>>
               words == Spoken("variations")
               labels == LabelOf["variations"]
               text == SafeText(variation[NameOf["variations"]])
               evidence == Evidence(variation.confidence)
               quiet == {"variation", "when"}
    <2>1. items[i] = ((name \o when) \o difference) \o evidence
      <3> DEFINE l1 == Line("variation", variation.name)
                 l2 == Line("when", variation.when)
                 l3 == Line("difference", variation.difference)
      <3>1. items[i] = <<l1, l2, l3>> \o evidence
        BY <1>1a, <1>2, Zenon
      <3>2. name = <<l1>> /\ when = <<l2>> /\ difference = <<l3>>
        OBVIOUS
      <3> HIDE DEF evidence, l1, l2, l3, name, when, difference
      <3>3. <<l1, l2, l3>> = (<<l1>> \o <<l2>>) \o <<l3>>
        BY ThreeLines
      <3> QED BY <3>1, <3>2, <3>3, Zenon
    <2>2. /\ "difference" \in labels /\ "difference" \in words
          /\ variation.difference = variation[NameOf["variations"]]
          /\ quiet \subseteq words /\ quiet \cap labels = {}
          /\ {"evidence"} \subseteq words /\ {"evidence"} \cap labels = {}
          /\ {"variation"} \subseteq quiet /\ {"when"} \subseteq quiet
      BY DEF Spoken, Words, LabelOf, GapOf, NameOf
    <2> HIDE DEF words, labels, quiet
    <2>3. Says(difference, words, labels, <<text>>)
      <3>1. Says(difference, words, labels, <<SafeText(variation.difference)>>)
        BY <2>2, SaysLine
      <3> QED BY <3>1, <2>2
    <2>4. Hushed(evidence, {"evidence"}) /\ Hushed(name, {"variation"}) /\ Hushed(when, {"when"})
      BY HushedEvidence, HushedLine
    <2> HIDE DEF name, when, difference, text, evidence
    <2>5. Hushed(name, quiet) /\ Hushed(when, quiet)
      BY <2>2, <2>4, HushedMore
    <2>6. Hushed(name \o when, quiet)
      BY <2>5, HushedCat
    <2>7. Says((name \o when) \o difference, words, labels, <<text>>)
      BY <2>2, <2>3, <2>6, ThenSays
    <2>8. Says(((name \o when) \o difference) \o evidence, words, labels, <<text>>)
      BY <2>2, <2>4, <2>7, SaysThen
    <2> QED BY <2>1, <2>8 DEF words, labels, text
  <1> QED BY <1>2, <1>3 DEF items

(* A decision point, with its alternatives before the evidence or after.   *)
LEMMA AlternativesHushed ==
    ASSUME NEW alternatives, IsList(alternatives)
    PROVE  Hushed(FlattenSeq(AlternativeLines(alternatives)), {"if", "then"})
  <1> DEFINE items == AlternativeLines(alternatives)
             words == {"if", "then"}
  <1>1. items = [i \in DOMAIN alternatives |-> items[i]]
    BY DEF AlternativeLines
  <1>2. ASSUME NEW i \in DOMAIN alternatives PROVE Hushed(items[i], words)
    <2> DEFINE condition == Line("if", alternatives[i].condition)
               outcome == Line("then", alternatives[i].outcome)
    <2>1. items[i] = <<condition, outcome>>
      BY Zenon DEF AlternativeLines
    <2>2. Hushed(<<condition>>, {"if"}) /\ Hushed(<<outcome>>, {"then"})
      BY HushedLine
    <2>3. {"if"} \subseteq words /\ {"then"} \subseteq words
      OBVIOUS
    <2> HIDE DEF condition, outcome, words, items
    <2>4. Hushed(<<condition>>, words) /\ Hushed(<<outcome>>, words)
      BY <2>2, <2>3, HushedMore
    <2>5. items[i] = <<condition>> \o <<outcome>>
      BY <2>1, TwoLines
    <2> QED BY <2>4, <2>5, HushedCat
  <1> HIDE DEF items, words
  <1>3. IsList(items) /\ DOMAIN items = DOMAIN alternatives
    BY <1>1, MappedList
  <1> QED BY <1>2, <1>3, HushedFlatten DEF items, words

LEMMA DecisionSays ==
    ASSUME NEW decision, NEW lines, Hushed(lines, {"answer", "if", "then", "evidence"})
    PROVE  Says(<<Line("question", decision.question)>> \o lines, Spoken("decision_points"),
                LabelOf["decision_points"], <<SafeText(decision[NameOf["decision_points"]])>>)
  <1> DEFINE first == <<Line("question", decision.question)>>
             words == Spoken("decision_points")
             labels == LabelOf["decision_points"]
             text == SafeText(decision[NameOf["decision_points"]])
             quiet == {"answer", "if", "then", "evidence"}
  <1>1. /\ "question" \in labels /\ "question" \in words
        /\ decision.question = decision[NameOf["decision_points"]]
        /\ quiet \subseteq words /\ quiet \cap labels = {}
    BY DEF Spoken, Words, LabelOf, GapOf, NameOf
  <1>0. Hushed(lines, quiet)
    OBVIOUS
  <1> HIDE DEF words, labels, quiet
  <1>2. Says(first, words, labels, <<text>>)
    <2>1. Says(first, words, labels, <<SafeText(decision.question)>>)
      BY <1>1, SaysLine
    <2> QED BY <2>1, <1>1
  <1> HIDE DEF first, text
  <1>3. Says(first \o lines, words, labels, <<text>>)
    BY <1>0, <1>1, <1>2, SaysThen
  <1> QED BY <1>3 DEF first, words, labels, text

LEMMA DecisionsSay ==
    ASSUME NEW decisions, IsList(decisions),
           \A i \in DOMAIN decisions : IsList(decisions[i].alternatives),
           NEW items, items \in {DecisionLines(decisions), DecisionRows(decisions)}
    PROVE  /\ IsList(items) /\ Len(items) = Len(decisions)
           /\ \A i \in DOMAIN items :
                 Says(items[i], Spoken("decision_points"), LabelOf["decision_points"],
                      <<SafeText(decisions[i][NameOf["decision_points"]])>>)
  <1>1. items = [i \in DOMAIN decisions |-> items[i]]
    BY DEF DecisionLines, DecisionRows
  <1>2. IsList(items) /\ Len(items) = Len(decisions) /\ DOMAIN items = DOMAIN decisions
    BY <1>1, MappedList
  <1>3. ASSUME NEW i \in DOMAIN items
        PROVE  Says(items[i], Spoken("decision_points"), LabelOf["decision_points"],
                    <<SafeText(decisions[i][NameOf["decision_points"]])>>)
    <2> DEFINE decision == decisions[i]
               first == <<Line("question", decision.question)>>
               answer == Always("answer", decision.observed_answer)
               others == FlattenSeq(AlternativeLines(decision.alternatives))
               evidence == Evidence(decision.confidence)
               words == {"answer", "if", "then", "evidence"}
    <2>1. Hushed(answer, words) /\ Hushed(others, words) /\ Hushed(evidence, words)
      <3>1. Hushed(answer, {"answer"}) /\ Hushed(evidence, {"evidence"})
        BY HushedParts, HushedEvidence
      <3>2. Hushed(others, {"if", "then"})
        BY <1>2, AlternativesHushed
      <3>3. {"answer"} \subseteq words /\ {"if", "then"} \subseteq words /\ {"evidence"} \subseteq words
        OBVIOUS
      <3> HIDE DEF answer, others, evidence, words
      <3> QED BY <3>1, <3>2, <3>3, HushedMore
    <2>2. \/ items[i] = ((first \o answer) \o others) \o evidence
          \/ items[i] = ((first \o answer) \o evidence) \o others
      BY <1>2, Zenon DEF DecisionLines, DecisionRows
    <2>3. IsList(first)
      BY OneItem
    <2> HIDE DEF first, answer, others, evidence, words
    <2>4. ASSUME NEW a, Hushed(a, words), NEW b, Hushed(b, words), NEW c, Hushed(c, words)
          PROVE  /\ ((first \o a) \o b) \o c = first \o ((a \o b) \o c)
                 /\ Hushed((a \o b) \o c, words)
      <3>1. IsList(a) /\ IsList(b) /\ IsList(c)
        BY <2>4 DEF Hushed
      <3>2. Hushed(a \o b, words)
        BY <2>4, HushedCat
      <3>3. Hushed((a \o b) \o c, words)
        BY <2>4, <3>2, HushedCat
      <3>4. IsList(a \o b)
        BY <3>2 DEF Hushed
      <3>5. (first \o a) \o b = first \o (a \o b)
        <4>1. IsList(first) /\ IsList(a) /\ IsList(b)
          BY <2>3, <3>1
        <4> QED BY <4>1, CatAssoc
      <3>6. (first \o (a \o b)) \o c = first \o ((a \o b) \o c)
        <4> DEFINE d == a \o b
        <4>1. IsList(first) /\ IsList(d) /\ IsList(c)
          BY <2>3, <3>1, <3>4
        <4> HIDE DEF d
        <4>2. (first \o d) \o c = first \o (d \o c)
          BY <4>1, CatAssoc
        <4> QED BY <4>2 DEF d
      <3> QED BY <3>3, <3>5, <3>6
    <2>5. \E lines : Hushed(lines, words) /\ items[i] = first \o lines
      <3>1. /\ ((first \o answer) \o others) \o evidence
                  = first \o ((answer \o others) \o evidence)
            /\ Hushed((answer \o others) \o evidence, words)
        BY <2>1, <2>4
      <3>2. /\ ((first \o answer) \o evidence) \o others
                  = first \o ((answer \o evidence) \o others)
            /\ Hushed((answer \o evidence) \o others, words)
        BY <2>1, <2>4
      <3>3. CASE items[i] = ((first \o answer) \o others) \o evidence
        BY <3>1, <3>3, Zenon
      <3>4. CASE items[i] = ((first \o answer) \o evidence) \o others
        BY <3>2, <3>4, Zenon
      <3> QED BY <2>2, <3>3, <3>4
    <2> QED BY <2>5, DecisionSays, Zenon DEF first, words
  <1> QED BY <1>2, <1>3

-----------------------------------------------------------------------------
(* A rendering, block by block.                                            *)

Frame ==
    {"title", "goal", "context", "evidence", "provenance", "session", "observations", "captures",
     "note"}
WordsOf(kind) ==
    IF kind = "frame" THEN Frame
    ELSE IF kind = "branches" THEN Words["decision_points"] \cup Words["variations"]
    ELSE Words[kind]
Houses(kind, list) == kind = list \/ (kind = "branches" /\ list \in Branching)
Artifacts == {"inputs", "outputs"}

(* Which block tells which list: the kind of every block, the place of     *)
(* every list, and the lists whose absence is told of them together.       *)
IsLayout(blocks, kinds, place, together, document) ==
    /\ IsList(blocks)
    /\ \A k \in DOMAIN blocks :
          kinds[k] \in Lists \cup {"frame", "branches"} /\ Hushed(blocks[k], WordsOf(kinds[k]))
    /\ \A list \in Lists :
          /\ place[list] \in DOMAIN blocks
          /\ \A k \in DOMAIN blocks : Houses(kinds[k], list) => k = place[list]
          /\ Told(blocks[place[list]], LabelOf[list]) = NamesIn(document, list)
          /\ TellsGap(blocks[place[list]], list, Untold(document, together, list))
    /\ place["inputs"] < place["outputs"]

(* A block has no word of a list that it does not house.                   *)
LEMMA Strangers ==
    ASSUME NEW list \in Lists, NEW kind \in Lists \cup {"frame", "branches"}, ~Houses(kind, list)
    PROVE  /\ GapOf[list] \notin WordsOf(kind)
           /\ ~(list \in Artifacts /\ kind \in Artifacts) => WordsOf(kind) \cap LabelOf[list] = {}
  <1> USE DEF Lists, ShapeOf, WordsOf, Words, GapOf, LabelOf, Houses, Branching, Frame, Artifacts
  <1>1. CASE kind = "frame"
    BY <1>1
  <1>2. CASE kind = "branches"
    BY <1>2
  <1>3. CASE kind = "inputs"
    BY <1>3
  <1>4. CASE kind = "outputs"
    BY <1>4
  <1>5. CASE kind = "tools"
    BY <1>5
  <1>6. CASE kind = "steps"
    BY <1>6
  <1>7. CASE kind = "decision_points"
    BY <1>7
  <1>8. CASE kind = "variations"
    BY <1>8
  <1> QED BY <1>1, <1>2, <1>3, <1>4, <1>5, <1>6, <1>7, <1>8

LEMMA BlocksAreLists ==
    ASSUME NEW blocks, NEW kinds, NEW place, NEW together, NEW document,
           IsLayout(blocks, kinds, place, together, document)
    PROVE  IsList(blocks) /\ \A k \in DOMAIN blocks : IsList(blocks[k])
  BY DEF IsLayout, Hushed

LEMMA ToldEachFacts ==
    ASSUME NEW labels, NEW blocks, IsList(blocks), \A k \in DOMAIN blocks : IsList(blocks[k])
    PROVE  LET told == ToldEach(blocks, labels)
           IN  /\ IsList(told) /\ DOMAIN told = DOMAIN blocks
               /\ \A k \in DOMAIN blocks : told[k] = Told(blocks[k], labels) /\ IsList(told[k])
               /\ Told(FlattenSeq(blocks), labels) = FlattenSeq(told)
  <1> DEFINE told == ToldEach(blocks, labels)
  <1>1. told = [k \in DOMAIN blocks |-> told[k]]
        /\ \A k \in DOMAIN blocks : told[k] = Told(blocks[k], labels)
    BY DEF ToldEach
  <1>2. Told(FlattenSeq(blocks), labels) = FlattenSeq(told)
    BY ToldFlatten
  <1>3. \A k \in DOMAIN blocks : IsList(Told(blocks[k], labels))
    BY ToldIsList
  <1> HIDE DEF told
  <1>4. IsList(told) /\ DOMAIN told = DOMAIN blocks
    BY <1>1, MappedList
  <1> QED BY <1>1, <1>2, <1>3, <1>4 DEF told

LEMMA ListIsTold ==
    ASSUME NEW blocks, NEW kinds, NEW place, NEW together, NEW document,
           IsLayout(blocks, kinds, place, together, document),
           NEW list \in Lists \ Artifacts
    PROVE  Told(FlattenSeq(blocks), LabelOf[list]) = NamesIn(document, list)
  <1> DEFINE labels == LabelOf[list]
             told == ToldEach(blocks, labels)
             m == place[list]
  <1>1. /\ IsList(told) /\ DOMAIN told = DOMAIN blocks
        /\ \A k \in DOMAIN blocks : told[k] = Told(blocks[k], labels) /\ IsList(told[k])
        /\ Told(FlattenSeq(blocks), labels) = FlattenSeq(told)
    BY BlocksAreLists, ToldEachFacts
  <1>2. m \in DOMAIN blocks /\ Told(blocks[m], labels) = NamesIn(document, list)
    BY DEF IsLayout
  <1>3. ASSUME NEW k \in DOMAIN blocks, k # m PROVE Told(blocks[k], labels) = <<>>
    <2>1. /\ kinds[k] \in Lists \cup {"frame", "branches"} /\ Hushed(blocks[k], WordsOf(kinds[k]))
          /\ ~Houses(kinds[k], list)
      BY <1>3 DEF IsLayout
    <2>2. WordsOf(kinds[k]) \cap labels = {}
      BY <2>1, Strangers
    <2>3. IsList(blocks[k]) /\ Labels(blocks[k]) \cap labels = {}
      BY <2>1, <2>2 DEF Hushed
    <2> QED BY <2>3, Silent
  <1> HIDE DEF told, m, labels
  <1>4. m \in DOMAIN told /\ IsList(told[m]) /\ \A k \in DOMAIN told : k # m => told[k] = <<>>
    BY <1>1, <1>2, <1>3
  <1>5. FlattenSeq(told) = told[m]
    BY <1>1, <1>4, FlattenOnly
  <1> QED BY <1>1, <1>2, <1>5 DEF labels

LEMMA ArtifactsAreTold ==
    ASSUME NEW blocks, NEW kinds, NEW place, NEW together, NEW document,
           IsLayout(blocks, kinds, place, together, document)
    PROVE  Told(FlattenSeq(blocks), {"required", "optional"})
              = NamesIn(document, "inputs") \o NamesIn(document, "outputs")
  <1> DEFINE labels == {"required", "optional"}
             told == ToldEach(blocks, labels)
             m == place["inputs"]
             l == place["outputs"]
  <1>0. /\ "inputs" \in Lists /\ "outputs" \in Lists
        /\ LabelOf["inputs"] = labels /\ LabelOf["outputs"] = labels
    BY DEF Lists, ShapeOf, LabelOf
  <1>1. /\ IsList(told) /\ DOMAIN told = DOMAIN blocks
        /\ \A k \in DOMAIN blocks : told[k] = Told(blocks[k], labels) /\ IsList(told[k])
        /\ Told(FlattenSeq(blocks), labels) = FlattenSeq(told)
    BY BlocksAreLists, ToldEachFacts
  <1>2. /\ m \in DOMAIN blocks /\ Told(blocks[m], labels) = NamesIn(document, "inputs")
        /\ l \in DOMAIN blocks /\ Told(blocks[l], labels) = NamesIn(document, "outputs")
        /\ m < l
    BY <1>0 DEF IsLayout
  <1>3. ASSUME NEW k \in DOMAIN blocks, k \notin {m, l} PROVE Told(blocks[k], labels) = <<>>
    <2>1. /\ kinds[k] \in Lists \cup {"frame", "branches"} /\ Hushed(blocks[k], WordsOf(kinds[k]))
          /\ ~Houses(kinds[k], "inputs") /\ ~Houses(kinds[k], "outputs")
      BY <1>0, <1>3 DEF IsLayout
    <2>2. kinds[k] \notin Artifacts
      BY <2>1 DEF Houses, Artifacts
    <2>3. WordsOf(kinds[k]) \cap labels = {}
      BY <1>0, <2>1, <2>2, Strangers
    <2>4. IsList(blocks[k]) /\ Labels(blocks[k]) \cap labels = {}
      BY <2>1, <2>3 DEF Hushed
    <2> QED BY <2>4, Silent
  <1> HIDE DEF told, m, l, labels
  <1>4. /\ m \in DOMAIN told /\ IsList(told[m]) /\ l \in DOMAIN told /\ IsList(told[l])
        /\ \A k \in DOMAIN told : k \notin {m, l} => told[k] = <<>>
    BY <1>1, <1>2, <1>3
  <1>5. FlattenSeq(told) = told[m] \o told[l]
    BY <1>1, <1>2, <1>4, FlattenTwo
  <1>6. told[m] = NamesIn(document, "inputs") /\ told[l] = NamesIn(document, "outputs")
    BY <1>1, <1>2
  <1> QED BY <1>1, <1>5, <1>6, Zenon DEF labels

GapsIn(lines) == {lines[i].label : i \in {n \in DOMAIN lines : lines[n].text = NotCaptured}}

LEMMA GapsOfItems ==
    ASSUME NEW lines, NEW label
    PROVE  label \in GapsIn(lines)
              <=> \E x \in ItemsOf(lines) : x.label = label /\ x.text = NotCaptured
  BY DEF GapsIn, ItemsOf

LEMMA GapIsTold ==
    ASSUME NEW blocks, NEW kinds, NEW place, NEW together, NEW document,
           IsLayout(blocks, kinds, place, together, document),
           NEW list \in Lists
    PROVE  GapOf[list] \in GapsIn(FlattenSeq(blocks)) <=> Untold(document, together, list)
  <1> DEFINE gap == GapOf[list]
             m == place[list]
             lines == FlattenSeq(blocks)
             untold == Untold(document, together, list)
  <1>1. ItemsOf(lines) = UNION {ItemsOf(blocks[k]) : k \in DOMAIN blocks}
    BY BlocksAreLists, FlattenItems
  <1>2. m \in DOMAIN blocks /\ TellsGap(blocks[m], list, untold)
    BY DEF IsLayout
  <1>3. ASSUME NEW k \in DOMAIN blocks, NEW x \in ItemsOf(blocks[k]), x.label = gap PROVE k = m
    <2>1. /\ kinds[k] \in Lists \cup {"frame", "branches"} /\ Hushed(blocks[k], WordsOf(kinds[k]))
          /\ Houses(kinds[k], list) => k = m
      BY DEF IsLayout
    <2>2. gap \in WordsOf(kinds[k])
      BY <2>1, <1>3, LabelsOfItems DEF Hushed
    <2> QED BY <2>1, <2>2, Strangers
  <1> HIDE DEF lines, m, untold
  <1>4. ASSUME gap \in GapsIn(lines) PROVE untold
    <2>1. PICK x \in ItemsOf(lines) : x.label = gap
      BY <1>4, GapsOfItems
    <2>2. PICK k \in DOMAIN blocks : x \in ItemsOf(blocks[k])
      BY <1>1
    <2>3. x \in ItemsOf(blocks[m])
      BY <2>1, <2>2, <1>3
    <2>4. gap \in Labels(blocks[m])
      BY <2>1, <2>3, LabelsOfItems
    <2> QED BY <2>4, <1>2 DEF TellsGap
  <1>5. ASSUME untold PROVE gap \in GapsIn(lines)
    <2>1. PICK x \in ItemsOf(blocks[m]) : x.label = gap
      BY <1>2, <1>5, LabelsOfItems DEF TellsGap
    <2>2. x.text = NotCaptured /\ x \in ItemsOf(lines)
      BY <2>1, <1>1, <1>2 DEF TellsGap
    <2> QED BY <2>1, <2>2, GapsOfItems
  <1> QED BY <1>4, <1>5 DEF lines, untold

LEMMA LayoutTells ==
    ASSUME NEW variant, NEW document, NEW blocks, NEW kinds, NEW place,
           IsLayout(blocks, kinds, place, Together(variant), document),
           Render(variant, document) = FlattenSeq(blocks)
    PROVE  ShownOrMissing(variant, document)
  <1> DEFINE lines == FlattenSeq(blocks)
  <1>1. \A list \in {"tools", "steps", "decision_points", "variations"} :
           Told(lines, LabelOf[list]) = NamesIn(document, list)
    <2>1. {"tools", "steps", "decision_points", "variations"} \subseteq Lists \ Artifacts
      BY DEF Lists, ShapeOf, Artifacts
    <2> QED BY <2>1, ListIsTold
  <1>2. Told(lines, {"required", "optional"})
           \in {NamesIn(document, "inputs") \o NamesIn(document, "outputs")}
    BY ArtifactsAreTold
  <1>3. \A list \in Lists :
           GapOf[list] \in GapsIn(lines) <=> Untold(document, Together(variant), list)
    BY GapIsTold
  <1> HIDE DEF lines
  <1>4. Render(variant, document) = lines
    BY DEF lines
  <1> QED BY <1>1, <1>2, <1>3, <1>4, Zenon DEF ShownOrMissing, GapsIn

-----------------------------------------------------------------------------
(* The blocks of the four renderings.                                      *)

TellsBranches(block, document) ==
    /\ Hushed(block, WordsOf("branches"))
    /\ \A list \in Branching :
          /\ Told(block, LabelOf[list]) = NamesIn(document, list)
          /\ TellsGap(block, list, \A other \in Branching : document[other] = <<>>)
IsBlock(block, kind, document) ==
    \/ kind = "frame" /\ Hushed(block, Frame)
    \/ kind \in Lists /\ IsSection(block, kind, document)
    \/ kind = "branches" /\ TellsBranches(block, document)

LEMMA BlocksAreLayout ==
    ASSUME NEW blocks, IsList(blocks), NEW kinds, NEW place, NEW document,
           NEW together \in {{}, Branching},
           \A k \in DOMAIN blocks : IsBlock(blocks[k], kinds[k], document),
           \A list \in Lists :
              /\ place[list] \in DOMAIN blocks /\ Houses(kinds[place[list]], list)
              /\ \A k \in DOMAIN blocks : Houses(kinds[k], list) => k = place[list]
              /\ kinds[place[list]] = "branches" <=> list \in together,
           place["inputs"] < place["outputs"]
    PROVE  IsLayout(blocks, kinds, place, together, document)
  <1>1. ASSUME NEW k \in DOMAIN blocks
        PROVE  kinds[k] \in Lists \cup {"frame", "branches"} /\ Hushed(blocks[k], WordsOf(kinds[k]))
    <2>1. CASE kinds[k] = "frame" /\ Hushed(blocks[k], Frame)
      BY <2>1 DEF WordsOf
    <2>2. CASE kinds[k] \in Lists /\ IsSection(blocks[k], kinds[k], document)
      <3>1. WordsOf(kinds[k]) = Words[kinds[k]]
        BY <2>2 DEF WordsOf, Lists, ShapeOf
      <3> QED BY <2>2, <3>1 DEF IsSection, Says, Hushed
    <2>3. CASE kinds[k] = "branches" /\ TellsBranches(blocks[k], document)
      BY <2>3 DEF TellsBranches
    <2> QED BY <2>1, <2>2, <2>3 DEF IsBlock
  <1>2. ASSUME NEW list \in Lists
        PROVE  /\ Told(blocks[place[list]], LabelOf[list]) = NamesIn(document, list)
               /\ TellsGap(blocks[place[list]], list, Untold(document, together, list))
    <2> DEFINE m == place[list]
    <2>1. /\ m \in DOMAIN blocks /\ Houses(kinds[m], list)
          /\ IsBlock(blocks[m], kinds[m], document)
          /\ kinds[m] = "branches" <=> list \in together
      OBVIOUS
    <2> HIDE DEF m
    <2>2. CASE kinds[m] = list
      <3>1. list # "frame" /\ list # "branches"
        BY DEF Lists, ShapeOf
      <3>2. IsSection(blocks[m], list, document)
        BY <2>1, <2>2, <3>1 DEF IsBlock
      <3>3. Untold(document, together, list) <=> document[list] = <<>>
        BY <2>1, <2>2, <3>1 DEF Untold
      <3> QED BY <3>2, <3>3 DEF IsSection, Says, TellsGap, m
    <2>3. CASE kinds[m] = "branches" /\ list \in Branching
      <3>1. TellsBranches(blocks[m], document)
        BY <2>1, <2>3 DEF IsBlock, Lists, ShapeOf
      <3>2. Untold(document, together, list) <=> \A other \in Branching : document[other] = <<>>
        BY <2>1, <2>3 DEF Untold
      <3> QED BY <2>3, <3>1, <3>2 DEF TellsBranches, TellsGap, m
    <2> QED BY <2>1, <2>2, <2>3 DEF Houses
  <1> QED BY <1>1, <1>2 DEF IsLayout

(* A document is of the type of a draft.                                   *)
LEMMA DraftLists ==
    ASSUME NEW document, IsDraft(document)
    PROVE  /\ \A list \in Lists : IsList(document[list])
           /\ \A i \in DOMAIN document.decision_points :
                 IsList(document.decision_points[i].alternatives)
  <1>1. \A list \in Lists : IsList(document[list])
    BY DEF IsDraft
  <1>2. ASSUME NEW i \in DOMAIN document["decision_points"]
        PROVE  IsList(document["decision_points"][i].alternatives)
    <2>1. "decision_points" \in Lists /\ "alternatives" \in ShapeOf["decision_points"].pairs
      BY DEF Lists, ShapeOf, DecisionPoint, Shape
    <2>2. IsPart(ShapeOf["decision_points"], document["decision_points"][i])
      BY <2>1 DEF IsDraft
    <2>3. IsList(document["decision_points"][i]["alternatives"])
      BY <2>1, <2>2 DEF IsPart
    <2> QED BY <2>3
  <1> QED BY <1>1, <1>2

LEMMA FrameBlocks ==
    ASSUME NEW document
    PROVE  /\ IsBlock(<<Line("title", document.title)>>, "frame", document)
           /\ IsBlock(Evidence(document.confidence), "frame", document)
           /\ IsBlock(Subject(document), "frame", document)
           /\ IsBlock(ProvenanceLines(document.provenance), "frame", document)
  <1>0. \A label \in Frame : {label} \subseteq Frame
    OBVIOUS
  <1>1. /\ "title" \in Frame /\ "evidence" \in Frame /\ "goal" \in Frame /\ "context" \in Frame
        /\ "provenance" \in Frame /\ "session" \in Frame /\ "observations" \in Frame
        /\ "captures" \in Frame /\ "note" \in Frame
    BY DEF Frame
  <1>2. ASSUME NEW label \in Frame, NEW option
        PROVE  /\ Hushed(Always(label, option), Frame) /\ Hushed(IfAny(label, option), Frame)
               /\ Hushed(Joined(label, option), Frame)
    BY <1>0, HushedParts, HushedMore
  <1>3. Hushed(<<Line("title", document.title)>>, Frame)
    <2>1. Hushed(<<Line("title", document.title)>>, {"title"})
      BY HushedLine
    <2> QED BY <2>1, <1>0, <1>1, HushedMore
  <1>4. Hushed(Evidence(document.confidence), Frame)
    BY <1>0, <1>1, HushedEvidence, HushedMore
  <1>5. Hushed(Subject(document), Frame)
    <2>1. Hushed(Always("goal", document.goal), Frame)
          /\ Hushed(Always("context", document.context), Frame)
      BY <1>1, <1>2
    <2> QED BY <2>1, HushedCat DEF Subject
  <1>6. Hushed(ProvenanceLines(document.provenance), Frame)
    <2> DEFINE origin == document.provenance
               s == IfAny("session", origin.session_id)
               o == Joined("observations", origin.observation_ids)
               c == Joined("captures", origin.capture_ids)
               n == IfAny("note", origin.note)
    <2>1. Hushed(s, Frame) /\ Hushed(o, Frame) /\ Hushed(c, Frame) /\ Hushed(n, Frame)
      BY <1>1, <1>2
    <2>2. Hushed(<<Gap("provenance")>>, Frame)
      <3>1. Gap("provenance").label = "provenance"
        BY DEF Gap
      <3> QED BY <3>1, <1>1, LabelsOne DEF Hushed
    <2>3. ProvenanceLines(origin) \in {<<Gap("provenance")>>, ((s \o o) \o c) \o n}
      BY Zenon DEF ProvenanceLines
    <2> HIDE DEF s, o, c, n
    <2>4. Hushed(((s \o o) \o c) \o n, Frame)
      <3>1. Hushed(s \o o, Frame)
        BY <2>1, HushedCat
      <3>2. Hushed((s \o o) \o c, Frame)
        BY <2>1, <3>1, HushedCat
      <3> QED BY <2>1, <3>2, HushedCat
    <2> QED BY <2>2, <2>3, <2>4
  <1> QED BY <1>3, <1>4, <1>5, <1>6 DEF IsBlock

LEMMA ListBlocks ==
    ASSUME NEW document, IsDraft(document)
    PROVE  /\ IsBlock(Section("inputs", ArtifactLines(document.inputs)), "inputs", document)
           /\ IsBlock(Section("outputs", ArtifactLines(document.outputs)), "outputs", document)
           /\ IsBlock(Section("outputs", CheckLines(document.outputs)), "outputs", document)
           /\ \A items \in {AutomationTools(document.tools), ToolLines(document.tools),
                             ToolRows(document.tools)} :
                 IsBlock(Section("tools", items), "tools", document)
           /\ \A items \in {AutomationSteps(document.steps), HandoffSteps(document.steps),
                             GuidedSteps(document.steps)} :
                 IsBlock(Section("steps", items), "steps", document)
           /\ \A items \in {DecisionLines(document.decision_points),
                             DecisionRows(document.decision_points)} :
                 IsBlock(Section("decisions", items), "decision_points", document)
           /\ IsBlock(Section("variations", VariationLines(document.variations)),
                      "variations", document)
  <1>0. /\ Lists = {"inputs", "outputs", "tools", "steps", "decision_points", "variations"}
        /\ GapOf["inputs"] = "inputs" /\ GapOf["outputs"] = "outputs" /\ GapOf["tools"] = "tools"
        /\ GapOf["steps"] = "steps" /\ GapOf["decision_points"] = "decisions"
        /\ GapOf["variations"] = "variations"
    BY DEF Lists, ShapeOf, GapOf
  <1>1. \A list \in Lists : IsList(document[list])
    BY DraftLists
  <1>2. ASSUME NEW list \in Artifacts,
               NEW items \in {ArtifactLines(document[list]), CheckLines(document[list])}
        PROVE  IsBlock(Section(GapOf[list], items), list, document)
    <2>1. list \in Lists /\ list \in {"inputs", "outputs"} /\ IsList(document[list])
      BY <1>0, <1>1 DEF Artifacts
    <2>2. /\ IsList(items) /\ Len(items) = Len(document[list])
          /\ \A i \in DOMAIN items :
                Says(items[i], Spoken(list), LabelOf[list],
                     <<SafeText(document[list][i][NameOf[list]])>>)
      BY <2>1, ArtifactsSay
    <2> QED BY <2>1, <2>2, SectionTells DEF IsBlock
  <1>3. ASSUME NEW items \in {AutomationTools(document["tools"]), ToolLines(document["tools"]),
                             ToolRows(document["tools"])}
        PROVE  IsBlock(Section(GapOf["tools"], items), "tools", document)
    <2>1. "tools" \in Lists /\ IsList(document["tools"])
      BY <1>0, <1>1
    <2>2. /\ IsList(items) /\ Len(items) = Len(document["tools"])
          /\ \A i \in DOMAIN items :
                Says(items[i], Spoken("tools"), LabelOf["tools"],
                     <<SafeText(document["tools"][i][NameOf["tools"]])>>)
      BY <2>1, ToolsSay
    <2> QED BY <2>1, <2>2, SectionTells DEF IsBlock
  <1>4. ASSUME NEW items \in {AutomationSteps(document["steps"]), HandoffSteps(document["steps"]),
                             GuidedSteps(document["steps"])}
        PROVE  IsBlock(Section(GapOf["steps"], items), "steps", document)
    <2>1. "steps" \in Lists /\ IsList(document["steps"])
      BY <1>0, <1>1
    <2>2. /\ IsList(items) /\ Len(items) = Len(document["steps"])
          /\ \A i \in DOMAIN items :
                Says(items[i], Spoken("steps"), LabelOf["steps"],
                     <<SafeText(document["steps"][i][NameOf["steps"]])>>)
      BY <2>1, StepsSay
    <2> QED BY <2>1, <2>2, SectionTells DEF IsBlock
  <1>5. ASSUME NEW items \in {DecisionLines(document["decision_points"]),
                             DecisionRows(document["decision_points"])}
        PROVE  IsBlock(Section(GapOf["decision_points"], items), "decision_points", document)
    <2>1. "decision_points" \in Lists /\ IsList(document["decision_points"])
          /\ \A i \in DOMAIN document["decision_points"] :
                IsList(document["decision_points"][i].alternatives)
      BY <1>0, DraftLists
    <2>2. /\ IsList(items) /\ Len(items) = Len(document["decision_points"])
          /\ \A i \in DOMAIN items :
                Says(items[i], Spoken("decision_points"), LabelOf["decision_points"],
                     <<SafeText(document["decision_points"][i][NameOf["decision_points"]])>>)
      BY <2>1, DecisionsSay
    <2> QED BY <2>1, <2>2, SectionTells DEF IsBlock
  <1>6. IsBlock(Section(GapOf["variations"], VariationLines(document["variations"])),
                "variations", document)
    <2> DEFINE items == VariationLines(document["variations"])
    <2>1. "variations" \in Lists /\ IsList(document["variations"])
      BY <1>0, <1>1
    <2>2. /\ IsList(items) /\ Len(items) = Len(document["variations"])
          /\ \A i \in DOMAIN items :
                Says(items[i], Spoken("variations"), LabelOf["variations"],
                     <<SafeText(document["variations"][i][NameOf["variations"]])>>)
      BY <2>1, VariationsSay
    <2> HIDE DEF items
    <2>3. IsBlock(Section(GapOf["variations"], items), "variations", document)
      BY <2>1, <2>2, SectionTells DEF IsBlock
    <2> QED BY <2>3 DEF items
  <1>7. /\ IsBlock(Section(GapOf["inputs"], ArtifactLines(document["inputs"])), "inputs", document)
        /\ IsBlock(Section(GapOf["outputs"], ArtifactLines(document["outputs"])), "outputs", document)
        /\ IsBlock(Section(GapOf["outputs"], CheckLines(document["outputs"])), "outputs", document)
    BY <1>2 DEF Artifacts
  <1> QED BY <1>0, <1>3, <1>4, <1>5, <1>6, <1>7

(* Decisions and variations under one heading.                             *)
LEMMA BranchesBlock ==
    ASSUME NEW document, IsDraft(document)
    PROVE  IsBlock(Branches(document), "branches", document)
  <1> DEFINE decisions == DecisionLines(document["decision_points"])
             variations == VariationLines(document["variations"])
             d == FlattenSeq(decisions)
             v == FlattenSeq(variations)
             words == WordsOf("branches")
  <1>1. /\ "decision_points" \in Lists /\ "variations" \in Lists
        /\ IsList(document["decision_points"]) /\ IsList(document["variations"])
        /\ \A i \in DOMAIN document["decision_points"] :
              IsList(document["decision_points"][i].alternatives)
    BY DraftLists DEF Lists, ShapeOf
  <1>2. Says(d, Spoken("decision_points"), LabelOf["decision_points"],
             NamesIn(document, "decision_points"))
    <2>1. /\ IsList(decisions) /\ Len(decisions) = Len(document["decision_points"])
          /\ \A i \in DOMAIN decisions :
                Says(decisions[i], Spoken("decision_points"), LabelOf["decision_points"],
                     <<SafeText(document["decision_points"][i][NameOf["decision_points"]])>>)
      BY <1>1, DecisionsSay
    <2> HIDE DEF decisions
    <2> QED BY <1>1, <2>1, ItemsTell
  <1>3. Says(v, Spoken("variations"), LabelOf["variations"], NamesIn(document, "variations"))
    <2>1. /\ IsList(variations) /\ Len(variations) = Len(document["variations"])
          /\ \A i \in DOMAIN variations :
                Says(variations[i], Spoken("variations"), LabelOf["variations"],
                     <<SafeText(document["variations"][i][NameOf["variations"]])>>)
      BY <1>1, VariationsSay
    <2> HIDE DEF variations
    <2> QED BY <1>1, <2>1, ItemsTell
  <1>4. /\ Spoken("decision_points") \subseteq words /\ Spoken("variations") \subseteq words
        /\ "decisions" \in words /\ "variations" \in words
        /\ Spoken("decision_points") \cap LabelOf["variations"] = {}
        /\ Spoken("variations") \cap LabelOf["decision_points"] = {}
        /\ {"decisions", "variations"} \cap LabelOf["variations"] = {}
        /\ {"decisions", "variations"} \cap LabelOf["decision_points"] = {}
    BY DEF Spoken, WordsOf, Words, LabelOf, GapOf
  <1> HIDE DEF words
  <1>5. CASE document["decision_points"] = <<>> /\ document["variations"] = <<>>
    <2> DEFINE one == <<Gap("decisions")>>
               two == <<Gap("variations")>>
    <2>1. Branches(document) = one \o two
      <3>1. Branches(document) = <<Gap("decisions"), Gap("variations")>>
        BY <1>5 DEF Branches
      <3> QED BY <3>1, TwoLines
    <2>2. Labels(one) = {"decisions"} /\ Labels(two) = {"variations"} /\ IsList(one) /\ IsList(two)
      <3>1. Gap("decisions").label = "decisions" /\ Gap("variations").label = "variations"
        BY DEF Gap
      <3> QED BY <3>1, LabelsOne
    <2> HIDE DEF one, two
    <2>3. IsList(one \o two) /\ Labels(one \o two) = {"decisions", "variations"}
      BY <2>2, LabelsCat
    <2>4. /\ NamesIn(document, "decision_points") = <<>>
          /\ NamesIn(document, "variations") = <<>>
      <3>1. Len(<<>>) = 0
        OBVIOUS
      <3>2. /\ IsList(NamesIn(document, "decision_points")) /\ IsList(NamesIn(document, "variations"))
            /\ Len(NamesIn(document, "decision_points")) = 0
            /\ Len(NamesIn(document, "variations")) = 0
        BY <1>1, <1>5, <3>1, NamesFacts
      <3> QED BY <3>2, EmptyList
    <2>5. \A list \in Branching : Told(one \o two, LabelOf[list]) = <<>>
      BY <1>4, <2>3, Silent DEF Branching
    <2>6. Hushed(one \o two, words)
      BY <1>4, <2>3 DEF Hushed
    <2>7. \A list \in Branching :
             TellsGap(one \o two, list, \A other \in Branching : document[other] = <<>>)
      <3>1. \A line \in ItemsOf(one \o two) : line.text = NotCaptured
        <4>1. ItemsOf(one \o two) = ItemsOf(one) \cup ItemsOf(two)
          BY <2>2, CatItems
        <4>2. /\ ItemsOf(one) = {Gap("decisions")} /\ ItemsOf(two) = {Gap("variations")}
          BY DEF one, two, ItemsOf
        <4>3. Gap("decisions").text = NotCaptured /\ Gap("variations").text = NotCaptured
          BY DEF Gap
        <4> QED BY <4>1, <4>2, <4>3
      <3>2. \A list \in Branching : GapOf[list] \in {"decisions", "variations"}
        BY DEF Branching, GapOf
      <3>3. \A other \in Branching : document[other] = <<>>
        BY <1>5 DEF Branching
      <3> QED BY <2>3, <3>1, <3>2, <3>3 DEF TellsGap
    <2> QED BY <2>1, <2>4, <2>5, <2>6, <2>7 DEF IsBlock, TellsBranches, Branching, words
  <1>6. CASE ~(document["decision_points"] = <<>> /\ document["variations"] = <<>>)
    <2>1. Branches(document) = d \o v
      BY <1>6 DEF Branches
    <2> HIDE DEF d, v
    <2>2. IsList(d) /\ IsList(v) /\ Hushed(d, words) /\ Hushed(v, words)
      BY <1>2, <1>3, <1>4 DEF Says, Hushed
    <2>3. Hushed(d \o v, words)
      BY <2>2, HushedCat
    <2>4. Told(d \o v, LabelOf["decision_points"]) = NamesIn(document, "decision_points")
      <3>1. Told(v, LabelOf["decision_points"]) = <<>>
        BY <1>3, <1>4, <2>2, Silent DEF Says
      <3>2. Told(d \o v, LabelOf["decision_points"])
              = Told(d, LabelOf["decision_points"]) \o Told(v, LabelOf["decision_points"])
        BY <2>2, ToldCat
      <3>3. /\ Told(d, LabelOf["decision_points"]) = NamesIn(document, "decision_points")
            /\ IsList(NamesIn(document, "decision_points"))
        BY <1>1, <1>2, NamesFacts DEF Says
      <3>4. NamesIn(document, "decision_points") \o <<>> = NamesIn(document, "decision_points")
        BY <3>3, CatEmpty
      <3> QED BY <3>1, <3>2, <3>3, <3>4, Zenon
    <2>5. Told(d \o v, LabelOf["variations"]) = NamesIn(document, "variations")
      <3>1. Told(d, LabelOf["variations"]) = <<>>
        BY <1>2, <1>4, <2>2, Silent DEF Says
      <3>2. Told(d \o v, LabelOf["variations"])
              = Told(d, LabelOf["variations"]) \o Told(v, LabelOf["variations"])
        BY <2>2, ToldCat
      <3>3. /\ Told(v, LabelOf["variations"]) = NamesIn(document, "variations")
            /\ IsList(NamesIn(document, "variations"))
        BY <1>1, <1>3, NamesFacts DEF Says
      <3>4. <<>> \o NamesIn(document, "variations") = NamesIn(document, "variations")
        BY <3>3, CatEmpty
      <3> QED BY <3>1, <3>2, <3>3, <3>4, Zenon
    <2>6. \A list \in Branching :
             TellsGap(d \o v, list, \A other \in Branching : document[other] = <<>>)
      <3>1. Labels(d \o v) = Labels(d) \cup Labels(v)
        BY <2>2, LabelsCat
      <3>2. /\ Labels(d) \subseteq Spoken("decision_points")
            /\ Labels(v) \subseteq Spoken("variations")
        BY <1>2, <1>3 DEF Says
      <3>3. \A list \in Branching : GapOf[list] \notin Labels(d \o v)
        BY <3>1, <3>2 DEF Branching, GapOf, Spoken, Words
      <3>4. ~ \A other \in Branching : document[other] = <<>>
        BY <1>6 DEF Branching
      <3> QED BY <3>3, <3>4, LabelsOfItems DEF TellsGap
    <2> QED BY <2>1, <2>3, <2>4, <2>5, <2>6 DEF IsBlock, TellsBranches, Branching, words
  <1> QED BY <1>5, <1>6

LEMMA AutomationLayout ==
    ASSUME NEW document, IsDraft(document)
    PROVE  \E blocks, kinds, place :
              /\ IsLayout(blocks, kinds, place, {}, document)
              /\ Automation(document) = FlattenSeq(blocks)
  <1> DEFINE b1 == <<Line("title", document.title)>>
             b2 == Evidence(document.confidence)
             b3 == Subject(document)
             b4 == Section("inputs", ArtifactLines(document.inputs))
             b5 == Section("tools", AutomationTools(document.tools))
             b6 == Section("steps", AutomationSteps(document.steps))
             b7 == Section("decisions", DecisionLines(document.decision_points))
             b8 == Section("variations", VariationLines(document.variations))
             b9 == Section("outputs", ArtifactLines(document.outputs))
             b10 == ProvenanceLines(document.provenance)
             blocks == <<b1, b2, b3, b4, b5, b6, b7, b8, b9, b10>>
             kinds == <<"frame", "frame", "frame", "inputs", "tools", "steps",
                        "decision_points", "variations", "outputs", "frame">>
             place == [inputs |-> 4, outputs |-> 9, tools |-> 5, steps |-> 6,
                       decision_points |-> 7, variations |-> 8]
  <1>1. Automation(document) = FlattenSeq(blocks)
    BY Zenon DEF Automation
  <1>2. /\ IsBlock(b1, "frame", document)
        /\ IsBlock(b2, "frame", document)
        /\ IsBlock(b3, "frame", document)
        /\ IsBlock(b4, "inputs", document)
        /\ IsBlock(b5, "tools", document)
        /\ IsBlock(b6, "steps", document)
        /\ IsBlock(b7, "decision_points", document)
        /\ IsBlock(b8, "variations", document)
        /\ IsBlock(b9, "outputs", document)
        /\ IsBlock(b10, "frame", document)
    BY FrameBlocks, ListBlocks, Zenon
  <1> HIDE DEF b1, b2, b3, b4, b5, b6, b7, b8, b9, b10
  <1>3. IsList(blocks) /\ DOMAIN blocks = 1 .. 10
    <2>1. blocks = [k \in 1 .. 10 |-> blocks[k]]
      OBVIOUS
    <2> HIDE DEF blocks
    <2> QED BY <2>1, IsListOf
  <1>4. \A k \in 1 .. 10 : IsBlock(blocks[k], kinds[k], document)
    <2>1. \A k \in 1 .. 10 : k = 1 \/ k = 2 \/ k = 3 \/ k = 4 \/ k = 5 \/ k = 6 \/ k = 7 \/ k = 8 \/ k = 9 \/ k = 10
      OBVIOUS
    <2>2. /\ blocks[1] = b1 /\ kinds[1] = "frame"
          /\ blocks[2] = b2 /\ kinds[2] = "frame"
          /\ blocks[3] = b3 /\ kinds[3] = "frame"
          /\ blocks[4] = b4 /\ kinds[4] = "inputs"
          /\ blocks[5] = b5 /\ kinds[5] = "tools"
          /\ blocks[6] = b6 /\ kinds[6] = "steps"
          /\ blocks[7] = b7 /\ kinds[7] = "decision_points"
          /\ blocks[8] = b8 /\ kinds[8] = "variations"
          /\ blocks[9] = b9 /\ kinds[9] = "outputs"
          /\ blocks[10] = b10 /\ kinds[10] = "frame"
      OBVIOUS
    <2> HIDE DEF blocks, kinds
    <2> QED BY <1>2, <2>1, <2>2
  <1>5. ASSUME NEW list \in Lists
        PROVE  /\ place[list] \in 1 .. 10 /\ Houses(kinds[place[list]], list)
               /\ \A k \in 1 .. 10 : Houses(kinds[k], list) => k = place[list]
               /\ kinds[place[list]] = "branches" <=> list \in {}
    BY DEF Lists, ShapeOf, Houses, Branching
  <1>6. place["inputs"] < place["outputs"]
    OBVIOUS
  <1> HIDE DEF blocks, kinds, place
  <1>7. IsLayout(blocks, kinds, place, {}, document)
    BY <1>3, <1>4, <1>5, <1>6, BlocksAreLayout
  <1> QED BY <1>1, <1>7

LEMMA HandoffLayout ==
    ASSUME NEW document, IsDraft(document)
    PROVE  \E blocks, kinds, place :
              /\ IsLayout(blocks, kinds, place, {}, document)
              /\ Handoff(document) = FlattenSeq(blocks)
  <1> DEFINE b1 == <<Line("title", document.title)>>
             b2 == Subject(document)
             b3 == Evidence(document.confidence)
             b4 == Section("tools", ToolLines(document.tools))
             b5 == Section("inputs", ArtifactLines(document.inputs))
             b6 == Section("outputs", ArtifactLines(document.outputs))
             b7 == Section("steps", HandoffSteps(document.steps))
             b8 == Section("decisions", DecisionLines(document.decision_points))
             b9 == Section("variations", VariationLines(document.variations))
             b10 == ProvenanceLines(document.provenance)
             blocks == <<b1, b2, b3, b4, b5, b6, b7, b8, b9, b10>>
             kinds == <<"frame", "frame", "frame", "tools", "inputs", "outputs", "steps",
                        "decision_points", "variations", "frame">>
             place == [inputs |-> 5, outputs |-> 6, tools |-> 4, steps |-> 7,
                       decision_points |-> 8, variations |-> 9]
  <1>1. Handoff(document) = FlattenSeq(blocks)
    BY Zenon DEF Handoff
  <1>2. /\ IsBlock(b1, "frame", document)
        /\ IsBlock(b2, "frame", document)
        /\ IsBlock(b3, "frame", document)
        /\ IsBlock(b4, "tools", document)
        /\ IsBlock(b5, "inputs", document)
        /\ IsBlock(b6, "outputs", document)
        /\ IsBlock(b7, "steps", document)
        /\ IsBlock(b8, "decision_points", document)
        /\ IsBlock(b9, "variations", document)
        /\ IsBlock(b10, "frame", document)
    BY FrameBlocks, ListBlocks, Zenon
  <1> HIDE DEF b1, b2, b3, b4, b5, b6, b7, b8, b9, b10
  <1>3. IsList(blocks) /\ DOMAIN blocks = 1 .. 10
    <2>1. blocks = [k \in 1 .. 10 |-> blocks[k]]
      OBVIOUS
    <2> HIDE DEF blocks
    <2> QED BY <2>1, IsListOf
  <1>4. \A k \in 1 .. 10 : IsBlock(blocks[k], kinds[k], document)
    <2>1. \A k \in 1 .. 10 : k = 1 \/ k = 2 \/ k = 3 \/ k = 4 \/ k = 5 \/ k = 6 \/ k = 7 \/ k = 8 \/ k = 9 \/ k = 10
      OBVIOUS
    <2>2. /\ blocks[1] = b1 /\ kinds[1] = "frame"
          /\ blocks[2] = b2 /\ kinds[2] = "frame"
          /\ blocks[3] = b3 /\ kinds[3] = "frame"
          /\ blocks[4] = b4 /\ kinds[4] = "tools"
          /\ blocks[5] = b5 /\ kinds[5] = "inputs"
          /\ blocks[6] = b6 /\ kinds[6] = "outputs"
          /\ blocks[7] = b7 /\ kinds[7] = "steps"
          /\ blocks[8] = b8 /\ kinds[8] = "decision_points"
          /\ blocks[9] = b9 /\ kinds[9] = "variations"
          /\ blocks[10] = b10 /\ kinds[10] = "frame"
      OBVIOUS
    <2> HIDE DEF blocks, kinds
    <2> QED BY <1>2, <2>1, <2>2
  <1>5. ASSUME NEW list \in Lists
        PROVE  /\ place[list] \in 1 .. 10 /\ Houses(kinds[place[list]], list)
               /\ \A k \in 1 .. 10 : Houses(kinds[k], list) => k = place[list]
               /\ kinds[place[list]] = "branches" <=> list \in {}
    BY DEF Lists, ShapeOf, Houses, Branching
  <1>6. place["inputs"] < place["outputs"]
    OBVIOUS
  <1> HIDE DEF blocks, kinds, place
  <1>7. IsLayout(blocks, kinds, place, {}, document)
    BY <1>3, <1>4, <1>5, <1>6, BlocksAreLayout
  <1> QED BY <1>1, <1>7

LEMMA OnboardingLayout ==
    ASSUME NEW document, IsDraft(document)
    PROVE  \E blocks, kinds, place :
              /\ IsLayout(blocks, kinds, place, Branching, document)
              /\ Onboarding(document) = FlattenSeq(blocks)
  <1> DEFINE b1 == <<Line("title", document.title)>>
             b2 == Subject(document)
             b3 == Evidence(document.confidence)
             b4 == Section("inputs", ArtifactLines(document.inputs))
             b5 == Section("tools", ToolLines(document.tools))
             b6 == Section("steps", GuidedSteps(document.steps))
             b7 == Branches(document)
             b8 == Section("outputs", CheckLines(document.outputs))
             b9 == ProvenanceLines(document.provenance)
             blocks == <<b1, b2, b3, b4, b5, b6, b7, b8, b9>>
             kinds == <<"frame", "frame", "frame", "inputs", "tools", "steps", "branches",
                        "outputs", "frame">>
             place == [inputs |-> 4, outputs |-> 8, tools |-> 5, steps |-> 6,
                       decision_points |-> 7, variations |-> 7]
  <1>1. Onboarding(document) = FlattenSeq(blocks)
    BY Zenon DEF Onboarding
  <1>2. /\ IsBlock(b1, "frame", document)
        /\ IsBlock(b2, "frame", document)
        /\ IsBlock(b3, "frame", document)
        /\ IsBlock(b4, "inputs", document)
        /\ IsBlock(b5, "tools", document)
        /\ IsBlock(b6, "steps", document)
        /\ IsBlock(b7, "branches", document)
        /\ IsBlock(b8, "outputs", document)
        /\ IsBlock(b9, "frame", document)
    BY FrameBlocks, ListBlocks, BranchesBlock, Zenon
  <1> HIDE DEF b1, b2, b3, b4, b5, b6, b7, b8, b9
  <1>3. IsList(blocks) /\ DOMAIN blocks = 1 .. 9
    <2>1. blocks = [k \in 1 .. 9 |-> blocks[k]]
      OBVIOUS
    <2> HIDE DEF blocks
    <2> QED BY <2>1, IsListOf
  <1>4. \A k \in 1 .. 9 : IsBlock(blocks[k], kinds[k], document)
    <2>1. \A k \in 1 .. 9 : k = 1 \/ k = 2 \/ k = 3 \/ k = 4 \/ k = 5 \/ k = 6 \/ k = 7 \/ k = 8 \/ k = 9
      OBVIOUS
    <2>2. /\ blocks[1] = b1 /\ kinds[1] = "frame"
          /\ blocks[2] = b2 /\ kinds[2] = "frame"
          /\ blocks[3] = b3 /\ kinds[3] = "frame"
          /\ blocks[4] = b4 /\ kinds[4] = "inputs"
          /\ blocks[5] = b5 /\ kinds[5] = "tools"
          /\ blocks[6] = b6 /\ kinds[6] = "steps"
          /\ blocks[7] = b7 /\ kinds[7] = "branches"
          /\ blocks[8] = b8 /\ kinds[8] = "outputs"
          /\ blocks[9] = b9 /\ kinds[9] = "frame"
      OBVIOUS
    <2> HIDE DEF blocks, kinds
    <2> QED BY <1>2, <2>1, <2>2
  <1>5. ASSUME NEW list \in Lists
        PROVE  /\ place[list] \in 1 .. 9 /\ Houses(kinds[place[list]], list)
               /\ \A k \in 1 .. 9 : Houses(kinds[k], list) => k = place[list]
               /\ kinds[place[list]] = "branches" <=> list \in Branching
    BY DEF Lists, ShapeOf, Houses, Branching
  <1>6. place["inputs"] < place["outputs"]
    OBVIOUS
  <1> HIDE DEF blocks, kinds, place
  <1>7. IsLayout(blocks, kinds, place, Branching, document)
    BY <1>3, <1>4, <1>5, <1>6, BlocksAreLayout
  <1> QED BY <1>1, <1>7

LEMMA SopLayout ==
    ASSUME NEW document, IsDraft(document)
    PROVE  \E blocks, kinds, place :
              /\ IsLayout(blocks, kinds, place, {}, document)
              /\ Sop(document) = FlattenSeq(blocks)
  <1> DEFINE b1 == <<Line("title", document.title)>>
             b2 == Subject(document)
             b3 == Evidence(document.confidence)
             b4 == Section("inputs", ArtifactLines(document.inputs))
             b5 == Section("tools", ToolRows(document.tools))
             b6 == Section("steps", GuidedSteps(document.steps))
             b7 == Section("decisions", DecisionRows(document.decision_points))
             b8 == Section("variations", VariationLines(document.variations))
             b9 == Section("outputs", ArtifactLines(document.outputs))
             b10 == ProvenanceLines(document.provenance)
             blocks == <<b1, b2, b3, b4, b5, b6, b7, b8, b9, b10>>
             kinds == <<"frame", "frame", "frame", "inputs", "tools", "steps",
                        "decision_points", "variations", "outputs", "frame">>
             place == [inputs |-> 4, outputs |-> 9, tools |-> 5, steps |-> 6,
                       decision_points |-> 7, variations |-> 8]
  <1>1. Sop(document) = FlattenSeq(blocks)
    BY Zenon DEF Sop
  <1>2. /\ IsBlock(b1, "frame", document)
        /\ IsBlock(b2, "frame", document)
        /\ IsBlock(b3, "frame", document)
        /\ IsBlock(b4, "inputs", document)
        /\ IsBlock(b5, "tools", document)
        /\ IsBlock(b6, "steps", document)
        /\ IsBlock(b7, "decision_points", document)
        /\ IsBlock(b8, "variations", document)
        /\ IsBlock(b9, "outputs", document)
        /\ IsBlock(b10, "frame", document)
    BY FrameBlocks, ListBlocks, Zenon
  <1> HIDE DEF b1, b2, b3, b4, b5, b6, b7, b8, b9, b10
  <1>3. IsList(blocks) /\ DOMAIN blocks = 1 .. 10
    <2>1. blocks = [k \in 1 .. 10 |-> blocks[k]]
      OBVIOUS
    <2> HIDE DEF blocks
    <2> QED BY <2>1, IsListOf
  <1>4. \A k \in 1 .. 10 : IsBlock(blocks[k], kinds[k], document)
    <2>1. \A k \in 1 .. 10 : k = 1 \/ k = 2 \/ k = 3 \/ k = 4 \/ k = 5 \/ k = 6 \/ k = 7 \/ k = 8 \/ k = 9 \/ k = 10
      OBVIOUS
    <2>2. /\ blocks[1] = b1 /\ kinds[1] = "frame"
          /\ blocks[2] = b2 /\ kinds[2] = "frame"
          /\ blocks[3] = b3 /\ kinds[3] = "frame"
          /\ blocks[4] = b4 /\ kinds[4] = "inputs"
          /\ blocks[5] = b5 /\ kinds[5] = "tools"
          /\ blocks[6] = b6 /\ kinds[6] = "steps"
          /\ blocks[7] = b7 /\ kinds[7] = "decision_points"
          /\ blocks[8] = b8 /\ kinds[8] = "variations"
          /\ blocks[9] = b9 /\ kinds[9] = "outputs"
          /\ blocks[10] = b10 /\ kinds[10] = "frame"
      OBVIOUS
    <2> HIDE DEF blocks, kinds
    <2> QED BY <1>2, <2>1, <2>2
  <1>5. ASSUME NEW list \in Lists
        PROVE  /\ place[list] \in 1 .. 10 /\ Houses(kinds[place[list]], list)
               /\ \A k \in 1 .. 10 : Houses(kinds[k], list) => k = place[list]
               /\ kinds[place[list]] = "branches" <=> list \in {}
    BY DEF Lists, ShapeOf, Houses, Branching
  <1>6. place["inputs"] < place["outputs"]
    OBVIOUS
  <1> HIDE DEF blocks, kinds, place
  <1>7. IsLayout(blocks, kinds, place, {}, document)
    BY <1>3, <1>4, <1>5, <1>6, BlocksAreLayout
  <1> QED BY <1>1, <1>7

LEMMA RenderingTells ==
    ASSUME NEW document, IsDraft(document), NEW variant \in Variants
    PROVE  ShownOrMissing(variant, document)
  <1>1. \E blocks, kinds, place :
           /\ IsLayout(blocks, kinds, place, Together(variant), document)
           /\ Render(variant, document) = FlattenSeq(blocks)
    <2>1. CASE variant = "automation"
      <3>1. Render(variant, document) = Automation(document) /\ Together(variant) = {}
        BY <2>1 DEF Render, Together
      <3> QED BY <3>1, AutomationLayout
    <2>2. CASE variant = "handoff"
      <3>1. Render(variant, document) = Handoff(document) /\ Together(variant) = {}
        BY <2>2 DEF Render, Together
      <3> QED BY <3>1, HandoffLayout
    <2>3. CASE variant = "onboarding"
      <3>1. Render(variant, document) = Onboarding(document) /\ Together(variant) = Branching
        BY <2>3 DEF Render, Together
      <3> QED BY <3>1, OnboardingLayout
    <2>4. CASE variant = "sop"
      <3>1. Render(variant, document) = Sop(document) /\ Together(variant) = {}
        BY <2>4 DEF Render, Together
      <3> QED BY <3>1, SopLayout
    <2> QED BY <2>1, <2>2, <2>3, <2>4 DEF Variants
  <1> QED BY <1>1, LayoutTells

(* An export of any document that can be restored tells every list in its  *)
(* order, and says that none was captured exactly where the list is empty, *)
(* to each of the four audiences; of decisions and variations the guide    *)
(* for onboarding says so only where both are (export/).                   *)
THEOREM ExportsHideNothingAlways == Spec => []ExportsHideNothing
  <1>1. RowsInv => ExportsHideNothing
    <2> SUFFICES ASSUME RowsInv, NEW document \in Exportable, NEW variant \in Variants
                 PROVE  ShownOrMissing(variant, document)
      BY DEF ExportsHideNothing
    <2>1. PICK id \in DOMAIN workflows : document = FromRecord(workflows[id])
      BY DEF Exportable
    <2>2. document # Invalid
      BY DEF Exportable
    <2>3. IsDraft(document)
      BY <2>1, <2>2, SequenceReads DEF RowsInv, RowInv, FromRecord
    <2> QED BY <2>3, RenderingTells
  <1> QED BY <1>1, RowsInvariant, PTL
=============================================================================
