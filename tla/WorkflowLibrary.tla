--------------------------- MODULE WorkflowLibrary ---------------------------
(***************************************************************************)
(* The durable history of qaptr-store, the workflow documents kept in it,  *)
(* and the Markdown files exported from them.                              *)
(*                                                                         *)
(* Several instances of the review app may open the database; every action *)
(* on it is one SQLite transaction, or one statement outside of any.  A    *)
(* database may have been left by an earlier or by a newer release, its    *)
(* rows may be of a release that had no canonical documents, and another   *)
(* program may have rewritten any column, the one of the canonical         *)
(* document included.  One export at a time writes the destination through *)
(* the vault's atomic_write.                                               *)
(***************************************************************************)
EXTENDS MarkdownExport, FiniteSets

CONSTANTS
    Process,       \* instances of the review app
    Session,       \* analysis session identifiers
    Capture,       \* captures with a row in the table captures
    Candidates,    \* workflow candidates a provider may answer with: [title, goal]
    Findings,      \* observations it may answer with: [title, summary, confidence]
    Supplied,      \* documents the app builds by hand, before Build looks at them
    OlderVersion,  \* the schema versions a database may be found with
    Saved,         \* the variants that are saved to a file
    MaxWrites      \* bound: writing transactions of one behaviour

ASSUME LibraryAssumption ==
    /\ OlderVersion \subseteq Nat /\ None \notin Session
    /\ \A draft \in Supplied : IsDraft(draft)
    /\ \A finding \in Findings : finding.confidence \in 0 .. Full

VARIABLES
    version,       \* PRAGMA user_version
    tables,        \* the tables of the database
    process,       \* process[p] = [at, current], Store::open of p and the open store
    captures, observations, workflows, notices,    \* the rows
    written,       \* history: the document a row's column "sequence" was last given
    writes,        \* bounded counter of writing transactions
    job,           \* the export under way
    temp, file,    \* "<destination>.tmp" and the destination
    reply          \* what the last export answered

schema == <<version, tables, process>>
rows == <<captures, observations, workflows, notices, written, writes>>
export == <<job, temp, file, reply>>
vars == <<schema, rows, export>>

-----------------------------------------------------------------------------
(* Migrations and opening.                                                 *)

Migrations == <<{"captures", "observations", "workflows"}, {"notices"}>>
Latest == Len(Migrations)
TablesOf(v) == UNION {Migrations[i] : i \in {j \in 1 .. Latest : j <= v}}

(* Bound: while an export is under way no store opens and nothing is       *)
(* written.  The job holds its rendering, so the two never meet.           *)
Quiet == job.at = "idle"

Closed == [at |-> "closed", current |-> 0]

(* migrations::apply reads the version once, before its loop.              *)
OpenStore(p) ==
    /\ Quiet /\ process[p].at = "closed"
    /\ version <= Latest
    /\ process' = [process EXCEPT ![p] = [at |-> "migrating", current |-> version]]
    /\ UNCHANGED <<version, tables, rows, export>>

(* One migration, its statements and the new version in one transaction:   *)
(* CREATE TABLE fails on a table that another instance has created since.  *)
MigrateIfNotExists(p) ==
    /\ process[p].at = "migrating" /\ process[p].current < Latest
    /\ LET next == process[p].current + 1
       IN  /\ tables' = tables \cup Migrations[next] /\ version' = next
           /\ process' = [process EXCEPT ![p].current = next]
    /\ UNCHANGED <<rows, export>>
Migrate(p) ==
    /\ process[p].at = "migrating" /\ process[p].current < Latest
    /\ LET next == process[p].current + 1
       IN  IF tables \cap Migrations[next] = {}
           THEN /\ tables' = tables \cup Migrations[next] /\ version' = next
                /\ process' = [process EXCEPT ![p].current = next]
           ELSE process' = [process EXCEPT ![p] = Closed] /\ UNCHANGED <<version, tables>>
    /\ UNCHANGED <<rows, export>>

(* schema::validate: exactly the tables of the allowlist.                  *)
Validate(p) ==
    /\ process[p].at = "migrating" /\ process[p].current = Latest
    /\ process' = [process EXCEPT ![p] =
          IF tables = TablesOf(Latest) THEN [@ EXCEPT !.at = "open"] ELSE Closed]
    /\ UNCHANGED <<version, tables, rows, export>>

-----------------------------------------------------------------------------
(* What may enter a text column: material.rs refuses the bytes of an image *)
(* at the start of a column, and looks for the start of one in every run   *)
(* of base64 letters of the column, across the blanks inside it.           *)

ImageMagic == {"GIF89a", "BM"}
KnownPrefixes == {<<"iVBORw0KGgo">>, <<"iVBO", "Rw0KGgo">>, <<"/9j/">>}
LongRun == "base64-run-of-128"
HasRun(text) ==
    \E i, j \in DOMAIN text : i <= j /\ SubSeq(text, i, j) \in KnownPrefixes
StartsAsImage(text) == text # <<>> /\ Head(text) \in ImageMagic
LooksLikeImage(text) ==
    HasRun(text) \/ \E i \in DOMAIN text : text[i] \in {"data:image/", LongRun}

(* The texts of a row, which are those of its document: the JSON columns   *)
(* hold each of them between quotes, and a quote ends a run.               *)
EvidenceTexts(part) ==
    {part.confidence.basis, part.provenance.session_id, part.provenance.note}
    \cup Range(part.provenance.observation_ids) \cup Range(part.provenance.capture_ids)
PartTexts(shape, part) ==
    {part[field] : field \in shape.texts \cup shape.options}
    \cup (UNION {Range(part[field]) : field \in shape.lists})
    \cup (UNION {{pair.condition, pair.outcome} :
                   pair \in UNION {Range(part[field]) : field \in shape.pairs}})
    \cup EvidenceTexts(part)
DocumentTexts(document) ==
    ({document.id, document.title, document.goal, document.context} \cup EvidenceTexts(document)
     \cup UNION {UNION {PartTexts(ShapeOf[list], part) : part \in Range(document[list])} :
                   list \in Lists}) \ {None}

(* A JSON column starts with a bracket, so what starts as an image is      *)
(* refused in the scalar columns alone.                                    *)
ScalarTexts(document) ==
    {document.id, document.title, document.goal, document.context,
     document.provenance.session_id} \ {None}
ObservationTexts(o) == {o.title, o.summary}
Accepted(columns, texts) ==
    /\ \A text \in columns : ~StartsAsImage(text)
    /\ \A text \in columns \cup texts : ~LooksLikeImage(text)

-----------------------------------------------------------------------------
(* Transactions.                                                           *)

(* INSERT, ON CONFLICT DO UPDATE.                                          *)
Put(table, id, row) == Merged([key \in {id} |-> row], table)

CanWrite == Quiet /\ (\E p \in Process : process[p].at = "open") /\ writes < MaxWrites
Wrote == writes' = writes + 1

PutCapture(c) ==
    /\ CanWrite /\ c \notin captures
    /\ captures' = captures \cup {c}
    /\ Wrote /\ UNCHANGED <<schema, observations, workflows, notices, written, export>>

(* REFERENCES captures(capture_id) ON DELETE SET NULL.                     *)
DeleteCaptures(gone) ==
    /\ CanWrite /\ gone \cap captures # {}
    /\ captures' = captures \ gone
    /\ observations' = [id \in DOMAIN observations |->
          IF observations[id].capture_id \in gone
          THEN [observations[id] EXCEPT !.capture_id = None] ELSE observations[id]]
    /\ Wrote /\ UNCHANGED <<schema, workflows, notices, written, export>>

ObservationOf(session, capture, finding) ==
    [id |-> <<"u17">> \o session \o capture \o <<"0">>, capture_id |-> capture,
     session_id |-> session, title |-> finding.title, summary |-> finding.summary,
     confidence |-> finding.confidence]

(* The commit of an analysis: the observation and the candidate drawn from *)
(* a capture, all or none.  The capture's row may be gone by now, which    *)
(* the foreign key refuses.                                                *)
CommitAnalysis(session, capture, finding, candidate) ==
    LET observation == ObservationOf(session, capture, finding)
        evidence == Confidence(finding.confidence, <<"inherited">>)
        document == FromCandidate(session, candidate, "0", evidence, capture)
    IN  /\ CanWrite
        /\ document # Invalid
        /\ LET record == ToRecord(document, writes)
           IN  IF capture \in captures
                  /\ Accepted(ObservationTexts(observation), {})
                  /\ Accepted(ScalarTexts(document), DocumentTexts(document))
               THEN /\ observations' = Put(observations, observation.id, observation)
                    /\ workflows' = Put(workflows, document.id, record)
                    /\ written' = Put(written, document.id, document)
               ELSE UNCHANGED <<observations, workflows, written>>
        /\ Wrote /\ UNCHANGED <<schema, captures, notices, export>>

(* put_workflow of a document built by hand or from one observation.       *)
Built == {Build(draft) : draft \in Supplied}
            \cup {FromObservation(observations[id]) : id \in DOMAIN observations}
PutWorkflow(document) ==
    /\ CanWrite
    /\ document # Invalid
    /\ LET record == ToRecord(document, writes)
       IN  IF record # Invalid /\ Accepted(ScalarTexts(document), DocumentTexts(document))
           THEN /\ workflows' = Put(workflows, document.id, record)
                /\ written' = Put(written, document.id, document)
           ELSE UNCHANGED <<workflows, written>>
    /\ Wrote /\ UNCHANGED <<schema, captures, observations, notices, export>>

(* A notice needs a positive count; a second one under its id replaces it. *)
PutNotice(count) ==
    /\ CanWrite /\ count > 0
    /\ notices' = {count}
    /\ Wrote /\ UNCHANGED <<schema, captures, observations, workflows, written, export>>

(* Another program rewrites a column of a row: a scalar one; or the        *)
(* document, by another draft or by the one there without its steps, its   *)
(* title or its confidence, in JSON that may have a field of its own; or   *)
(* the row is of a release before the canonical documents or after them.   *)
Rewritten(record) ==
    {[record EXCEPT !.title = <<"edited">>], [record EXCEPT !.goal = Empty],
     [record EXCEPT !.context = <<"edited">>], [record EXCEPT !.tools = Json("array", <<>>)],
     [record EXCEPT !.evidence_confidence = 0], [record EXCEPT !.created_at = 99],
     [record EXCEPT !.session_id = <<"edited">>]}
Redrafted(document) ==
    Supplied \cup {[document EXCEPT !.steps = <<>>], [document EXCEPT !.title = Empty],
                   [document EXCEPT !.confidence = Unknown]}
Encodings(document) ==
    {DocumentValue(document),
     Json("object", Merged(DocumentValue(document).value, [reviewed |-> Json("bool", TRUE)]))}
Undocumented(document) ==
    {Json("string", <<"open", "the", "report">>),
     Json("object", Merged([version |-> Json("number", Version + 1)],
                           DocumentValue(document).value))}
RewriteColumn(id) ==
    /\ Quiet /\ writes < MaxWrites
    /\ \/ /\ \E record \in Rewritten(workflows[id]) :
                workflows' = [workflows EXCEPT ![id] = record]
          /\ UNCHANGED written
       \/ \E draft \in Redrafted(written[id]) : \E json \in Encodings(draft) :
             /\ workflows' = [workflows EXCEPT ![id].sequence = json]
             /\ written' = [written EXCEPT ![id] = draft]
       \/ /\ \E json \in Undocumented(written[id]) :
                workflows' = [workflows EXCEPT ![id].sequence = json]
          /\ UNCHANGED written
    /\ Wrote /\ UNCHANGED <<schema, captures, observations, notices, export>>

-----------------------------------------------------------------------------
(* save_markdown_export and atomic_write.                                  *)

Absent == [lines |-> <<>>, whole |-> FALSE]
Whole(lines) == [lines |-> lines, whole |-> TRUE]
Partial(lines) == [lines |-> lines, whole |-> FALSE]
OldExport == Whole(<<Gap("old export")>>)
NoJob == [at |-> "idle", lines |-> <<>>, cancelled |-> FALSE, before |-> Absent]

Answer(answer) == job' = NoJob /\ reply' = answer
JobAt(at) == job.at = at
GoesTo(at) == job' = [job EXCEPT !.at = at] /\ UNCHANGED reply
StoreUntouched == UNCHANGED <<schema, rows>>

(* The document is rendered between the two looks at the flag.             *)
SaveExport(document, variant) ==
    /\ JobAt("idle")
    /\ job' = [at |-> "check", lines |-> Render(variant, document),
               cancelled |-> FALSE, before |-> file]
    /\ StoreUntouched /\ UNCHANGED <<temp, file, reply>>

CancelExport ==
    /\ job.at \notin {"idle"} /\ ~job.cancelled
    /\ job' = [job EXCEPT !.cancelled = TRUE]
    /\ StoreUntouched /\ UNCHANGED <<temp, file, reply>>

CheckCancelled ==
    /\ JobAt("check")
    /\ IF job.cancelled THEN Answer("cancelled") ELSE GoesTo("create")
    /\ StoreUntouched /\ UNCHANGED <<temp, file>>

(* create_new: a temporary file left by a crash is an error.               *)
CreateTemp ==
    /\ JobAt("create")
    /\ IF temp = Absent
       THEN temp' = Partial(job.lines) /\ GoesTo("write")
       ELSE UNCHANGED temp /\ GoesTo("cleanup")
    /\ StoreUntouched /\ UNCHANGED file

(* write_all and sync_all, or the disk is full.                            *)
WriteTempUnchecked ==
    /\ JobAt("write")
    /\ temp' \in {temp, Whole(job.lines)} /\ GoesTo("rename")
    /\ StoreUntouched /\ UNCHANGED file
WriteTemp ==
    /\ JobAt("write")
    /\ \/ temp' = Whole(job.lines) /\ GoesTo("rename")
       \/ UNCHANGED temp /\ GoesTo("cleanup")
    /\ StoreUntouched /\ UNCHANGED file

(* The rename replaces the destination, or the destination cannot be       *)
(* replaced.                                                               *)
RenameTemp ==
    /\ JobAt("rename")
    /\ \/ file' = temp /\ temp' = Absent /\ GoesTo("saved")
       \/ UNCHANGED <<file, temp>> /\ GoesTo("cleanup")
    /\ StoreUntouched
ReplySaved ==
    /\ JobAt("saved")
    /\ Answer("saved")
    /\ StoreUntouched /\ UNCHANGED <<temp, file>>

(* The failure of remove_file is dropped.                                  *)
CleanUp ==
    /\ JobAt("cleanup")
    /\ temp' \in {temp, Absent} /\ Answer("failed")
    /\ StoreUntouched /\ UNCHANGED file

-----------------------------------------------------------------------------
(* The process dies: the database keeps what was committed, the directory  *)
(* what was written.  The death of a process that is not opening changes   *)
(* nothing that the others see.                                            *)
Crash(p) ==
    /\ Quiet /\ process[p].at = "migrating"
    /\ process' = [process EXCEPT ![p] = Closed]
    /\ UNCHANGED <<version, tables, rows, export>>
CrashExport ==
    /\ ~JobAt("idle")
    /\ Answer("crashed")
    /\ StoreUntouched /\ UNCHANGED <<temp, file>>

Exportable ==
    {FromRecord(workflows[id]) : id \in DOMAIN workflows} \ {Invalid}

Init ==
    /\ version \in OlderVersion /\ tables = TablesOf(version)
    /\ process = [p \in Process |-> Closed]
    /\ captures \in IF version = 0 THEN {{}} ELSE SUBSET Capture
    /\ observations = <<>> /\ workflows = <<>> /\ notices = {}
    /\ written = <<>> /\ writes = 0
    /\ job = NoJob /\ temp = Absent /\ file \in {Absent, OldExport} /\ reply = "none"

Opening == \E p \in Process : OpenStore(p) \/ Migrate(p) \/ Validate(p) \/ Crash(p)
Writing ==
    \/ \E c \in Capture : PutCapture(c)
    \/ \E gone \in SUBSET Capture : DeleteCaptures(gone)
    \/ \E s \in Session, c \in Capture, f \in Findings, k \in Candidates :
          CommitAnalysis(s, c, f, k)
    \/ \E document \in Built : PutWorkflow(document)
    \/ \E count \in 0 .. 1 : PutNotice(count)
    \/ \E id \in DOMAIN workflows : RewriteColumn(id)
Exporting ==
    \/ \E document \in Exportable, variant \in Saved : SaveExport(document, variant)
    \/ CancelExport \/ CheckCancelled \/ CreateTemp \/ WriteTemp \/ RenameTemp \/ ReplySaved
    \/ CleanUp \/ CrashExport

Next == Opening \/ Writing \/ Exporting
Spec == Init /\ [][Next]_vars

-----------------------------------------------------------------------------
(* Properties.                                                             *)

(* The version of the database never runs ahead of its tables or falls     *)
(* behind them, however instances interleave their migrations and          *)
(* wherever one of them dies (migrations/mod.rs).                          *)
SchemaIsWhole == version <= Latest => tables = TablesOf(version)

(* A row restores to one document or to nothing, never to a mixture: to    *)
(* the whole document its column "sequence" was last given, by this code   *)
(* or by another program, down to the evidence of every part.  It restores *)
(* to nothing only where someone else has made the scalar columns and the  *)
(* document disagree, or put a document there that no builder would take   *)
(* or that has no session (WorkflowDocument::to_record and from_record).   *)
Restorable(document) == Build(document) # Invalid /\ document.provenance.session_id # None
RestoresWhatWasWritten ==
    \A id \in DOMAIN workflows :
        LET restored == FromRecord(workflows[id])
        IN  /\ restored \in {written[id], Invalid}
            /\ Restorable(written[id]) =>
                  (workflows[id] = ToRecord(written[id], workflows[id].created_at)
                      => restored = written[id])

(* What an export says of a list: its items in their order, or that none   *)
(* was captured, and that of no list that has items; the guide for         *)
(* onboarding alone says it of decisions and variations together, when     *)
(* there is neither, and is silent of one of the two where the other has   *)
(* items (export/, onboarding.rs).                                         *)
NameOf == [inputs |-> "name", outputs |-> "name", tools |-> "name", steps |-> "action",
           decision_points |-> "question", variations |-> "difference"]
LabelOf == [inputs |-> {"required", "optional"}, outputs |-> {"required", "optional"},
            tools |-> {"tool"}, steps |-> {"action"}, decision_points |-> {"question"},
            variations |-> {"difference"}]
GapOf == [inputs |-> "inputs", outputs |-> "outputs", tools |-> "tools", steps |-> "steps",
          decision_points |-> "decisions", variations |-> "variations"]
Told(lines, labels) ==
    FlattenSeq([i \in DOMAIN lines |->
                  IF lines[i].label \in labels THEN <<lines[i].text>> ELSE <<>>])
NamesIn(document, list) ==
    [i \in DOMAIN document[list] |-> SafeText(document[list][i][NameOf[list]])]
Branching == {"decision_points", "variations"}
Together(variant) == IF variant = "onboarding" THEN Branching ELSE {}
Untold(document, together, list) ==
    IF list \in together THEN \A other \in together : document[other] = <<>>
    ELSE document[list] = <<>>
ShownOrMissing(variant, document) ==
    LET lines == Render(variant, document)
        gaps == {lines[i].label : i \in {n \in DOMAIN lines : lines[n].text = NotCaptured}}
    IN  /\ \A list \in {"tools", "steps", "decision_points", "variations"} :
              Told(lines, LabelOf[list]) = NamesIn(document, list)
        /\ Told(lines, {"required", "optional"}) \in
              {NamesIn(document, "inputs") \o NamesIn(document, "outputs")}
        /\ \A list \in Lists : GapOf[list] \in gaps <=> Untold(document, Together(variant), list)
ExportsHideNothing ==
    \A document \in Exportable, variant \in Variants : ShownOrMissing(variant, document)

(* The destination only ever changes from one whole file to the whole of   *)
(* this rendering; the answer tells which of the two it holds, "saved" the *)
(* new one, "cancelled" or "failed" the one of before, also where an       *)
(* earlier export left its temporary file; and a crash leaves either       *)
(* (save.rs, fs.rs).                                                       *)
ReplyTellsTheFile ==
    [][ /\ file' # file => file' = Whole(job.lines)
        /\ job # NoJob /\ job' = NoJob =>
              /\ reply' \in {"cancelled", "failed"} => file' = job.before
              /\ reply' = "saved" => file' = Whole(job.lines) /\ temp' = Absent
              /\ reply' = "crashed" => file' \in {job.before, Whole(job.lines)} ]_vars

(* Not true of this code: an export never repeats the class of a sanitized *)
(* value (export/mod.rs); the tokens are those of SensitiveClass.          *)
RedactionTokens ==
    {"[REDACTED_EMAIL]", "[REDACTED_PHONE]", "[REDACTED_CREDENTIAL]", "[REDACTED_API_KEY]",
     "[REDACTED_PAYMENT_CARD]", "[REDACTED_NATIONAL_ID]", "[REDACTED_ADDRESS]",
     "[REDACTED_TOKEN]"}
ExportsNameNoClass ==
    \A n \in DOMAIN file.lines : \A i \in DOMAIN file.lines[n].text :
        file.lines[n].text[i] \notin RedactionTokens
=============================================================================
