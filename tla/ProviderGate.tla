----------------------------- MODULE ProviderGate -----------------------------
(***************************************************************************)
(* One provider behind the shared gate: qaptr-provider (adapter.rs,        *)
(* capability.rs, normalize.rs) with the adapters of qaptr-provider-cli    *)
(* and qaptr-provider-openrouter.  An attempt detects the provider, proves *)
(* it, validates the model, asks for consent and sends each prepared       *)
(* payload.  Every probe reads a machine that changes between the probes:  *)
(* tools are installed, upgraded and removed, logins and keys come and go. *)
(***************************************************************************)
EXTENDS Integers, SequencesExt

CONSTANTS
  Claude, Codex, Jcode,   \* adapters that run an installed tool
  Endpoint,               \* adapters that read a key: OpenRouter and the like
  Capabilities,           \* what each adapter's descriptor reports
  Dir,                    \* the search paths are 1..Dir
  Kinds,                  \* what may lie at the tool's name in each of them
  Payloads,               \* batches of prepared payloads: has each an image?
  Replies,                \* what a provider may answer, see Verdict
  Hints,                  \* what ~/.codex/auth.json may hold
  MaxAttempts, MaxChanges,\* bounds: attempts, and changes of the machine
  NoPath

Cli == {Claude, Codex, Jcode}

ASSUME GateAssumption ==
  /\ Cli \cap Endpoint = {}
  /\ Capabilities \in [Cli \cup Endpoint -> SUBSET Nat]
  /\ Dir \in Nat \ {0}
  /\ DOMAIN Kinds = 1..Dir
  /\ NoPath \notin 1..Dir
  /\ MaxAttempts \in Nat /\ MaxChanges \in Nat

VARIABLES
  adapter,   \* the adapter the gate wraps
  machine,   \* the files, the tool's login, Codex's auth.json, the key
  changes,   \* number of changes of the machine so far
  attempts,  \* number of attempts so far
  att,       \* the attempt: where it stands and what it has learnt
  outcome,   \* how the last attempt ended
  request,   \* history: the last request sent, and what it rested on
  answer     \* history: the last reply, and what was taken of it

environment == <<adapter, machine, changes>>
history == <<request, answer>>
vars == <<environment, attempts, att, outcome, history>>

-----------------------------------------------------------------------------
(* capability.rs, in the order missing looks: Images is 1, the baseline    *)
(* 2..7; text_only asks for the baseline.                                  *)
Images == 1
TextOnly == 2..7

Missing(offered, required) == required \ offered

-----------------------------------------------------------------------------
(* discovery.rs.  A file is missing, denied (metadata cannot be read), a   *)
(* dir, plain (not executable), broken (it cannot be canonicalised) or the *)
(* version of an executable, none for one that prints no version.          *)
Executable == {"none", "old", "minimum"}
Candidate == Executable \cup {"broken"}

(* find takes the first executable and overlooks what it cannot inspect. *)
Hits(files) == {d \in 1..Dir : files[d] \in Candidate}
First(files) == CHOOSE d \in Hits(files) : \A e \in Hits(files) : d <= e

Find(files) ==
  IF Hits(files) = {} THEN [error |-> "not_installed", path |-> NoPath]
  ELSE IF files[First(files)] = "broken" THEN [error |-> "detection", path |-> NoPath]
  ELSE [error |-> "none", path |-> First(files)]

(* probe, the reading for the settings, remembers what it could not read. *)
Probe(files) ==
  IF Hits(files) # {}
  THEN IF files[First(files)] = "broken" THEN [status |-> "unavailable", path |-> NoPath]
       ELSE [status |-> "detected", path |-> First(files)]
  ELSE IF \E d \in 1..Dir : files[d] = "denied" THEN [status |-> "unavailable", path |-> NoPath]
  ELSE [status |-> "not_installed", path |-> NoPath]

-----------------------------------------------------------------------------
(* normalize.rs and the two parsers.  A reply is a body, or how the        *)
(* request failed.  A field holds text, is blank or is absent; confidence  *)
(* is in percent, Huge beyond what an f32 holds.                           *)
Huge == 1000000

(* The envelopes each adapter looks into: response.rs walks known keys,    *)
(* arrays and JSON lines, parse_response the first choice's content.       *)
Envelopes == IF adapter \in Cli THEN {"direct", "event", "lines"} ELSE {"direct", "choices"}

TextPresent(object) == object.a # "absent" /\ object.b # "absent"
TextGiven(object) == object.a = "text" /\ object.b = "text"

(* raw_response: one observation that does not fit rejects the reply. *)
Parses(reply) ==
  /\ reply.form \in Envelopes
  /\ \A o \in Range(reply.observations) :
       TextPresent(o) /\ (adapter \in Cli => o.confidence < Huge)
  /\ \A w \in reply.workflow : TextPresent(w)

WellFormed(o) == TextGiven(o) /\ o.confidence \in 0..100

(* Plausible bug: the confidence is left to the schema sent along. *)
NormalizesText(reply) ==
  /\ \A o \in Range(reply.observations) : TextGiven(o)
  /\ \A w \in reply.workflow : TextGiven(w)

(* normalize_response *)
Normalizes(reply) ==
  /\ \A o \in Range(reply.observations) : WellFormed(o)
  /\ \A w \in reply.workflow : TextGiven(w)

(* How a reply ends a call: ok, or the error of the taxonomy.  What a tool *)
(* printed and cannot be parsed is an Invocation failure, what the         *)
(* endpoint sent and cannot be parsed is MalformedOutput.                  *)
Verdict(reply) ==
  IF reply.form \in {"network", "rate_limited", "timed_out", "invocation"} THEN reply.form
  ELSE IF ~ Parses(reply) THEN IF adapter \in Cli THEN "invocation" ELSE "malformed_output"
  ELSE IF ~ Normalizes(reply) THEN "malformed_output"
  ELSE "ok"

-----------------------------------------------------------------------------
(* The attempt *)

NoAttempt == [at |-> "idle", path |-> NoPath, version |-> "", said |-> "", hinted |-> FALSE,
              probed |-> {}, asOf |-> 0, batch |-> <<>>, sent |-> 0]
NoRequest == [path |-> NoPath, version |-> "", said |-> "", hinted |-> FALSE, probed |-> {},
              image |-> FALSE, untouched |-> FALSE, file |-> "missing", signedIn |-> FALSE]
NoAnswer == [form |-> "none", observations |-> <<>>, workflow |-> {}, taken |-> <<>>]

At(where) == att.at = where
Goto(where) == att' = [att EXCEPT !.at = where] /\ UNCHANGED outcome
Ended(how) == outcome' = how /\ att' = NoAttempt

(* run_with_..._resolved_model with a provider and prepared payloads. *)
Start ==
  /\ At("idle") /\ attempts < MaxAttempts
  /\ \E batch \in Payloads : att' = [NoAttempt EXCEPT !.at = "detect", !.batch = batch]
  /\ attempts' = attempts + 1
  /\ outcome' = "running"
  /\ request' = NoRequest /\ answer' = NoAnswer
  /\ UNCHANGED environment

(* OpenRouterAdapter::detect only reads the key. *)
KeyError(failure) ==
  IF machine.key \in {"partial", "failing"} THEN failure ELSE "not_authenticated"

DetectEndpoint ==
  /\ At("detect") /\ adapter \in Endpoint
  /\ IF machine.key = "key" THEN Goto("verify") ELSE Ended(KeyError("detection"))
  /\ UNCHANGED <<environment, attempts, history>>

(* The tools: find, then --version, then the status command. *)
DetectFind ==
  /\ At("detect") /\ adapter \in Cli
  /\ LET found == Find(machine.files)
     IN IF found.error # "none" THEN Ended(found.error)
        ELSE att' = [att EXCEPT !.at = "version", !.path = found.path] /\ UNCHANGED outcome
  /\ UNCHANGED <<environment, attempts, history>>

(* Plausible bug: whatever cannot be run is reported as not installed. *)
RunErrorBlurred(file) == IF file \in Executable THEN {"timed_out", "invocation"} ELSE {"not_installed"}

(* CliRuntime::run: the path is looked at again; a tool that is gone is    *)
(* NotInstalled, one that cannot be inspected, read or executed an         *)
(* Invocation failure, and any run may time out or fail.                   *)
RunError(file) ==
  CASE file \in {"missing", "dir"} -> {"not_installed"}
    [] file \in {"denied", "plain"} -> {"invocation"}
    [] OTHER -> {"timed_out", "invocation"}
Runs == machine.files[att.path] \in Candidate

ToolFails ==
  /\ At("version") \/ At("status") \/ (At("answer") /\ adapter \in Cli)
  /\ At("status") => machine.files[att.path] # "plain"
  /\ \E why \in RunError(machine.files[att.path]) : Ended(why)
  /\ UNCHANGED <<environment, attempts, history>>

DetectVersion ==
  /\ At("version") /\ Runs
  /\ IF machine.files[att.path] \notin {"old", "minimum"} THEN Ended("version_unavailable")
     ELSE /\ att' = [att EXCEPT !.at = "status", !.version = machine.files[att.path],
                                !.probed = @ \cup {<<att.path, "version">>}, !.asOf = changes]
          /\ UNCHANGED outcome
  /\ UNCHANGED <<environment, attempts, history>>

(* What the status command printed: in, out, an API key login, or nothing. *)
(* Its exit status does not matter, a file that cannot be executed printed *)
(* nothing.  auth.json counts for Codex alone: when the exit status is not *)
(* zero, only if nothing was printed.                                      *)
Said == IF Runs THEN machine.login ELSE "silent"

UsableHint(h) == h.chatgpt /\ ~ h.apiKey /\ h.tokens

Hint == /\ adapter = Codex
        /\ UsableHint(machine.hint)
        /\ Said # "in"
        /\ (Runs /\ machine.zero) \/ Said = "silent"

SignedIn == Said = "in" \/ Hint

(* Claude's status must be its JSON object. *)
DetectStatus ==
  /\ At("status")
  /\ Runs \/ machine.files[att.path] = "plain"
  /\ IF adapter = Claude /\ Said \notin {"in", "out"} THEN Ended("detection")
     ELSE IF ~ SignedIn THEN Ended("not_authenticated")
     ELSE /\ att' = [att EXCEPT !.at = "verify", !.said = Said, !.hinted = Hint,
                                !.probed = @ \cup {<<att.path, "status">>}]
          /\ UNCHANGED outcome
  /\ UNCHANGED <<environment, attempts, history>>

(* detect_and_verify: the minimum version, then the baseline capabilities. *)
Verify ==
  /\ At("verify")
  /\ IF att.version = "old" THEN Ended("too_old")
     ELSE IF Missing(Capabilities[adapter], TextOnly) # {} THEN Ended("capability")
     ELSE Goto("consent")
  /\ UNCHANGED <<environment, attempts, history>>

(* revalidate_model: the trait accepts every model, an adapter with a      *)
(* catalog may refuse one.                                                 *)
ModelRefused ==
  /\ At("consent") /\ adapter \in Endpoint
  /\ Ended("model_unavailable")
  /\ UNCHANGED <<environment, attempts, history>>

Consent ==
  /\ At("consent")
  /\ Goto("invoke")
  /\ UNCHANGED <<environment, attempts, history>>

Decline ==
  /\ At("consent")
  /\ Ended("declined")
  /\ UNCHANGED <<environment, attempts, history>>

-----------------------------------------------------------------------------
(* ProviderGate::invoke, once per payload *)

Image == att.batch[att.sent + 1]

(* What is run, what it rested on, and what the machine would answer now.  *)
Requested(path, image) ==
  [path |-> path, version |-> att.version, said |-> att.said, hinted |-> att.hinted,
   probed |-> att.probed, image |-> image, untouched |-> att.asOf = changes,
   file |-> IF path \in 1..Dir THEN machine.files[path] ELSE "missing",
   signedIn |-> adapter \in Cli /\ SignedIn]

(* Plausible bug: the tool is looked up again for every request. *)
InvokeFindsAgain ==
  /\ At("invoke")
  /\ ~ (Image /\ Images \notin Capabilities[adapter])
  /\ adapter \in Endpoint => machine.key = "key"
  /\ att' = [att EXCEPT !.at = "answer", !.sent = @ + 1]
  /\ request' = Requested(IF adapter \in Cli THEN Find(machine.files).path ELSE NoPath, Image)
  /\ UNCHANGED <<environment, attempts, outcome, answer>>

(* The proof's path is run; the endpoint's key is read once more. *)
Invoke ==
  /\ At("invoke")
  /\ ~ (Image /\ Images \notin Capabilities[adapter])
  /\ adapter \in Endpoint => machine.key = "key"
  /\ att' = [att EXCEPT !.at = "answer", !.sent = @ + 1]
  /\ request' = Requested(att.path, Image)
  /\ UNCHANGED <<environment, attempts, outcome, answer>>

InvokeRefused ==
  /\ At("invoke")
  /\ IF Image /\ Images \notin Capabilities[adapter] THEN Ended("capability")
     ELSE /\ adapter \in Endpoint /\ machine.key # "key"
          /\ Ended(KeyError("invocation"))
  /\ UNCHANGED <<environment, attempts, history>>

(* Plausible bug: a rate-limited request is sent again at once. *)
AnswerRetries ==
  /\ At("answer")
  /\ adapter \in Cli => Runs
  /\ \E reply \in Replies :
       /\ answer' = [form |-> reply.form, observations |-> reply.observations, workflow |-> reply.workflow,
                     taken |-> IF Verdict(reply) = "ok" THEN reply.observations ELSE <<>>]
       /\ CASE Verdict(reply) = "rate_limited" ->
                 att' = [att EXCEPT !.at = "invoke", !.sent = @ - 1] /\ UNCHANGED outcome
            [] Verdict(reply) \notin {"ok", "rate_limited"} -> Ended(Verdict(reply))
            [] Verdict(reply) = "ok" /\ att.sent < Len(att.batch) -> Goto("invoke")
            [] OTHER -> Ended("completed")
  /\ UNCHANGED <<environment, attempts, request>>

(* The first error ends the attempt; without one the last answer does. *)
Answer ==
  /\ At("answer")
  /\ adapter \in Cli => Runs
  /\ \E reply \in Replies :
       /\ answer' = [form |-> reply.form, observations |-> reply.observations, workflow |-> reply.workflow,
                     taken |-> IF Verdict(reply) = "ok" THEN reply.observations ELSE <<>>]
       /\ CASE Verdict(reply) # "ok" -> Ended(Verdict(reply))
            [] Verdict(reply) = "ok" /\ att.sent < Len(att.batch) -> Goto("invoke")
            [] OTHER -> Ended("completed")
  /\ UNCHANGED <<environment, attempts, request>>

-----------------------------------------------------------------------------
(* The machine between any two steps *)

Parts(a) ==
  [files |-> IF a \in Cli THEN {f \in [1..Dir -> UNION Range(Kinds)] : \A d \in 1..Dir : f[d] \in Kinds[d]}
             ELSE {[d \in 1..Dir |-> "missing"]},
   login |-> IF a \in Cli THEN {"in", "out", "apikey", "silent"} ELSE {"out"},
   zero |-> IF a = Codex THEN BOOLEAN ELSE {TRUE},
   hint |-> IF a = Codex THEN Hints ELSE {CHOOSE h \in Hints : ~ UsableHint(h)},
   key |-> IF a \in Cli THEN {"absent"} ELSE {"key", "absent", "blank", "partial", "failing"}]

Machine(a) ==
  [files : Parts(a).files, login : Parts(a).login, zero : Parts(a).zero,
   hint : Parts(a).hint, key : Parts(a).key]

(* One thing changes at a time: a tool is installed, upgraded or removed,  *)
(* the user signs in or out, a key is stored, withdrawn or unreadable.     *)
MachineChanges ==
  /\ changes < MaxChanges
  /\ changes' = changes + 1
  /\ \E part \in DOMAIN machine : \E value \in Parts(adapter)[part] \ {machine[part]} :
       /\ part = "files" => Cardinality({d \in 1..Dir : value[d] # machine.files[d]}) = 1
       /\ machine' = [machine EXCEPT ![part] = value]
  /\ UNCHANGED <<adapter, attempts, att, outcome, history>>

Init ==
  /\ adapter \in Cli \cup Endpoint
  /\ machine \in Machine(adapter)
  /\ changes = 0 /\ attempts = 0
  /\ att = NoAttempt /\ outcome = "none"
  /\ request = NoRequest /\ answer = NoAnswer

Detect == DetectEndpoint \/ DetectFind \/ DetectVersion \/ DetectStatus \/ ToolFails \/ Verify
Send == Invoke \/ InvokeRefused \/ Answer
User == Consent \/ Decline

Next == Start \/ Detect \/ ModelRefused \/ User \/ Send \/ MachineChanges

Spec == Init /\ [][Next]_vars

(* The runner runs on; nobody makes the user answer or the machine change. *)
FairSpec == Spec /\ WF_vars(Detect \/ Send)

-----------------------------------------------------------------------------
(* Properties *)

(* Whatever happens to the machine between detection and the last request  *)
(* of a batch, the path that is run is the one that printed a supported    *)
(* version and a login of an account (or, for Codex alone, was given a     *)
(* ChatGPT login on record) in the same attempt, and a masked image goes   *)
(* to no adapter without the image capability (adapter.rs:491-532).  That  *)
(* is still true of the file and of the login if nothing changed since the *)
(* version was printed; a file replaced at that path, or a login withdrawn *)
(* afterwards, is not looked at again.                                     *)
InvokedAsProven ==
  request # NoRequest =>
    /\ request.image => Images \in Capabilities[adapter]
    /\ adapter \in Cli =>
         /\ {<<request.path, "version">>, <<request.path, "status">>} \subseteq request.probed
         /\ \A p \in request.probed : p[1] = request.path
         /\ request.version = "minimum"
         /\ request.said = "in" \/ (adapter = Codex /\ request.hinted)
         /\ request.untouched => request.file = "minimum" /\ request.signedIn

(* A reply is taken whole or not at all: with every observation it has and *)
(* none that is blank or has a confidence outside 0..1.                    *)
TakenWholeOrNotAtAll ==
  /\ answer.taken # <<>> => /\ answer.taken = answer.observations
                            /\ \A o \in Range(answer.taken) : WellFormed(o)
  /\ outcome = "completed" /\ answer.observations # <<>> => answer.taken # <<>>

(* An error of the taxonomy names what is wrong at that instant: "not      *)
(* installed" a tool that is nowhere or has just disappeared, "not         *)
(* authenticated" a login or key that is not there, "too old" the version  *)
(* the tool printed in this attempt.  And detection never contradicts what *)
(* the settings show of the same tool: it finds none only if they detect  *)
(* none, and it fails only over one they call unavailable.                 *)
FailureNamesItsCause ==
  [][ att.at # "idle" /\ outcome' # outcome =>
        /\ outcome' = "not_installed" =>
             IF At("detect") THEN Probe(machine.files).status # "detected"
             ELSE machine.files[att.path] \in {"missing", "dir"}
        /\ outcome' = "detection" /\ At("detect") /\ adapter \in Cli =>
             Probe(machine.files).status = "unavailable"
        /\ outcome' = "not_authenticated" =>
             IF adapter \in Cli THEN machine.login # "in" \/ machine.files[att.path] = "plain"
             ELSE machine.key \in {"absent", "blank"}
        /\ outcome' = "too_old" => att.version = "old" ]_vars

(* Every attempt ends, or waits for the user to consent. *)
AttemptSettles == (outcome = "running") ~> (outcome # "running" \/ At("consent"))

=============================================================================
