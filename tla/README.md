# Qaptr in TLA+

Qaptr records what a person does on a Mac, keeps it encrypted, and on request has a
model provider draw observations and procedures from it. This directory is the
verification project of its code: TLA+ modules translated from the source, TLC
configurations that check them on small instances, and TLAPS proofs of the results
that matter most. File names such as `retention.rs` are those of the repository;
`PROJECT.json` gives the lines behind every definition.

- [1 The system](#1-the-system)
- [2 The modules](#2-the-modules)
- [3 The runs](#3-the-runs)
- [4 The proofs](#4-the-proofs)
- [5 What the code does differently from what it says](#5-what-the-code-does-differently-from-what-it-says)
- [6 What is not modelled](#6-what-is-not-modelled)
- [7 What is left](#7-what-is-left)

## 1 The system

Two processes share one data directory: the **capture helper**, which seals captures
into the vault through the FFI, and the **review app**, which lists, analyses and
erases them. Three durable stores survive a crash: the vault directory, the credential
store (Keychain) and the history store (SQLite). No transaction spans two of them.
The web site with its waitlist endpoint is a separate program.

```
 capture helper --FFI--> Vault (directory, .vault.lock) <---- Reaper <---- enforce_retention
                          |   ^                                              ^         |
                 Credentials  |open                                          |         v
                              +---------- ReviewSessionCoordinator ----------+      Store (SQLite)
                                            |                                          ^
                                            v                                          |
                         AnalysisRunner: privacy gate, consent, provider, commit ------+
                                                            |
                                  CliRuntime (child process) or OpenRouter client
```

### Inventory

| component | state | operations | what is hard | correct when |
|---|---|---|---|---|
| Vault (`qaptr-vault`) | bundle directories, public key files, advisory lock, private keys in the credential store | `seal`, `open`, `delete`, `destroy_generation`, `register_public_key`, `public_key`, listing | several processes; every call is many file operations; failure or crash between any two | calls are isolated, bundles appear whole, erased captures are unreadable for ever |
| Bundle manifest (`bundle.rs`) | none | format, parse | timestamps before the epoch, identifiers with line ends, files cut short | a manifest reads as what was sealed, a cut one is refused or only earlier |
| Retention (`retention.rs`, `reaper.rs`) | none of its own: vault, credential store, store, clock | `enforce_retention`, `reap` | cascade over two stores, clock that jumps, sealing meanwhile, resumption | only expired cohorts go, rows outlive the keys of their captures, what is due goes in the end |
| Review session (`session.rs`) | cancellation flag, progress | `start…`, `retry…`, `cancel` | cancellation from another thread, stale list of completed captures, retention in the middle | no capture sent twice, none stranded |
| Analysis runner (`analyze.rs`, `observation.rs`, `consent.rs`) | staged observations | `run_with_cancellation_and_resolved_model` | one step of several failing, the limit reached half way | consent before sending, all or nothing |
| CLI runtime (`runtime.rs`) | child, three threads, overflow flag, deadline | `CliRuntime::run` | races of exit, overflow, end of stream and deadline; a kill that fails; descendants holding pipes | only complete output is accepted, the tool ends, `run` returns once nobody else holds its pipes |
| CLI adapters, detection, version probe | none | `detect_and_verify`, `invoke` | files and logins that change between detection and use | the path that is run has printed a supported version and a login in the same attempt |
| Provider contract (`qaptr-provider`) | capability snapshot | detect, verify, revalidate, normalise | a provider that changes after it was verified | what is invoked was proven in the same attempt |
| OpenRouter client, catalog cache | one cached catalog | `refresh`, `invoke` | clock jumps, a changed credential, a failing refresh | a served catalog is fresh, and one found expired never comes back |
| Model policy (`model_policy.rs`) | none | resolution, freshness, readiness | precedence of override, preferred, fallbacks; a snapshot that ages | the first wanted model, never one that is not listed |
| Capture profile (`profile.rs`) | the detailed window and its persisted copy | start, end, state, restore | restart and clock set back | a window seen over does not come back while the helper runs |
| Privacy gate (`qaptr-privacy`) | none | recognise, sanitise, mask, prove coverage | rounding, order of the checks, overlapping findings | what leaves is covered or excluded |
| Exclusions (`exclusions.rs`) | list of rules | `reason`, sealing behind it | none | what is excluded is never sealed |
| History store (`qaptr-store`) | captures, observations, notices, documents, schema version | transactions, migrations | crash between migrations, foreign key set to NULL | a version is applied once and whole |
| Workflow document, exports | exported file, its temporary file | build, write, restore, render, `save_markdown_export` | what others did to a row, crash while saving | a row restores to one document as it was written or to nothing, an export is the old or the new file and hides nothing |
| FFI (`qaptr-ffi`) | last error of a thread | `qaptr_vault_seal`, `qaptr_vault_public_key`, … | arguments that fail together, an exclusion that must come before the seal | what is sealed has the manifest of its own capture |
| macOS adapters | Keychain items, login item | get, set, delete; `set_enabled` | partial outcome, unregister before register | the registered state is what is reported |
| Domain (`qaptr-domain`) | none | ids, units, clock, port outcomes | clock before the epoch | — |
| Waitlist (`web/`) | `rate_limit_bucket`, `waitlist` | `POST /api/waitlist` | read-modify-write over two database calls, window boundaries | the limit, and whoever is thanked is stored |
| Swift app, static site | views | — | — | — |

Interaction is by direct call inside a process; between the processes it is only by the
vault directory (serialised by `.vault.lock`) and the credential store. The one shared
variable between threads of the app that the modules depend on is the
`SessionCancellation` flag; inside `CliRuntime::run` it is `output_exceeded`. Several
instances of the app may also open the same SQLite database. Outside every process, users
install and remove tools, sign in and out, change keys, login items and the clock: where a
module reads such a thing twice, it may have changed in between.

`PROJECT.json` lists the hazards of this code line by line, with the properties that
would catch each of them, or why none does yet.

## 2 The modules

| module | models | role |
|---|---|---|
| `CryptoErasure` | what callers may rely on of the vault | abstract specification |
| `BundleVault` | `qaptr-vault`, `qaptr-macos/credentials.rs` | implements `CryptoErasure` |
| `Retention` | `retention.rs`, `reaper.rs` over the vault's critical sections and the store's rows | the cascade on its own |
| `ReviewSession` | `session.rs`, `analyze.rs` | composes `Retention` (`R == INSTANCE Retention`) with the session, and implements it |
| `ModelCatalog` | `qaptr-provider-openrouter` (`lib.rs`, `catalog.rs`), `model_policy.rs` | which model a request may use |
| `ProviderGate` | `qaptr-provider`, the adapters of `qaptr-provider-cli`, OpenRouter's detection and replies | one analysis attempt against a machine that changes |
| `CliRuntime` | one `CliRuntime::run` | a child process |
| `ImageMasking`, `ContextSanitizer` | `recognize.rs`, `mask.rs`, `coverage.rs`, `recall.rs`; `classes.rs`, `sanitize.rs` | pure definitions |
| `PrivacyGate` | `gate.rs` over those two | the way from a capture to a payload |
| `WorkflowDocument`, `MarkdownExport` | `document.rs`, `components.rs`; `export/` | pure definitions |
| `WorkflowLibrary` | `qaptr-store`, `save.rs`, `atomic_write`, over those two | database, rows and exported files |
| `CaptureProfile`, `LoginItem`, `VaultBridge` | `profile.rs`; `login_item.rs`; `qaptr-ffi`, `exclusions.rs`, `bundle.rs` | the capture side, one module each |
| `CaptureHelper` | the three above | their composition |
| `Waitlist` | `waitlist.ts`, `ratelimit.ts` and the two database adapters | separate program |
| `BundleVault_proofs`, `Retention_proofs`, `ReviewSession_proofs`, `Waitlist_proofs`, `PrivacyGate_proofs`, `WorkflowLibrary_proofs`, `CaptureHelper_proofs` | | theorems about the module they are named after |
| `Provider_proofs` | | theorems about `ModelCatalog`, `ProviderGate` and `CliRuntime`, which share no variable |
| `MC_*` | | constants and symmetry of the runs |

**`CryptoErasure`.** A set of readable `<<capture, generation>>` pairs and a set of erased
generations. A capture is sealed, deleted, or goes with its generation in one step.

**`BundleVault`.** `op[p]` is the call each process is in: `CallSeal`, `CallOpen` and so on enter the function
(before the lock), the step named after the function's first locked work takes the lock,
and the guard `FileLock` is dropped by `Return` on every path. `exists` and `files` are the
directories under `bundles/` and their members, `genOf` the manifest's generation, `key`
the credential store, `pubKey` and `pubTemp` the files of `atomic_write`.
`seal` writes into a temporary directory (`SealWrite`, the members of `op[p].members`) and
renames it (`SealCommit`); `destroy_generation` deletes the key first (`DestroyKey`), then
picks committed bundles and removes them member by member (`DestroyPick`, `RemoveMember`,
`RemoveDir`); it may end with some of them left (`DestroyDone`). `SealFail`, `RemoveFail`, `DestroyKeyFail`, `RegisterFail` are the error
returns; `Crash` may happen in any call, loses the call and drops the lock, and leaves the
disk. Temporary directories left behind by `seal` have fresh names and are not state. That
`read_metadata` fails on an incomplete directory is `IsCommitted`.

**`Retention`.** `pass` is the local state of `enforce_retention`: rows still to look up
(`todo`), candidates (`seen`), the generations of the plan, the one being destroyed, the
rows to delete and the instant `asOf` at which the clock was read. `ScanRow`, `Plan`,
`DestroyKey`, `UnlinkBegin`, `UnlinkEnd`, `Reaped`, `DeleteRows` are its steps; `Stop`
(any error, any crash), `DestroyKeyFail` (the key may be gone all the same) and `PassedOver`
its faults. `destroy_generation` returns `Ok` without having unlinked a bundle whose
directory name begins with a dot (the constant `Hidden`, which `ToUnlink` leaves out) or
whose metadata cannot be read just then (`PassedOver`), and the pass goes on to delete the
row.
The helper's `Seal`, a session's `Ingest` and `SetClock`, which sets the clock to any time,
run between them. That each other call of the vault is one step rests on `BundleVault`'s
isolation.

**`ReviewSession`.** `session` is the position in `start_with_resolved_model_mode` and in
the runner, with the captures still to prepare or send, those prepared, sent and staged,
what is left of the observation limit and the progress shown last. `linked` and `orphaned`
are captures with a stored observation whose `capture_id` still is, or no longer is, their
row (`ON DELETE SET NULL`). The flag `cancelled` is looked at exactly where the code does;
`Cancel` may come between any two steps. `Crash` loses the session and keeps the stores.
`late` and `listed` are history variables. One attempt runs at a time:
`ReviewSessionCoordinator` takes `&mut Store`. What the privacy gate and the provider say
is a choice here, and worked out in `PrivacyGate` and `ProviderGate`.

**`ModelCatalog`.** `entry` is the cache's one entry, `lookup` the call under way with the
window it asks for and the instant it read, `held` the snapshot the caller keeps. A lookup
reads credential and cache (`CacheHit`, `CacheMiss`), and a miss sends a request whose answer
comes later (`FetchAnswered`, `FetchRefused`). `Compatible` is `parse_catalog`, `Resolve`
the policy. Clock and credential change between any two steps. `expired` is a history
variable: the serial numbers of snapshots that a lookup has found too old. Where a
comment and the code of `model_policy.rs` differ, at the instant of the fetch itself,
`ResolutionIsFirstWanted` leaves the answer open.

**`ProviderGate`.** `att` is one attempt: `detect`, `version`, `status`, `verify`,
`consent`, then `invoke` and `answer` for each payload. `machine` is what the probes read:
the files in each search path, the tool's login, Codex's `auth.json`, the key. It changes
between any two probes. `request` and `answer` are the last request made and the last reply,
`probed` what was run in this attempt, and `asOf` tells whether anything changed since the
version was printed (`untouched` of a request). A file may be replaced in place by one of
another version and is then run: `InvokedAsProven` says what a request has been shown, and
that it is still true of the file and the login if nothing changed. A reply has one of the forms the
adapters unwrap (`direct`, an event, `choices`, lines) and goes through `normalize.rs` as a
whole.

**`CliRuntime`.** `run` is the caller's position in the polling loop, `late` says that the
deadline has passed, `output` counts the bytes each reader has retained of those `written`,
`exceeded` is the shared flag, `descendant` a process the tool has started, in its own
process group or in another. The status of `/bin/kill` is ignored by the code, so
`TerminateProcessTree` may end the whole group or the leader alone. The tool is external and
does what it likes.

**`PrivacyGate`.** `stage` is the call the gate makes next: `Recognize`, `Mask`, `Rerun` of
the recognition on the masked bytes, `CheckMasking`, `Sanitize`, `Finish`; time passes in
each and is compared with the budget after it. An image is its origin, its size and the set
of its black pixels, and its hash is the image itself. Coordinates are `f32` in the code and
here numbers of a binary floating point format with steps of 1/`Grid` at the finest,
`Significand` steps to a power of two and the step widths `Spacings`; every sum, difference
and product is rounded to it, ties to even (`Round`, `Plus`, `OneMinus`, `Scaled`), in the
order of `map_normalized_rect`. `f32` is `Grid = 2^149`, `Significand = 2^24`. A text is a
sequence of tokens with a length, the shapes the `looks_like_…` predicates see, and where an
assignment begins; the patterns themselves are left out. Replacing keeps the character
positions, so a property can ask which characters survive. The walk of `replace_findings` is a
fold over the findings in their sorted order; what stays of a browser's address is its host,
a plain word.

**`WorkflowLibrary`.** `version` and `tables` are the database's schema, `process` the
instances of the app between `Store::open`, its migrations and their validation; each
statement or transaction is one step, and a process may die between any two. Rows are
written by `PutCapture`, `DeleteCaptures`, `CommitAnalysis`, `PutWorkflow`, `PutNotice`,
each behind the text-material rules, whose image magic is looked for at the start of each
column; `RewriteColumn` is another program that changes one column: a scalar one, or
`sequence`, into another draft, perhaps with a JSON field of its own (`Redrafted`, `Encodings`),
or into what is no document of this release (`Undocumented`). `written` is a history variable: the document that a row's column `sequence`
was last given, by whomever. A document has all its parts; `ToRecord` and `FromRecord` go
through the JSON of the column, in which every value keeps its type, because the parser tells
a null from a string. `Render` gives, for each audience, the lines of label and text that are
stated. An export goes through the steps of `atomic_write`, with cancellation, failure and
crash; the removal of its temporary file may fail too, which the code ignores (`CleanUp`).

**`CaptureHelper`.** The profile counts its grants, so that one window can be told from the
next, and reads the clock twice when one is started. The login item's native calls are steps
of their own, between which the user changes the item, and a call that fails may have changed
it all the same. The bridge takes any set of failing arguments. An identifier is a sequence of
lines and a line a sequence of characters, so that line breaks and carriage returns in it can
be asked about; a manifest may be cut at any character (`Rests`). The parts share no
variable, so each behaviour moves one of them and the others stand still.

**`Waitlist`.** `req[r]` is where a request stands and the window it computed; `Select` and
`Admit` are the two database calls of `checkRateLimit`. Each database call may fail, before
or after it had its effect. `admitted` and `overlapped` are history variables.

Operators whose comment begins with "Plausible bug" are variants of the definition that
follows them. No specification uses them; substituting one for its original makes the
property listed with it in `PROJECT.json` fail, which shows that the property depends on
that line of the code.

## 3 The runs

| run | shows | bounds | states |
|---|---|---|---|
| `vault` | calls are isolated (`OneCallInside`, `OpenIsNeverTorn`), bundles appear whole (`CommittedAtomically`), the key goes first (`KeyGoneBeforeUnlink`), `ImplementsErasure` | helper and two app processes, two captures, two generations, one payload member; symmetric in each | 839 000 |
| `retention` | `RowsOutliveKeys`, `KnownUnexpiredSurvive`, `SuccessErasesExpired`, and in the end `DueIsErased` | three captures, two of them of one generation; clock 0..2, lifetime 1 | 97 000 |
| `session` | `SendingIsPermitted`, `RetentionStrandsNothing`, `AnalysedIsNeverResent`, `AllOrNothing`, `ImplementsRetention`, `AttemptEnds` | two captures in two generations, clock 0..2, observation limit 2, up to 2 observations in an answer | 520 000 |
| `models` | `ResolutionIsFirstWanted`, `CacheServesOnlyUsable` | three models, windows of 1 and 3, clock 0..4, two requests | 90 000 |
| `provider` | `InvokedAsProven`, `TakenWholeOrNotAtAll`, `FailureNamesItsCause`, `AttemptSettles` | three tools and two endpoints, two search paths, one attempt, two changes of the machine, batches of two payloads | 263 000 |
| `cli` | `OkIsComplete`, `BlameIsJustified`, `LeaderEnds`, `RunReturns` | limit 2, pipe 2, up to 3 bytes on each stream, one descendant of either kind | 152 000 |
| `privacy` | `CoverageIsExact`, `FailsClosed`, `RegionsAreBlack`, `SecretsAreReplaced` | images of 3 by 2 and 3 by 3, a format of 5 significant bits down to steps of 1/128, all orientations, texts of up to four tokens, budget 1 | 33 000 |
| `workflow` | `SchemaIsWhole`, `RestoresWhatWasWritten`, `ExportsHideNothing`, `ReplyTellsTheFile` | two processes, one session and capture, two writes, one exported variant, databases found at version 0, 1 and a newer one | 144 000 |
| `helper` | `OverStaysOver`, `EnabledIsCurrent`, `ManifestIsFaithful` | four instants, two windows, one application and window title, one generation; identifiers of one and two characters, of two lines, and ending in a carriage return; times of one and three digits | 14 000 |
| `waitlist` | `AloneLimitIsExact`, `ThanksMeansStored` | four requests of two clients and two addresses, limit 2, three windows | 935 000 |
| `retention_mixed` | `MixedCohortRetained` is violated | as `retention` | |
| `exports_class` | `ExportsNameNoClass` is violated | one process, a workflow that repeats a redacted phone number | |

**Why the bounds are enough.** Three processes let one hold the lock while two others wait
for it, and a reader meet both a sealer and a destroyer; two captures in one generation
give a cohort that is half unlinked; two generations let a capture id move from one to the
other. Retention's three captures are the smallest mixed cohort plus a cohort that is
destroyed after it; three clock values give past, an age of exactly the lifetime, and the
future. A session of two captures has a first, a last and a failure in between, and a
limit of two can be used up by the first answer, exactly met or not reached.
In `models` the clock can leave a window and come back into it, a window of 1 can refuse
what one of 3 still accepts, and the second request follows a failed first.
In `provider` two changes are enough to take a tool away and put another in its place, and
the second payload comes after a change that the first has not seen; an attempt keeps
nothing of the one before it.
Three bytes against a limit and a pipe of two give one that blocks, one that overflows and
one that is only seen by the reader's probe after the limit. In `privacy` an edge
that lies on a pixel's border is rounded to either side of it, regions touch the border,
overlap and have no area, and
four tokens hold two overlapping addresses. In `workflow` two processes race through
both migrations. The documents of `MC_WorkflowLibrary` have something in
every field, almost nothing, or a field the builder refuses; the renderers are compared on all
four variants although one is saved. Bound `Quiet`: the
database stands still while an export runs, which is sound because the job holds its
rendering and shares no variable with the rows. Three requests of one client
meet the refusal at a limit of two, and a fourth is in the window after it; three
windows give a counter that is one and two windows old.

**Deadlock.** `cli`, `provider`, `privacy`, `workflow` and `waitlist` may stop: there is one
invocation, a bounded number of attempts or writes, one payload, and each request is
answered once. The other runs check that the system never gets stuck.

**Fairness.** `Retention!LiveSpec`: sessions, and with them passes, keep being started, a
pass goes on, and from some time on there are no more faults; without that last part a
failing disk may fail for ever. Nothing is assumed of the helper, of ingestion or of the
clock, so `DueIsErased` says that a due cohort does not stay due: it is erased, or the clock
is set back, or a younger capture joins it. A cohort behind an incomplete directory that has
a row is excepted (`Due`), because the code stops at it on every pass.
`ReviewSession!FairSpec` and `ProviderGate!FairSpec`: the thread that runs the attempt is
scheduled; the user need not answer the consent request, and nobody makes the machine
change. A provider call returns, if only by its own timeout: for the command line tools that
is `CliRuntime`'s `RunReturns`. `RuntimeFairSpec` of `CliRuntime`: Qaptr's threads are
scheduled, the deadline passes, and a write to a tool that no longer reads is refused; of the
tool, its descendants and the success of a kill nothing is assumed. So `LeaderEnds` says that
the tool itself ends, and `RunReturns` that `run` returns unless a descendant holds the pipes
for ever (see section 5).

## 4 The proofs

For all values of the constants that satisfy the modules' assumptions. These say that the
model values differ from the elements they stand beside, that limits, lifetimes and bounds are natural
numbers, that every capture has a generation, every request a client and an address,
that no command line tool is also an endpoint, that images have an extent and no side above
an eighth of the format's significand (2^21 pixels for `f32`), that step widths are powers of
two and reach twice the grid, that the
recognizer's regions lie within the unit square, as `NormalizedRect::new` demands, that
identifiers and times in the manifests are not empty, that
texts are sequences of tokens and a host at most one token, and that documents are of the types the structs of `document.rs` and `components.rs` declare. `ReviewSession`'s `CascadeAssumption` is
`Retention`'s assumption about the constants they share. TLC evaluates all of them.

| theorem | property |
|---|---|
| `BundleVault_proofs!TypeCorrect` | `TypeOK` |
| `…!MutualExclusion`, `…!OpenSafety`, `…!ErasureOrder`, `…!AtomicCommit` | `OneCallInside`, `OpenIsNeverTorn`, `KeyGoneBeforeUnlink`, `CommittedAtomically` |
| `…!VaultImplementsErasure` | `ImplementsErasure`, the refinement of `CryptoErasure` |
| `Retention_proofs!TypeCorrect` | `TypeOK` |
| `…!RowsOutlive`, `…!UnexpiredSurvive`, `…!SuccessErases` | `RowsOutliveKeys`, `KnownUnexpiredSurvive`, `SuccessErasesExpired` |
| `ReviewSession_proofs!TypeCorrect` | `Types` |
| `…!SendingPermitted`, `…!RetentionStrands`, `…!NeverResent`, `…!CommitsAll` | `SendingIsPermitted`, `RetentionStrandsNothing`, `AnalysedIsNeverResent`, `AllOrNothing` |
| `…!SessionImplementsRetention` | `ImplementsRetention`, the refinement of `Retention` |
| `Provider_proofs!ResolvesFirstWanted`, `…!ServesOnlyUsable` | `ResolutionIsFirstWanted`, `CacheServesOnlyUsable` |
| `…!InvocationProven`, `…!TakenWhole`, `…!FailuresNameTheirCauses` | `InvokedAsProven`, `TakenWholeOrNotAtAll`, `FailureNamesItsCause` |
| `…!OkComplete`, `…!BlameJustified` | `OkIsComplete`, `BlameIsJustified` |
| `PrivacyGate_proofs!GateFailsClosed`, `…!CoverageIsExactAlways`, `…!RegionsAreBlackAlways` | `FailsClosed`, `CoverageIsExact`, `RegionsAreBlack` |
| `…!SecretsAreReplacedAlways` | `SecretsAreReplaced` |
| `WorkflowLibrary_proofs!SchemaIsWholeAlways`, `…!RepliesTellTheFile`, `…!RowsRestoreWhatWasWritten` | `SchemaIsWhole`, `ReplyTellsTheFile`, `RestoresWhatWasWritten` |
| `…!ExportsHideNothingAlways` | `ExportsHideNothing` |
| `CaptureHelper_proofs!OverStaysOverAlways`, `…!EnabledIsCurrentAlways` | `OverStaysOver`, `EnabledIsCurrent` |
| `…!ManifestIsFaithfulAlways` | `ManifestIsFaithful`; `HelperKeepsItsPromises` carries the three over to `CaptureHelper`, which the run checks |
| `Waitlist_proofs!ThanksStored`, `…!AloneExact` | `ThanksMeansStored`, `AloneLimitIsExact` |

**The vault.** None of the properties is inductive: that an open bundle is not torn needs
that whoever removes it holds the lock, and that what `open` checked before it fetched the key
is still true. The invariant `IInv` adds to `TypeOK` and `OneCallInside` the arguments each
call has checked before the lock (`CallArguments`), what a call has established inside it
and the lock keeps (`Established`), and that a generation is created before anything is
sealed to it (`GenerationsCreated`), without which a new key could make an old bundle
readable. One lemma per part says that every action preserves it. The refinement
needs three facts: only `SealCommit` makes a pair readable, only a step that deletes a key
or the first removed member of a deleted bundle makes one unreadable, and every other step
leaves `Readable` and the erased generations as they were.

**The cascade.** `IInv` says of each stage of a pass where the bundles of the rows it read
can be: every row whose bundle is left is looked up or will be (`Scanned`), nothing is
unlinked while it scans (`ScanIsQuiet`), and from the plan on, each candidate is whole, or
gone, or of a generation still in the plan or in hand, or has lost its key (`Planned`). At
`DeleteRows` the plan is empty, so the key of every row to delete is destroyed, whether its
bundle was unlinked or passed over, and what can still be read belongs to a cohort with an
unexpired member.

**The session.** Each step of a session is a step of the cascade or leaves its variables
alone; that is the refinement, and it brings the cascade's invariant and lemmas inside
(`RP == INSTANCE Retention_proofs`). On top of it `Scoped` says what may be prepared and
sent at each stage, `Unanalysed` that what an attempt has in hand has no observation, for a
linked observation has a row and one cut from its row has no bundle left, and `NotStranded`
follows the captures that were whole at the start through the stages of the pass.

**The catalog.** `Forgotten`: what has been found too old is not in the cache, and what is on
the wire has not been found too old. The resolution needs that a set of positions that is
not empty has a smallest one (`Smallest`, by well-foundedness of inclusion on finite sets).

**The provider gate.** `Proven` says what a tool has shown when the attempt reaches each stage: the
same file printed its version, then its login. Nothing in it speaks of the machine, which is
why no change of the machine can break it. That a failure names its cause needs of the
invariant only that the version and the status are asked of tools (`Equipped`); the rest is
what the step that reports it has read, of the machine as it is at that step.

**The child.** `ReadersAreHonest`: a reader that stopped without an error has read all there
will ever be or has flagged the overflow. `CallerKnows`: the leader is gone when the threads
are joined and the readers are done when the result is classified.

**The privacy gate.** A mapped rectangle need not hold a whole region: rounding may move an
edge into it. Each operation is off by at most a part in 2 * `Significand` (`RoundFacts`,
`RoundSlips`); through a transformation and three of them an edge is off by less than a pixel
(`EdgeFacts`, `CornersFacts`), which needs the bound on the sides. `SideIsCovered` and `MapFacts`
say so of the mapped rectangle, and `RegionIsCovered` that the pixel which the masker adds on
every side makes up for it; `FloorFacts` and `CeilFacts` are the rounding outwards.
`MaskedFacts` says that a
masked image is verified by the proof made of it and that a dilated region covers the region
(`DilationCovers`). `GateInv` follows the stages: what each stage has in hand was recognised,
masked and verified, and what leaves was cleared (`IsCleared`). The two directions of the
second pass are not the same: two regions that share a pixel overlap for
`rectangles_overlap` (`SharingOverlaps`), but a finding without width or height overlaps a
masked region it lies on and shares no pixel with it, so an exclusion for coverage has found
a pixel or the place of such a finding again (`OverlapsShare`, `Ground`).

That no secret survives in a text is a statement about texts of any length. The library's
induction theorems take an operator, which the provers cannot instantiate, so induction is
done over a set of numbers: the lengths or positions at which a statement fails have a
smallest element if there is any (`Smallest`, `SetInduction`). The findings of a text are
finitely many and totally ordered as the code sorts them (`OrderFacts`, `LatestFacts`). The
walk keeps an invariant over the findings it has passed (`ReplaceKeepsWalkInv`, `WalkFacts`):
its cursor stands at the end of one that it replaced, and each of them was replaced or begins
inside an earlier one that was. Nothing is kept of a replaced finding (`Covered`), and it ends
no earlier than the token in which the one it covers begins (`CoveringEnd`), because findings
end where tokens do. Addresses spread over several tokens are a case of their own
(`AddressReplaced`). With these a sanitized text is clean (`ReplacedIsClean`), and
`ContextInv` carries that through the stages of the gate.

**The library.** `MigratorsFollow`: an instance that migrates has read a version that this
release knows and that has not gone back since, so that the migration it runs, inside its
transaction, is the next of the version on disk; every other one fails on an existing table.
`ExportInv` ties the file in hand to the rendering at each step of `atomic_write`, whatever
temporary file was left before. The
round trip of a row is proved from the inside out, one lemma for each kind of value and its
parser (`OptionReads`, `TextsRead` and so on up to `PartsRead`, `DocumentReads`,
`SequenceReads` and `RecordReads`); lists are functions on their positions there, so no
induction is needed. `EncodingFields`, `EncodingValues` and `UndocumentedIsRefused` say what another
program's column `sequence` reads as. `RowsInv` says that the column encodes the draft it was
last given or is no document, and `RewriteLemma` that a change of any column keeps it.

An export concatenates and filters lists of any length, so that it hides nothing needs
induction, by `SetInduction` on the length (`FlattenOnly`, `FlattenTwo`, `FlattenSingles`,
`ToldFlatten`). A rendering is a sequence of blocks, and no block uses the labels by which another
tells its list (`Words`, `Strangers`), except that inputs and outputs share some and stand in
that order. `IsLayout` says which block tells which part of
the document, and `LayoutTells` that a rendering with a layout tells all of them; there is
one layout for each audience. `RowsInvariant` supplies that an exported document is of the
declared types.

**The capture side.** `LabelsAreGranted` bounds the labels of the active window, of
the copy that was kept and of those seen over by the number of grants, so that a new window
never has the label of an old one; a restart forgets what was seen. `Undisturbed` says what
the calls made so far have made of a login item nobody else touched: an enable registers
only what it has read as disabled or has just unregistered, and confirms its own
registration; an item that is enabled against its reading was made so by a call of its own
that failed. The manifest of identifiers of one line has exactly four lines
(`FourLinesParse`, `WholeLemma`); one cut before its last line has no time and is refused
(`UntimedIsRefused`), one cut in it reads with the digits that are left (`TornLemma`). The
three parts share no variable, so what holds of each holds of the composition.

**The waitlist.** For a client whose requests do not meet, `Alone` ties the counter's row to
the requests admitted or failed in its window, and what a request inside `checkRateLimit`
has read still holds. Counting them uses the library's theorems on cardinalities.

The invariants of the state machines were checked by TLC on the runs' instances before
they were proved.

**Only model-checked.** Liveness, which is out of the prover's reach: `DueIsErased`,
`AttemptEnds`, `AttemptSettles`, `LeaderEnds` and `RunReturns`. Every other property of a
passing run (invariant, action property or refinement) is stated by a theorem.

## 5 What the code does differently from what it says

Two are runs that TLC ends with a counterexample; `PROJECT.json` quotes the lines.

- `retention_mixed`: "a mixed cohort is deliberately retained", but cohorts are judged by
  the captures that have a row when the pass begins; one sealed since, or not yet ingested,
  is erased with them. `KnownUnexpiredSurvive`, for the ingested ones, holds and is proved.
- `exports_class`: exports "must not repeat the class of a sanitized value", but the list of
  tokens they replace has no phone number, credential, payment card, national id or address,
  all of which the sanitizer writes.

More were met while translating and are modelled as the code has them, without a run:

- A removal interrupted half way leaves a directory that `destroy_generation`, run again,
  does not see: it returns `Ok`, and ciphertext whose key is gone stays.
- `destroy_generation` does not unlink "all of that generation's bundles": a directory whose
  name begins with a dot, or whose metadata cannot be read at that moment, is passed over and
  the call returns `Ok` (`vault lib.rs:326-346`). Retention then deletes the row, and the
  ciphertext, whose key is gone, stays.
- After a crash between the vault's half and the store's half of the cascade, the rows of
  the erased captures are skipped by every later pass and stay.
- The progress still reads `Preparing` ("No provider request has occurred") while captures
  are being sent, and a cancellation during the last provider call discards nothing.
- The "per-capture observation bound" (`analyze.rs:271`) is what is left for the whole
  session.
- `CliRuntime::run` joins its threads without a deadline, so a descendant that keeps the pipes
  open keeps `run` past its wall-clock limit: one that has left the process group, one in a
  group that `/bin/kill` could not end (its status is ignored, `runtime.rs:643-650`), and one
  whose leader ended by itself before the deadline, which nobody kills. The "combined" output bound (`runtime.rs:49`) is applied by each reader
  alone until the result is rejected, so twice as much may be retained meanwhile.
- Codex's record of a login stands in not only for a status the tool "cannot report"
  (`codex.rs:145-146`) but also for a status that says it is signed out with exit code zero
  (`codex.rs:209-218`).
- A tool that is replaced at its path after it printed its version and login is run without
  being asked again (`adapter.rs:502-532`).
- The consent request names a model, which the command line tools are not sent
  (`consent.rs:73-75`).
- "A clock reading at or before `fetched_at`" is called stale (`model_policy.rs:226`); one
  exactly at `fetched_at` is fresh.
- Regions of an image turned by a quarter are placed in the turned frame but validated
  against the sides of the image as it is, so a capture that is not square can be excluded
  for a region that lies within it. `map_normalized_rect` rounds outwards what `f32` arithmetic
  has already moved, so it can miss a pixel that a region touches; the dilation of the mask
  makes up for it. A recall threshold of zero matches regions that do not
  touch.
- An image in a batch is refused for an adapter without that capability when its turn comes,
  after the payloads in front of it were sent.
- A capture id with a line break seals, but its manifest does not parse, and listing the
  vault fails from then on. An identifier that ends in a carriage return reads back without
  it, because `str::lines` strips it, and a manifest cut in the digits of its time reads as an
  earlier capture (`bundle.rs:102-110`). `ManifestIsFaithful` speaks of identifiers of one line
  that end in no carriage return, and says what a cut manifest reads as.
- A successful `qaptr_vault_public_key` leaves the text of an earlier error
  (`qaptr-ffi lib.rs:109`).
- A document that another program puts into the column `sequence` is restored as it is when
  its scalar values agree with the row's (`document.rs:267-279`), so the evidence of a step is
  only as good as the column.
- An export for onboarding states that branches were not captured only when decisions and
  variations are both missing; the procedure export leaves out how a tool was seen used.
- Two exporters to one destination share the name of the temporary file; the second fails and
  removes the file of the first. A removal that fails leaves it, and the answer is the same
  (`fs.rs:54-56`).
- A profile whose window has passed while no helper ran comes back if the clock is set back
  before the restart. `OverStaysOver` speaks of one run of the helper.
- When the system refuses the new registration, the old login item is gone already;
  `set_enabled` reports the failure.

## 6 What is not modelled

- Encryption, the byte layout of members, backup exclusion attributes: a member is a name,
  and a bundle is readable when its members are there and its key is held.
- The spawn of the child: private working directory, sandbox profile, environment,
  argument lists and the text of prompts.
- The patterns by which a token looks like an email, a key or a card, and the recognizers,
  which are the system's: their verdicts are inputs. A host with the digits of a phone number,
  which the sanitizer would replace where it stands, is left out.
- The JSON of a request to OpenRouter and of a structured reply; a reply is its form and its
  observations.
- Raw pointers of the FFI, on which its contracts rest; Keychain calls other than reading
  and deletion.
- Wording and Markdown syntax of consent and exports.
- The origin check of the waitlist endpoint, which returns before any state is read. The
  server's clock only moves forward there.
- The Swift app (views over a demonstration model, outside the Rust core) and the static
  pages.

Nothing but its tests calls `ReviewSessionCoordinator` in this repository; its caller is
modelled by any sequence of `start`, `retry` and `cancel`.

## 7 What is left

1. The whole backlog: a liveness question over many sessions, with a capture that cannot
   be opened or is rejected every time.
2. A composition of `ReviewSession` with `PrivacyGate` and `ProviderGate` in place of its
   choices, with a refinement of `ReviewSession`; the stages of `ProviderGate` between
   consent and the last answer are those of the runner.
3. Several instances of the app in one session's store: `WorkflowLibrary` has them, but
   `ReviewSession` runs alone.
