------------------------------ MODULE Retention ------------------------------
(***************************************************************************)
(* crates/qaptr-policy/src/retention.rs and crates/qaptr-vault/src/        *)
(* reaper.rs: the retention cascade.  enforce_retention reads the capture  *)
(* rows of the history store, asks the vault for each bundle's generation, *)
(* has the reaper destroy every generation whose known bundles have all    *)
(* expired, and then deletes the rows of those captures.  Store and vault  *)
(* are two separate durable stores: nothing makes the cascade atomic, the  *)
(* capture helper keeps sealing bundles between its steps, and the process *)
(* may fail or die anywhere in it.                                         *)
(*                                                                         *)
(* One call of the vault is one critical section (BundleVault), so each is *)
(* one step here, except destroy_generation, which is shown operation by   *)
(* operation because it can be interrupted between them.                   *)
(***************************************************************************)
EXTENDS Integers

CONSTANTS
  Capture,
  Generation,
  GenOf,        \* the generation each capture is sealed to
  Hidden,       \* captures whose identifier begins with a dot
  Lifetime,     \* RetentionPolicy::lifetime
  MaxTime,      \* bound: the clock shows 0..MaxTime
  NoGeneration

ASSUME RetentionAssumption ==
  /\ GenOf \in [Capture -> Generation]
  /\ Hidden \subseteq Capture
  /\ Lifetime \in Nat
  /\ MaxTime \in Nat
  /\ NoGeneration \notin Generation

VARIABLES
  bundle,       \* the directory of each capture in the vault
  capturedAt,   \* the capture time written in its manifest and its row
  privateKey,   \* generations whose private key the credential store holds
  rows,         \* capture rows of the history store
  now,          \* the wall clock
  pass          \* the call of enforce_retention under way, or its result

env  == <<bundle, capturedAt, privateKey, rows, now>>
vars == <<bundle, capturedAt, privateKey, rows, now, pass>>

Time == 0..MaxTime

(***************************************************************************)
(* A pass: where it stands, the rows of its snapshot still to be looked    *)
(* up, the candidates found, the generations still to be reaped, the one   *)
(* being destroyed and the bundle being removed, the capture rows it will  *)
(* delete, and the instant at which it read the clock.                     *)
(***************************************************************************)
Finished == {"ok", "err"}
Result(r) == [at |-> r, todo |-> {}, seen |-> {}, plan |-> {},
              gen |-> NoGeneration, removing |-> {}, expired |-> {}, asOf |-> 0]

(* The vault lock is held throughout destroy_generation. *)
VaultLocked == pass.at = "unlink"

-----------------------------------------------------------------------------
(* The rest of the system *)

(* The helper seals a new capture, stamped with the current time.  It uses *)
(* the public key only, so it does not notice that a key was destroyed.    *)
Seal(c) ==
  /\ bundle[c] = "none"
  /\ ~VaultLocked
  /\ bundle' = [bundle EXCEPT ![c] = "whole"]
  /\ capturedAt' = [capturedAt EXCEPT ![c] = now]
  /\ UNCHANGED <<privateKey, rows, now, pass>>

(* A session ingests, in one transaction, captures that were committed when *)
(* its caller listed them; a retry may list ones that are gone since.      *)
Ingest(cs) ==
  /\ pass.at \in Finished
  /\ \A c \in cs : bundle[c] # "none"
  /\ rows' = rows \cup cs
  /\ UNCHANGED <<bundle, capturedAt, privateKey, now, pass>>

(* The wall clock may be set to any time, also backwards. *)
SetClock(t) ==
  /\ now' = t
  /\ UNCHANGED <<bundle, capturedAt, privateKey, rows, pass>>

-----------------------------------------------------------------------------
(* enforce_retention *)

(* is_expired_at: duration_since fails for a capture in the future, which  *)
(* therefore never expires.                                                *)
IsExpiredAt(c, t) == t >= capturedAt[c] /\ t - capturedAt[c] >= Lifetime

(* Plausible bug: one expired candidate is enough. *)
AnyExpiredGenerations(candidates, t) ==
  {g \in {GenOf[c] : c \in candidates} :
     \E c \in candidates : GenOf[c] = g /\ IsExpiredAt(c, t)}

(* Plausible bug: a generation whose key is gone counts as reaped. *)
ExpiredGenerationsWithKey(candidates, t) ==
  {g \in {GenOf[c] : c \in candidates} \cap privateKey :
     \A c \in candidates : GenOf[c] = g => IsExpiredAt(c, t)}

(* expired_generations: the cohorts all of whose candidates have expired. *)
ExpiredGenerations(candidates, t) ==
  {g \in {GenOf[c] : c \in candidates} :
     \A c \in candidates : GenOf[c] = g => IsExpiredAt(c, t)}

Begin ==
  /\ pass.at \in Finished
  /\ pass' = [Result("scan") EXCEPT !.todo = rows]
  /\ UNCHANGED env

(* vault.bundle_metadata of one row: a bundle that is not found is skipped. *)
ScanRow(c) ==
  /\ pass.at = "scan"
  /\ c \in pass.todo
  /\ bundle[c] # "half"
  /\ pass' = [pass EXCEPT !.todo = @ \ {c},
                          !.seen = IF bundle[c] = "whole" THEN @ \cup {c} ELSE @]
  /\ UNCHANGED env

(* Every row was looked up: read the clock and fix the plan. *)
Plan ==
  /\ pass.at = "scan"
  /\ pass.todo = {}
  /\ LET gens == ExpiredGenerations(pass.seen, now)
     IN pass' = [pass EXCEPT !.at = "reap",
                             !.plan = gens,
                             !.expired = {c \in pass.seen : GenOf[c] \in gens},
                             !.asOf = now]
  /\ UNCHANGED env

(* Plausible bug: a partial deletion of the key counts as done. *)
DestroyKeyPartial(g) ==
  /\ pass.at = "reap"
  /\ g \in pass.plan
  /\ \E ks \in {privateKey, privateKey \ {g}} : privateKey' = ks
  /\ pass' = [pass EXCEPT !.at = "unlink", !.plan = @ \ {g}, !.gen = g]
  /\ UNCHANGED <<bundle, capturedAt, rows, now>>

(* destroy_generation of the next cohort: the private key goes first. *)
DestroyKey(g) ==
  /\ pass.at = "reap"
  /\ g \in pass.plan
  /\ privateKey' = privateKey \ {g}
  /\ pass' = [pass EXCEPT !.at = "unlink", !.plan = @ \ {g}, !.gen = g]
  /\ UNCHANGED <<bundle, capturedAt, rows, now>>

(* The directories that the scan of the vault still finds to be of the     *)
(* generation.  It takes a name that begins with a dot for a temporary one.*)
ToUnlink == {c \in Capture \ Hidden : bundle[c] = "whole" /\ GenOf[c] = pass.gen}

(* Of all the bundles in the vault, those of the generation are unlinked:  *)
(* the first member, which leaves the directory incomplete, then the rest. *)
UnlinkBegin(c) ==
  /\ pass.at = "unlink"
  /\ c \in ToUnlink
  /\ pass.removing = {}
  /\ bundle' = [bundle EXCEPT ![c] = "half"]
  /\ pass' = [pass EXCEPT !.removing = {c}]
  /\ UNCHANGED <<capturedAt, privateKey, rows, now>>

UnlinkEnd(c) ==
  /\ pass.at = "unlink"
  /\ c \in pass.removing
  /\ bundle' = [bundle EXCEPT ![c] = "gone"]
  /\ pass' = [pass EXCEPT !.removing = {}]
  /\ UNCHANGED <<capturedAt, privateKey, rows, now>>

(* The scan is through and answers Ok: on to the next generation. *)
Reaped ==
  /\ pass.at = "unlink"
  /\ pass.removing = {}
  /\ ToUnlink = {}
  /\ pass' = [pass EXCEPT !.at = "reap", !.gen = NoGeneration]
  /\ UNCHANGED env

(* Plausible bug: the rows go before the bundles. *)
DeleteRowsFirst ==
  /\ pass.at = "reap"
  /\ rows' = rows \ pass.expired
  /\ pass' = Result("ok")
  /\ UNCHANGED <<bundle, capturedAt, privateKey, now>>

(* The whole plan was reaped: delete_captures, one transaction. *)
DeleteRows ==
  /\ pass.at = "reap"
  /\ pass.plan = {}
  /\ rows' = rows \ pass.expired
  /\ pass' = Result("ok")
  /\ UNCHANGED <<bundle, capturedAt, privateKey, now>>

(* An incomplete bundle directory stops the pass with IncompleteBundle. *)
ScanIncomplete(c) ==
  /\ pass.at = "scan"
  /\ c \in pass.todo
  /\ bundle[c] = "half"
  /\ pass' = Result("err")
  /\ UNCHANGED env

(* Any other error of the store, the vault or the file system, and a crash *)
(* of the process, end the pass where it stands.                           *)
Stop ==
  /\ pass.at \notin Finished
  /\ pass' = Result("err")
  /\ UNCHANGED env

(* The credential store fails, or reports a partial deletion: the key may  *)
(* be gone, and the pass ends.                                             *)
DestroyKeyFail(g) ==
  /\ pass.at = "reap"
  /\ g \in pass.plan
  /\ privateKey' = privateKey \ {g}
  /\ pass' = Result("err")
  /\ UNCHANGED <<bundle, capturedAt, rows, now>>

(* The metadata of some directories cannot be read: the scan passes them   *)
(* over as if they were another generation's, and answers Ok all the same. *)
PassedOver ==
  /\ pass.at = "unlink"
  /\ pass.removing = {}
  /\ ToUnlink # {}
  /\ pass' = [pass EXCEPT !.at = "reap", !.gen = NoGeneration]
  /\ UNCHANGED env

Init ==
  /\ bundle = [c \in Capture |-> "none"]
  /\ capturedAt = [c \in Capture |-> 0]
  /\ privateKey = Generation
  /\ rows = {}
  /\ now = 0
  /\ pass = Result("ok")

PassStep ==
  \/ Plan \/ Reaped \/ DeleteRows
  \/ \E c \in Capture :
       ScanRow(c) \/ ScanIncomplete(c) \/ UnlinkBegin(c) \/ UnlinkEnd(c)
  \/ \E g \in Generation : DestroyKey(g)

Fault == Stop \/ PassedOver \/ \E g \in Generation : DestroyKeyFail(g)

Environment ==
  \/ \E c \in Capture : Seal(c)
  \/ \E cs \in SUBSET Capture : Ingest(cs)
  \/ \E t \in Time : SetClock(t)

Next == Begin \/ PassStep \/ Fault \/ Environment

Spec == Init /\ [][Next]_vars

(* Liveness assumes that sessions, and so passes, keep being started, that *)
(* a pass under way goes on, and that from some time on nothing fails.     *)
LiveSpec ==
  /\ Spec
  /\ WF_vars(Begin) /\ WF_vars(PassStep)
  /\ <>[][~Fault]_vars

-----------------------------------------------------------------------------
(* Properties *)

Passes == [at : Finished \cup {"scan", "reap", "unlink"},
           todo : SUBSET Capture, seen : SUBSET Capture,
           plan : SUBSET Generation, gen : Generation \cup {NoGeneration},
           removing : SUBSET Capture, expired : SUBSET Capture, asOf : Time]

TypeOK ==
  /\ bundle \in [Capture -> {"none", "whole", "half", "gone"}]
  /\ capturedAt \in [Capture -> Time]
  /\ privateKey \subseteq Generation
  /\ rows \subseteq Capture
  /\ now \in Time
  /\ pass \in Passes

(* A capture row goes only when its bundle is erased, its generation's     *)
(* private key destroyed and its directory not left half removed: whatever *)
(* interrupts the cascade, history never forgets a capture that can still  *)
(* be read (retention.rs: "rows removed after vault success").             *)
RowsOutliveKeys ==
  [][ \A c \in rows \ rows' : GenOf[c] \notin privateKey /\ bundle[c] # "half" ]_vars

(* No pass destroys the key of an ingested capture that had not expired at *)
(* the instant the pass read the clock, wherever the clock moves meanwhile *)
(* ("time movement cannot cause premature deletion").                      *)
KnownUnexpiredSurvive ==
  [][ \A g \in privateKey \ privateKey' : \A c \in rows :
        bundle[c] = "whole" /\ GenOf[c] = g => IsExpiredAt(c, pass.asOf) ]_vars

(* A pass that returns Ok has erased everything it had to.  Of a bundle    *)
(* still whole, either the key is destroyed and the row goes, or it shares *)
(* its generation with an ingested one that had not expired and stays.     *)
SuccessErasesExpired ==
  [][ DeleteRows => \A c \in rows : bundle[c] = "whole" =>
        \/ GenOf[c] \notin privateKey /\ c \notin rows'
        \/ \E d \in rows' : /\ bundle[d] = "whole"
                            /\ GenOf[d] = GenOf[c]
                            /\ ~IsExpiredAt(d, pass.asOf) ]_vars

(* Some ingested bundles of g are whole, all of them have expired, and no  *)
(* half-removed directory with a row stands in the way of a pass.          *)
Due(g) ==
  /\ \E c \in rows : bundle[c] = "whole" /\ GenOf[c] = g
  /\ \A c \in rows : bundle[c] = "whole" /\ GenOf[c] = g => IsExpiredAt(c, now)
  /\ \A c \in rows : bundle[c] # "half"

(* Passes that are resumed after any number of faults erase every cohort   *)
(* that is due, unless an incomplete directory blocks them.  A bundle that *)
(* a pass skips (its name begins with a dot) loses its key and its row.    *)
DueIsErased == \A g \in Generation : []<>~Due(g)

(* retention.rs:77 "a mixed cohort is deliberately retained rather than    *)
(* deleting only part of a generation": no bundle in the vault is erased   *)
(* before it has expired, also one the store does not know yet.            *)
MixedCohortRetained ==
  [][ \A g \in privateKey \ privateKey' : \A c \in Capture :
        bundle[c] = "whole" /\ GenOf[c] = g => IsExpiredAt(c, pass.asOf) ]_vars

=============================================================================
