---------------------------- MODULE ModelCatalog ----------------------------
(***************************************************************************)
(* Which model a request may use: the OpenRouter model catalog is fetched  *)
(* with the user's credential (qaptr-provider-openrouter), kept in a       *)
(* single-entry cache, and the policy (qaptr-policy, model_policy.rs)      *)
(* resolves preferred, fallback and override models against the snapshot   *)
(* a caller holds.  Between any two calls, and while a request is on the   *)
(* wire, the clock may jump either way and the credential may change.      *)
(***************************************************************************)
EXTENDS Integers, SequencesExt

CONSTANTS
  Model,        \* the identifiers ModelId::new accepts
  Preferred,    \* ModelPolicy::preferred
  Fallbacks,    \* ModelPolicy::fallbacks
  Windows,      \* the freshness windows callers pass, in clock units
  Listing,      \* the model lists the service may answer with
  MaxTime,      \* bound: the clock shows 0..MaxTime
  MaxFetches,   \* bound: catalog requests sent
  NoModel, NoCatalog

ASSUME CatalogAssumption ==
  /\ Preferred \in Model
  /\ Fallbacks \in Seq(Model)
  /\ Windows \subseteq Nat
  /\ MaxTime \in Nat /\ MaxFetches \in Nat
  /\ NoModel \notin Model

VARIABLES
  clock,      \* what the Clock port shows
  credential, \* what the CredentialPort answers for openrouter.api_key
  entry,      \* OpenRouterCatalogCache::entry
  lookup,     \* the call under way, its arguments and the instant it began
  result,     \* how the last call returned, and the window it asked for
  held,       \* the snapshot the caller keeps from its last successful call
  sent,       \* number of requests sent; the serial number of a snapshot
  expired     \* history: snapshots a lookup has found too old

catalogVars == <<clock, credential, entry, lookup, result, held, sent, expired>>

Time == 0..MaxTime

-----------------------------------------------------------------------------
(* catalog.rs *)

(* An entry of the list: the sides its architecture names "text" for, the  *)
(* legacy "text->text" modality, structured_outputs, and its identifier.   *)
HasTextModality(e, side) == side \in e.text \/ e.legacy

SupportsRequiredCapabilities(e) ==
  /\ HasTextModality(e, "input") /\ HasTextModality(e, "output")
  /\ e.structured

(* parse_catalog keeps each compatible identifier once, in source order. *)
Compatible(list) ==
  FoldLeft(LAMBDA models, e :
             IF SupportsRequiredCapabilities(e) /\ e.id # NoModel /\ ~ Contains(models, e.id)
             THEN Append(models, e.id) ELSE models,
           <<>>, list)

(* The transport's answers: a failure, a status, or a list that parses. *)
Refused == {"network", "rate_limited", "http_status",
            "too_large", "not_json", "no_list", "too_many"}

-----------------------------------------------------------------------------
(* model_policy.rs *)

(* duration_since fails for a clock behind fetched_at. *)
IsFreshAt(c, now) == now >= c.fetchedAt /\ now - c.fetchedAt < c.window

Readiness(state, model) == [state |-> state, model |-> model]

Validated(c, m) == m \in Range(c.validated)

(* resolve_model stops at the provider's state, at a stale catalog, and at *)
(* an override; only without one it walks preferred and fallbacks.         *)
FirstAvailable(c) ==
  LET usable == {i \in DOMAIN Fallbacks : Validated(c, Fallbacks[i])}
  IN IF Validated(c, Preferred) THEN Readiness("ready", Preferred)
     ELSE IF usable = {} THEN Readiness("catalog", NoModel)
     ELSE Readiness("fallback", Fallbacks[CHOOSE i \in usable : \A j \in usable : i <= j])

(* Plausible bug: an override that is not validated falls back silently. *)
ResolveSilently(override, c, fresh, provider) ==
  IF provider # "ready" THEN Readiness(provider, NoModel)
  ELSE IF ~ fresh THEN Readiness("catalog", NoModel)
  ELSE IF override # NoModel /\ Validated(c, override) THEN Readiness("ready", override)
  ELSE FirstAvailable(c)

ResolveModel(override, c, fresh, provider) ==
  IF provider # "ready" THEN Readiness(provider, NoModel)
  ELSE IF ~ fresh THEN Readiness("catalog", NoModel)
  ELSE IF override = NoModel THEN FirstAvailable(c)
  ELSE IF Validated(c, override) THEN Readiness("ready", override)
  ELSE Readiness("override", NoModel)

(* resolve_from_catalog *)
Resolve(override, c, provider) ==
  ResolveModel(override, c, IsFreshAt(c, clock), provider)

IsReady(r) == r.state \in {"ready", "fallback"}
IsError(r) == r.state \in {"unavailable", "authentication", "catalog", "override"}
NextAction(r) == r.state \notin {"ready", "fallback"}

Notice(r) == IF r.state = "fallback" THEN r.model ELSE NoModel

-----------------------------------------------------------------------------
(* OpenRouterAdapter::read_key: a failing or partial read is a runtime     *)
(* failure, an absent or blank value is NotAuthenticated.                  *)
Credential == {"key", "absent", "blank", "partial", "failing"}
CredentialError == IF credential \in {"partial", "failing"} THEN "detection" ELSE "not_authenticated"

Pending == [how |-> "pending", window |-> 0]
NoLookup == [at |-> "idle", now |-> 0, window |-> 0, caching |-> FALSE]

Returns(how) == /\ result' = [how |-> how, window |-> lookup.window]
                /\ lookup' = NoLookup

KeyUnreadable ==
  /\ lookup = NoLookup
  /\ credential # "key"
  /\ Returns(CredentialError)
  /\ UNCHANGED <<clock, credential, entry, held, sent, expired>>

(* Plausible bug: the window a snapshot was fetched for is not compared. *)
MatchesAnyWindow(window) == entry # NoCatalog /\ IsFreshAt(entry, clock)

Matches(window) ==
  entry # NoCatalog /\ entry.window = window /\ IsFreshAt(entry, clock)

(* get_or_fetch hands out a fresh snapshot of the same window, *)
CacheHit ==
  /\ lookup = NoLookup
  /\ credential = "key"
  /\ \E w \in Windows : Matches(w) /\ result' = [how |-> "hit", window |-> w]
  /\ held' = entry
  /\ UNCHANGED <<clock, credential, entry, lookup, sent, expired>>

FoundExpired == IF entry # NoCatalog /\ ~ IsFreshAt(entry, clock) THEN {entry.serial} ELSE {}

(* and otherwise drops what it has before it asks the service. *)
CacheMiss ==
  /\ lookup = NoLookup
  /\ credential = "key" /\ sent < MaxFetches
  /\ \E w \in Windows :
       /\ ~ Matches(w)
       /\ lookup' = [at |-> "fetching", now |-> clock, window |-> w, caching |-> TRUE]
  /\ entry' = NoCatalog
  /\ sent' = sent + 1
  /\ expired' = expired \cup FoundExpired
  /\ result' = Pending
  /\ UNCHANGED <<clock, credential, held>>

(* fetch_catalog goes past the cache. *)
FetchCatalog ==
  /\ lookup = NoLookup
  /\ credential = "key" /\ sent < MaxFetches
  /\ \E w \in Windows :
       lookup' = [at |-> "fetching", now |-> clock, window |-> w, caching |-> FALSE]
  /\ sent' = sent + 1
  /\ result' = Pending
  /\ UNCHANGED <<clock, credential, entry, held, expired>>

FetchRefused ==
  /\ lookup.at = "fetching"
  /\ \E why \in Refused : Returns(why)
  /\ UNCHANGED <<clock, credential, entry, held, sent, expired>>

Snapshot(models) ==
  [validated |-> models, fetchedAt |-> lookup.now, window |-> lookup.window, serial |-> sent]

(* A list without a compatible model is an error too. *)
FetchAnswered ==
  /\ lookup.at = "fetching"
  /\ \E list \in Listing :
       IF Compatible(list) = <<>>
       THEN Returns("no_models") /\ UNCHANGED <<entry, held>>
       ELSE /\ Returns("fetched")
            /\ held' = Snapshot(Compatible(list))
            /\ entry' = IF lookup.caching THEN Snapshot(Compatible(list)) ELSE entry
  /\ UNCHANGED <<clock, credential, sent, expired>>

Invalidate ==
  /\ lookup = NoLookup
  /\ entry # NoCatalog
  /\ entry' = NoCatalog
  /\ UNCHANGED <<clock, credential, lookup, result, held, sent, expired>>

SetClock ==
  /\ clock' \in Time \ {clock}
  /\ UNCHANGED <<credential, entry, lookup, result, held, sent, expired>>

ChangeCredential ==
  /\ credential' \in Credential \ {credential}
  /\ UNCHANGED <<clock, entry, lookup, result, held, sent, expired>>

CatalogInit ==
  /\ clock \in Time
  /\ credential \in Credential
  /\ entry = NoCatalog /\ held = NoCatalog
  /\ lookup = NoLookup /\ result = Pending
  /\ sent = 0 /\ expired = {}

Call == KeyUnreadable \/ CacheHit \/ CacheMiss \/ FetchCatalog \/ Invalidate
CatalogAnswer == FetchRefused \/ FetchAnswered
Environment == SetClock \/ ChangeCredential

CatalogNext == Call \/ CatalogAnswer \/ Environment

CatalogSpec == CatalogInit /\ [][CatalogNext]_catalogVars

-----------------------------------------------------------------------------
(* Properties *)

(* What a lookup hands out of the cache may be used now, for the window it *)
(* asked for, by a caller whose credential can be read; and a snapshot     *)
(* that one lookup has found too old is never handed out again, although   *)
(* the clock may be set back into its window and every refresh in between  *)
(* may fail ("a transient failure cannot later reactivate an expired       *)
(* snapshot", lib.rs:111-112).                                             *)
CacheServesOnlyUsable ==
  [][ result'.how = "hit" /\ (result' # result \/ held' # held) =>
        /\ held'.serial \notin expired
        /\ credential = "key"
        /\ held'.window = result'.window
        /\ clock \in held'.fetchedAt .. (held'.fetchedAt + result'.window - 1) ]_catalogVars

Override == Model \cup {NoModel}
Provider == {"no_provider", "unavailable", "authentication", "ready"}
Wanted(override) == IF override = NoModel THEN <<Preferred>> \o Fallbacks ELSE <<override>>

(* Whatever the caller holds and whoever is asked: a model is resolved     *)
(* only when the provider is ready, the snapshot is not from the future    *)
(* nor as old as its window, and one of the models wanted is in it; it is  *)
(* the first of these, and an override is never replaced by another model. *)
(* Then one is resolved, too, with the instant of the fetch left out: the  *)
(* comment on is_fresh calls a clock at fetched_at stale                   *)
(* (model_policy.rs:226-229), and is_fresh_at counts it as fresh.  What is *)
(* ready shows neither an error nor a recovery action, and any model but   *)
(* the first one wanted is announced by the notice.                        *)
ResolutionIsFirstWanted ==
  held # NoCatalog =>
    \A override \in Override, provider \in Provider :
      LET r == Resolve(override, held, provider)
          wanted == Wanted(override)
          found == {i \in DOMAIN wanted : Validated(held, wanted[i])}
      IN /\ IsReady(r) => provider = "ready" /\ found # {}
                          /\ clock \in held.fetchedAt .. (held.fetchedAt + held.window - 1)
         /\ /\ provider = "ready" /\ found # {}
            /\ clock \in (held.fetchedAt + 1) .. (held.fetchedAt + held.window - 1)
            => IsReady(r)
         /\ IsReady(r) => /\ \E i \in found : r.model = wanted[i] /\ \A j \in found : i <= j
                          /\ ~ IsError(r) /\ ~ NextAction(r)
                          /\ 1 \notin found => Notice(r) = r.model
         /\ Notice(r) # NoModel => IsReady(r) /\ 1 \notin found

=============================================================================
