--------------------------- MODULE Provider_proofs ---------------------------
(***************************************************************************)
(* Proofs about the provider side: the catalog behind the model policy,    *)
(* the gate in front of an adapter, and the runtime that runs a CLI tool.  *)
(* The three share no variable; each has a part of its own below.          *)
(***************************************************************************)
EXTENDS ModelCatalog, ProviderGate, CliRuntime,
        FiniteSetTheorems, WellFoundedInduction, TLAPS

-----------------------------------------------------------------------------
(***************************************************************************)
(* Model resolution and the catalog cache for any models, fallbacks, lists *)
(* the service may answer with, freshness windows and clock.               *)
(***************************************************************************)

(* A snapshot's dates are numbers, and it is one of those fetched so far. *)
Dated(c) ==
  c # NoCatalog => /\ c.fetchedAt \in Nat /\ c.window \in Nat
                   /\ c.serial \in Nat /\ c.serial <= sent

CatalogTypes ==
  /\ clock \in Nat /\ sent \in Nat
  /\ Dated(entry) /\ Dated(held)
  /\ lookup.now \in Nat /\ lookup.window \in Nat

(* What has been found too old is not in the cache, and what is on the     *)
(* wire has not been found too old.                                        *)
Forgotten ==
  /\ \A n \in expired : n \in Nat /\ n <= sent
  /\ entry # NoCatalog => entry.serial \notin expired
  /\ lookup.at = "fetching" => sent \notin expired

CatalogInv == CatalogTypes /\ Forgotten

-----------------------------------------------------------------------------
(* Resolution *)

(* A set of numbers that is not empty has a smallest one: the sets of its  *)
(* members up to each member are ordered by inclusion, which is well       *)
(* founded on finite sets.                                                 *)
LEMMA Smallest ==
  ASSUME NEW S, S \subseteq Nat, S # {}
  PROVE  \E i \in S : \A j \in S : i <= j
<1> DEFINE UpTo(i) == {n \in S : n <= i}
           T == {UpTo(i) : i \in S}
<1>1. T \subseteq FiniteSubsetsOf(S) /\ T # {}
  <2>1. ASSUME NEW i \in S
        PROVE  UpTo(i) \in SUBSET S /\ IsFiniteSet(UpTo(i))
    <3>1. UpTo(i) \in SUBSET Nat /\ i \in Nat /\ \A j \in UpTo(i) : j <= i
      OBVIOUS
    <3>2. IsFiniteSet(UpTo(i))
      BY <3>1, FS_BoundedSetOfNaturals
    <3> QED
      BY <3>2
  <2> QED
    BY <2>1 DEF FiniteSubsetsOf
<1>2. PICK t \in T : \A u \in T : ~ (<<u, t>> \in StrictSubsetOrdering(S))
  <2> HIDE DEF T
  <2>1. IsWellFoundedOn(StrictSubsetOrdering(S), FiniteSubsetsOf(S))
    BY FS_StrictSubsetOrderingWellFounded
  <2> QED
    BY <1>1, <2>1, WFMin
<1>3. PICK i \in S : t = UpTo(i)
  BY <1>2
<1>4. ASSUME NEW j \in S, ~ (i <= j)
      PROVE  FALSE
  <2>0. i \in Nat /\ j \in Nat /\ j < i /\ \A k \in S : k \in Nat
    BY <1>4
  <2>1. UpTo(j) \subseteq UpTo(i) /\ i \in UpTo(i) /\ i \notin UpTo(j)
    <3>1. \A k \in S : k <= j => k <= i
      BY <2>0
    <3>2. i <= i /\ ~ (i <= j)
      BY <2>0
    <3> QED
      BY <3>1, <3>2
  <2>2. UpTo(j) \in SUBSET S /\ UpTo(i) \in SUBSET S /\ UpTo(j) \in T
    OBVIOUS
  <2> HIDE DEF UpTo, T
  <2>3. <<UpTo(j), UpTo(i)>> \in StrictSubsetOrdering(S)
    BY <2>1, <2>2 DEF StrictSubsetOrdering
  <2> QED
    BY <1>2, <1>3, <2>2, <2>3
<1> QED
  BY <1>4

(* Without an override, the preferred model comes first and then the       *)
(* fallbacks in their order.                                               *)
LEMMA FirstWanted ==
  ASSUME NEW c
  PROVE  LET r == FirstAvailable(c)
             wanted == Wanted(NoModel)
             found == {i \in DOMAIN wanted : Validated(c, wanted[i])}
         IN /\ r.state \in {"ready", "fallback", "catalog"}
            /\ r.state = "catalog" <=> found = {}
            /\ r.state = "fallback" <=> found # {} /\ 1 \notin found
            /\ found # {} => \E i \in found : r.model = wanted[i] /\ \A j \in found : i <= j
            /\ found # {} => r.model # NoModel
<1> DEFINE r == FirstAvailable(c)
           wanted == Wanted(NoModel)
           found == {i \in DOMAIN wanted : Validated(c, wanted[i])}
           usable == {i \in DOMAIN Fallbacks : Validated(c, Fallbacks[i])}
<1>1. /\ Fallbacks \in Seq(Model) /\ Preferred \in Model /\ NoModel \notin Model
      /\ DOMAIN Fallbacks = 1..Len(Fallbacks) /\ Len(Fallbacks) \in Nat
  BY CatalogAssumption
<1>2. /\ DOMAIN wanted = 1..(Len(Fallbacks) + 1)
      /\ wanted[1] = Preferred
      /\ \A i \in DOMAIN Fallbacks : wanted[i + 1] = Fallbacks[i]
  BY <1>1 DEF Wanted
<1>3. /\ 1 \in found <=> Validated(c, Preferred)
      /\ \A i \in DOMAIN Fallbacks : i + 1 \in found <=> i \in usable
      /\ \A j \in found : j = 1 \/ j - 1 \in usable
      /\ found \subseteq Nat /\ usable \subseteq DOMAIN Fallbacks
  BY <1>1, <1>2
<1>4. CASE Validated(c, Preferred)
  <2>1. r.state = "ready" /\ r.model = Preferred
    BY <1>4 DEF FirstAvailable, Readiness
  <2>2. 1 \in found /\ \A j \in found : 1 <= j
    BY <1>1, <1>2, <1>3, <1>4
  <2> QED
    BY <1>1, <1>2, <2>1, <2>2
<1>5. CASE ~ Validated(c, Preferred) /\ usable = {}
  <2>1. r.state = "catalog"
    BY <1>5 DEF FirstAvailable, Readiness
  <2>2. found = {}
    BY <1>3, <1>5
  <2> QED
    BY <2>1, <2>2
<1>6. CASE ~ Validated(c, Preferred) /\ usable # {}
  <2> DEFINE k == CHOOSE i \in usable : \A j \in usable : i <= j
  <2>1. r.state = "fallback" /\ r.model = Fallbacks[k]
    BY <1>6 DEF FirstAvailable, Readiness
  <2>2. k \in usable /\ \A j \in usable : k <= j
    <3>1. usable \subseteq Nat
      BY <1>1
    <3>2. \E i \in usable : \A j \in usable : i <= j
      BY <1>6, <3>1, Smallest
    <3> QED
      BY <3>2
  <2> HIDE DEF k
  <2>3. k \in 1..Len(Fallbacks) /\ k + 1 \in found /\ wanted[k + 1] = Fallbacks[k]
    BY <1>1, <1>2, <1>3, <2>2
  <2>4. \A j \in found : k + 1 <= j
    <3> SUFFICES ASSUME NEW j \in found PROVE k + 1 <= j
      OBVIOUS
    <3>1. j # 1 /\ j - 1 \in usable /\ j \in Nat
      BY <1>3, <1>6
    <3> QED
      BY <1>1, <2>2, <2>3, <3>1
  <2>5. 1 \notin found
    BY <1>3, <1>6
  <2>6. Fallbacks[k] \in Model
    BY <1>1, <2>3
  <2>7. \E i \in found : r.model = wanted[i] /\ \A j \in found : i <= j
    BY <2>1, <2>3, <2>4
  <2>8. found # {} /\ r.model # NoModel
    BY <1>1, <2>1, <2>3, <2>6
  <2> QED
    BY <2>1, <2>5, <2>7, <2>8
<1> QED
  BY <1>4, <1>5, <1>6

(* ResolutionIsFirstWanted for one override and one state of the provider. *)
Right(override, provider) ==
  LET r == Resolve(override, held, provider)
      wanted == Wanted(override)
      found == {i \in DOMAIN wanted : Validated(held, wanted[i])}
  IN /\ IsReady(r) => provider = "ready" /\ found # {}
                      /\ clock \in held.fetchedAt .. (held.fetchedAt + held.window - 1)
     /\ /\ provider = "ready" /\ found # {}
        /\ clock \in (held.fetchedAt + 1) .. (held.fetchedAt + held.window - 1)
        => IsReady(r)
     /\ IsReady(r) => /\ \E i \in found : r.model = wanted[i] /\ \A j \in found : i <= j
                      /\ ~ IsError(r) /\ ~ NextAction(r)
                      /\ 1 \notin found => Notice(r) = r.model
     /\ Notice(r) # NoModel => IsReady(r) /\ 1 \notin found

(* What is resolved, for every override and every state of the provider. *)
LEMMA Resolution == CatalogInv => ResolutionIsFirstWanted
<1> SUFFICES ASSUME CatalogInv, held # NoCatalog, NEW override \in Override, NEW provider \in Provider
             PROVE  Right(override, provider)
  BY DEF ResolutionIsFirstWanted, Right
<1> DEFINE r == Resolve(override, held, provider)
           wanted == Wanted(override)
           found == {i \in DOMAIN wanted : Validated(held, wanted[i])}
<1> USE DEF Right, IsReady, IsError, NextAction, Notice
<1>1. /\ IsFreshAt(held, clock) <=> clock \in held.fetchedAt .. (held.fetchedAt + held.window - 1)
      /\ clock \in (held.fetchedAt + 1) .. (held.fetchedAt + held.window - 1) => IsFreshAt(held, clock)
  BY DEF IsFreshAt, CatalogInv, CatalogTypes, Dated
<1>2. CASE provider # "ready" \/ ~ IsFreshAt(held, clock)
  <2>1. r.state \in {"no_provider", "unavailable", "authentication", "catalog"}
    BY <1>2 DEF Resolve, ResolveModel, Readiness, Provider
  <2> QED
    BY <1>1, <1>2, <2>1
<1>3. CASE provider = "ready" /\ IsFreshAt(held, clock) /\ override = NoModel
  <2>1. r = FirstAvailable(held)
    BY <1>3 DEF Resolve, ResolveModel
  <2> QED
    BY <1>1, <1>3, <2>1, FirstWanted
<1>4. CASE provider = "ready" /\ IsFreshAt(held, clock) /\ override # NoModel
  <2>1. wanted = <<override>> /\ DOMAIN wanted = {1} /\ wanted[1] = override
    BY <1>4 DEF Wanted
  <2>2. CASE Validated(held, override)
    <3>1. r.state = "ready" /\ r.model = override
      BY <1>4, <2>2 DEF Resolve, ResolveModel, Readiness
    <3>2. found = {1}
      BY <2>1, <2>2
    <3> QED
      BY <1>1, <1>4, <2>1, <3>1, <3>2
  <2>3. CASE ~ Validated(held, override)
    <3>1. r.state = "override"
      BY <1>4, <2>3 DEF Resolve, ResolveModel, Readiness
    <3>2. found = {}
      BY <2>1, <2>3
    <3> QED
      BY <3>1, <3>2
  <2> QED
    BY <2>2, <2>3
<1> QED
  BY <1>2, <1>3, <1>4

-----------------------------------------------------------------------------
(* The cache *)

(* Before the first call there is nothing to be found too old. *)
LEMMA CatalogInitInvariant == CatalogInit => CatalogInv
<1>1. Time \subseteq Nat
  BY CatalogAssumption DEF Time
<1> QED
  BY <1>1 DEF CatalogInit, CatalogInv, CatalogTypes, Forgotten, Dated, NoLookup

(* A snapshot is made of the request that was last sent. *)
LEMMA SnapshotFacts ==
  ASSUME CatalogInv, NEW models
  PROVE  /\ Snapshot(models).fetchedAt \in Nat /\ Snapshot(models).window \in Nat
         /\ Snapshot(models).serial = sent /\ sent \in Nat
BY DEF Snapshot, CatalogInv, CatalogTypes

(* Every step keeps apart what is served and what was found too old. *)
LEMMA StepInvariant == CatalogInv /\ [CatalogNext]_catalogVars => CatalogInv'
<1> SUFFICES ASSUME CatalogInv, [CatalogNext]_catalogVars PROVE CatalogInv'
  OBVIOUS
<1> USE DEF CatalogInv, CatalogTypes, Forgotten, Dated, Returns, NoLookup
<1>0. Windows \subseteq Nat /\ Time \subseteq Nat
  BY CatalogAssumption DEF Time
<1>1. CASE KeyUnreadable
  BY <1>1 DEF KeyUnreadable
<1>2. CASE CacheHit
  BY <1>2 DEF CacheHit, Matches
<1>3. CASE CacheMiss
  <2>1. PICK w \in Windows :
          lookup' = [at |-> "fetching", now |-> clock, window |-> w, caching |-> TRUE]
    BY <1>3 DEF CacheMiss
  <2>2. lookup'.now \in Nat /\ lookup'.window \in Nat
    BY <1>0, <2>1
  <2>3. /\ entry' = NoCatalog /\ sent' = sent + 1 /\ UNCHANGED <<clock, held>>
        /\ expired' = expired \cup FoundExpired
    BY <1>3 DEF CacheMiss
  <2>4. \A n \in FoundExpired : n \in Nat /\ n <= sent
    BY DEF FoundExpired
  <2>5. \A n \in expired' : n \in Nat /\ n <= sent
    BY <2>3, <2>4
  <2> QED
    BY <2>2, <2>3, <2>5
<1>4. CASE FetchCatalog
  <2>1. PICK w \in Windows :
          lookup' = [at |-> "fetching", now |-> clock, window |-> w, caching |-> FALSE]
    BY <1>4 DEF FetchCatalog
  <2>2. lookup'.now \in Nat /\ lookup'.window \in Nat
    BY <1>0, <2>1
  <2>3. sent' = sent + 1 /\ UNCHANGED <<clock, entry, held, expired>>
    BY <1>4 DEF FetchCatalog
  <2> QED
    BY <2>2, <2>3
<1>5. CASE FetchRefused
  BY <1>5 DEF FetchRefused
<1>6. CASE FetchAnswered
  <2>1. /\ lookup.at = "fetching" /\ UNCHANGED <<clock, credential, sent, expired>>
        /\ lookup' = NoLookup
    BY <1>6 DEF FetchAnswered
  <2>2. PICK models : /\ held' = held \/ held' = Snapshot(models)
                      /\ entry' = entry \/ entry' = Snapshot(models)
    BY <1>6 DEF FetchAnswered
  <2> QED
    BY <2>1, <2>2, SnapshotFacts
<1>7. CASE Invalidate
  BY <1>7 DEF Invalidate
<1>8. CASE SetClock \/ ChangeCredential
  BY <1>0, <1>8 DEF SetClock, ChangeCredential
<1>9. CASE UNCHANGED catalogVars
  BY <1>9 DEF catalogVars
<1> QED
  BY <1>1, <1>2, <1>3, <1>4, <1>5, <1>6, <1>7, <1>8, <1>9
     DEF CatalogNext, Call, CatalogAnswer, Environment

(* The invariant holds in every behaviour. *)
LEMMA CatalogInvariant == CatalogSpec => []CatalogInv
BY CatalogInitInvariant, StepInvariant, PTL DEF CatalogSpec

(* Which model is resolved, for any policy, snapshot and instant. *)
THEOREM ResolvesFirstWanted == CatalogSpec => []ResolutionIsFirstWanted
BY CatalogInvariant, Resolution, PTL

(* What the cache hands out is fresh, asked for and never one that was     *)
(* found too old, however the clock is set and the refreshes end.          *)
THEOREM ServesOnlyUsable == CatalogSpec => CacheServesOnlyUsable
<1>1. CatalogInv /\ [CatalogNext]_catalogVars =>
        [ result'.how = "hit" /\ (result' # result \/ held' # held) =>
            /\ held'.serial \notin expired
            /\ credential = "key"
            /\ held'.window = result'.window
            /\ clock \in held'.fetchedAt .. (held'.fetchedAt + result'.window - 1) ]_catalogVars
  <2> SUFFICES ASSUME CatalogInv, [CatalogNext]_catalogVars, result'.how = "hit", result' # result \/ held' # held
               PROVE  /\ held'.serial \notin expired
                      /\ credential = "key"
                      /\ held'.window = result'.window
                      /\ clock \in held'.fetchedAt .. (held'.fetchedAt + result'.window - 1)
    OBVIOUS
  <2>1. CASE CacheHit
    <3>1. PICK w \in Windows : Matches(w) /\ result' = [how |-> "hit", window |-> w]
      BY <2>1 DEF CacheHit
    <3>2. /\ entry # NoCatalog /\ entry.window = w /\ IsFreshAt(entry, clock)
          /\ held' = entry /\ result'.window = w
      BY <2>1, <3>1 DEF CacheHit, Matches
    <3> QED
      BY <2>1, <3>2 DEF CacheHit, CatalogInv, CatalogTypes, Forgotten, Dated, IsFreshAt
  <2>2. CASE ~ CacheHit
    <3>1. UNCHANGED <<result, held>> \/ result'.how # "hit"
      <4>1. CASE KeyUnreadable
        BY <4>1 DEF KeyUnreadable, Returns, CredentialError
      <4>2. CASE CacheMiss \/ FetchCatalog
        BY <4>2 DEF CacheMiss, FetchCatalog, Pending
      <4>3. CASE FetchRefused
        BY <4>3 DEF FetchRefused, Returns, Refused
      <4>4. CASE FetchAnswered
        BY <4>4 DEF FetchAnswered, Returns
      <4>5. CASE Invalidate \/ SetClock \/ ChangeCredential \/ UNCHANGED catalogVars
        BY <4>5 DEF Invalidate, SetClock, ChangeCredential, catalogVars
      <4> QED
        BY <2>2, <4>1, <4>2, <4>3, <4>4, <4>5 DEF CatalogNext, Call, CatalogAnswer, Environment
    <3> QED
      BY <3>1
  <2> QED
    BY <2>1, <2>2
<1> QED
  BY <1>1, CatalogInvariant, PTL DEF CatalogSpec, CacheServesOnlyUsable

-----------------------------------------------------------------------------
(***************************************************************************)
(* The provider gate for any adapters, capabilities, machines, payloads    *)
(* and replies, and any number of changes between its probes.              *)
(***************************************************************************)

Fields == {"at", "path", "version", "said", "hinted", "probed", "asOf", "batch", "sent"}

(* Only the fields an attempt has, and the stages it goes through. *)
GateTypes ==
  /\ att = [f \in Fields |-> att[f]]
  /\ att.at \in {"idle", "detect", "version", "status", "verify", "consent", "invoke", "answer"}
  /\ att.hinted \in BOOLEAN
  /\ changes \in Nat /\ att.asOf \in Nat /\ att.asOf <= changes

PrintedVersion == <<att.path, "version">>
PrintedLogin == <<att.path, "status">>

(* What a tool has shown when the attempt reaches each stage. *)
Proven ==
  adapter \in Cli =>
    /\ att.at \notin {"idle", "detect"} => att.path \in 1..Dir
    /\ att.at \in {"detect", "version"} => att.probed = {}
    /\ att.at = "status" => att.probed = {PrintedVersion} /\ att.version \in {"old", "minimum"}
    /\ att.at \in {"verify", "consent", "invoke", "answer"} =>
         /\ att.probed = {PrintedVersion, PrintedLogin}
         /\ att.version \in {"old", "minimum"}
         /\ att.said = "in" \/ (adapter = Codex /\ att.hinted)
    /\ att.at \in {"consent", "invoke", "answer"} => att.version = "minimum"
    /\ att.asOf = changes =>
         /\ att.at \in {"status", "verify", "consent", "invoke", "answer"} =>
              machine.files[att.path] = att.version
         /\ att.at \in {"verify", "consent", "invoke", "answer"} => SignedIn

(* An attempt that has not ended shows no outcome yet, and a completed one *)
(* has taken its last answer.                                              *)
Settled ==
  /\ att.at # "idle" => outcome = "running"
  /\ answer.taken # <<>> => /\ answer.taken = answer.observations
                            /\ \A o \in Range(answer.taken) : WellFormed(o)
  /\ outcome = "completed" /\ answer.observations # <<>> => answer.taken # <<>>

GateInv == GateTypes /\ Proven /\ InvokedAsProven /\ Settled

-----------------------------------------------------------------------------
(* Ending and moving on *)

(* No attempt is under way: nothing is known. *)
LEMMA NoAttemptFacts ==
  /\ NoAttempt = [f \in Fields |-> NoAttempt[f]]
  /\ NoAttempt.at = "idle" /\ NoAttempt.hinted \in BOOLEAN /\ NoAttempt.probed = {}
  /\ NoAttempt.asOf = 0
BY DEF NoAttempt, Fields

(* A stage later, an attempt knows what it knew. *)
LEMMA GotoFacts ==
  ASSUME GateTypes, NEW at, att' = [att EXCEPT !.at = at]
  PROVE  /\ att' = [f \in Fields |-> att'[f]]
         /\ att'.at = at /\ att'.path = att.path /\ att'.version = att.version
         /\ att'.said = att.said /\ att'.hinted = att.hinted /\ att'.probed = att.probed
         /\ att'.asOf = att.asOf
BY DEF GateTypes, Fields

(* What a tool says is the machine's doing. *)
LEMMA SameLogin ==
  ASSUME UNCHANGED <<adapter, machine>>, att'.path = att.path
  PROVE  SignedIn' = SignedIn
BY DEF SignedIn, Said, Hint, Runs

(* The path found is one of those searched. *)
LEMMA FoundPath ==
  ASSUME NEW files, Find(files).error = "none"
  PROVE  Find(files).path \in 1..Dir
<1>1. Hits(files) # {} /\ Hits(files) \subseteq 1..Dir /\ Find(files).path = First(files)
  BY DEF Find, Hits
<1>2. \E d \in Hits(files) : \A e \in Hits(files) : d <= e
  <2>1. Hits(files) \subseteq Nat
    BY <1>1, GateAssumption
  <2> QED
    BY <1>1, <2>1, Smallest
<1> QED
  BY <1>1, <1>2 DEF First

(* An error, a refusal or the user ends the attempt. *)
LEMMA Ends ==
  ASSUME GateInv, NEW how, how # "completed", Ended(how), UNCHANGED <<environment, history>>
  PROVE  GateInv'
<1>1. att' = NoAttempt /\ outcome' = how /\ UNCHANGED <<adapter, changes, request, answer>>
  BY DEF Ended, environment, history
<1>2. GateTypes'
  BY <1>1, NoAttemptFacts DEF GateInv, GateTypes
<1>3. Proven'
  BY <1>1, NoAttemptFacts DEF Proven
<1>4. InvokedAsProven'
  BY <1>1 DEF GateInv, InvokedAsProven
<1>5. Settled'
  BY <1>1, NoAttemptFacts DEF GateInv, Settled
<1> QED
  BY <1>2, <1>3, <1>4, <1>5 DEF GateInv

(* Whatever only changes the attempt leaves the last request and reply     *)
(* as they are.                                                            *)
LEMMA Continues ==
  ASSUME GateInv, GateTypes', Proven', att.at # "idle", UNCHANGED <<adapter, outcome, history>>
  PROVE  GateInv'
<1>1. UNCHANGED <<request, answer>>
  BY DEF history
<1>2. InvokedAsProven'
  BY <1>1 DEF GateInv, InvokedAsProven
<1>3. Settled'
  BY <1>1 DEF GateInv, Settled
<1> QED
  BY <1>2, <1>3 DEF GateInv

-----------------------------------------------------------------------------
(* The steps *)

(* Before the first attempt nothing was sent. *)
LEMMA GateInitInvariant == Init => GateInv
<1> SUFFICES ASSUME Init PROVE GateInv
  OBVIOUS
<1>1. /\ att = NoAttempt /\ outcome = "none" /\ request = NoRequest /\ answer = NoAnswer
      /\ changes = 0
  BY DEF Init
<1>2. answer.taken = <<>> /\ answer.observations = <<>>
  BY <1>1 DEF NoAnswer
<1> QED
  BY <1>1, <1>2, NoAttemptFacts DEF GateInv, GateTypes, Proven, InvokedAsProven, Settled

(* Detection learns what the tool prints, in this order. *)
LEMMA DetectStep == GateInv /\ Detect => GateInv'
<1> SUFFICES ASSUME GateInv, Detect PROVE GateInv'
  OBVIOUS
<1> USE DEF environment, At
<1>1. CASE DetectEndpoint
  <2>1. CASE machine.key = "key"
    <3>1. /\ att.at = "detect" /\ adapter \in Endpoint /\ att' = [att EXCEPT !.at = "verify"]
          /\ UNCHANGED <<environment, outcome, history>>
      BY <1>1, <2>1 DEF DetectEndpoint, Goto
    <3>2. GateTypes'
      BY <3>1, GotoFacts DEF GateInv, GateTypes
    <3>3. Proven'
      BY <3>1, <3>2, GateAssumption DEF Proven
    <3> QED
      BY <3>1, <3>2, <3>3, Continues
  <2>2. CASE machine.key # "key"
    <3>1. Ended(KeyError("detection")) /\ UNCHANGED <<environment, history>>
      BY <1>1, <2>2 DEF DetectEndpoint
    <3>2. KeyError("detection") # "completed"
      BY DEF KeyError
    <3> QED
      BY <3>1, <3>2, Ends
  <2> QED
    BY <2>1, <2>2
<1>2. CASE DetectFind
  <2> DEFINE found == Find(machine.files)
  <2>1. CASE found.error # "none"
    <3>1. Ended(found.error) /\ UNCHANGED <<environment, history>>
      BY <1>2, <2>1 DEF DetectFind
    <3>2. found.error # "completed"
      BY DEF Find
    <3> HIDE DEF found
    <3> QED
      BY <3>1, <3>2, Ends
  <2>2. CASE found.error = "none"
    <3>1. /\ att.at = "detect" /\ att' = [att EXCEPT !.at = "version", !.path = found.path]
          /\ UNCHANGED <<environment, outcome, history>>
      BY <1>2, <2>2 DEF DetectFind
    <3> HIDE DEF found
    <3>2. /\ att' = [f \in Fields |-> att'[f]] /\ att'.at = "version"
          /\ att'.hinted = att.hinted /\ att'.probed = att.probed
          /\ att'.path = found.path /\ att'.asOf = att.asOf
      BY <3>1 DEF GateInv, GateTypes, Fields
    <3>3. GateTypes'
      BY <3>1, <3>2 DEF GateInv, GateTypes
    <3>4. found.path \in 1..Dir
      BY <2>2, FoundPath DEF found
    <3>5. Proven'
      BY <3>1, <3>2, <3>4 DEF GateInv, Proven
    <3> QED
      BY <3>1, <3>3, <3>5, Continues
  <2> QED
    BY <2>1, <2>2
<1>3. CASE DetectVersion
  <2>1. CASE machine.files[att.path] \notin {"old", "minimum"}
    BY <1>3, <2>1, Ends DEF DetectVersion
  <2>2. CASE machine.files[att.path] \in {"old", "minimum"}
    <3>1. /\ att.at = "version"
          /\ att' = [att EXCEPT !.at = "status", !.version = machine.files[att.path],
                                !.probed = @ \cup {<<att.path, "version">>}, !.asOf = changes]
          /\ UNCHANGED <<environment, outcome, history>>
      BY <1>3, <2>2 DEF DetectVersion
    <3>2. /\ att' = [f \in Fields |-> att'[f]] /\ att'.at = "status" /\ att'.path = att.path
          /\ att'.version = machine.files[att.path] /\ att'.hinted = att.hinted
          /\ att'.probed = att.probed \cup {PrintedVersion} /\ att'.asOf = changes
      BY <3>1 DEF GateInv, GateTypes, Fields, PrintedVersion
    <3>3. PrintedVersion' = PrintedVersion
      BY <3>2 DEF PrintedVersion
    <3>4. GateTypes'
      <4>1. changes' = changes
        BY <3>1
      <4> QED
        BY <3>2, <4>1 DEF GateInv, GateTypes
    <3>5. Proven'
      BY <2>2, <3>1, <3>2, <3>3 DEF GateInv, Proven
    <3> QED
      BY <3>1, <3>4, <3>5, Continues
  <2> QED
    BY <2>1, <2>2
<1>4. CASE DetectStatus
  <2>1. CASE (adapter = Claude /\ Said \notin {"in", "out"}) \/ ~ SignedIn
    BY <1>4, <2>1, Ends DEF DetectStatus
  <2>2. CASE ~ (adapter = Claude /\ Said \notin {"in", "out"}) /\ SignedIn
    <3>1. /\ att.at = "status"
          /\ att' = [att EXCEPT !.at = "verify", !.said = Said, !.hinted = Hint,
                                !.probed = @ \cup {<<att.path, "status">>}]
          /\ UNCHANGED <<environment, outcome, history>>
      BY <1>4, <2>2 DEF DetectStatus
    <3>2. /\ att' = [f \in Fields |-> att'[f]] /\ att'.at = "verify" /\ att'.path = att.path
          /\ att'.version = att.version /\ att'.said = Said /\ att'.hinted = Hint
          /\ att'.probed = att.probed \cup {PrintedLogin} /\ att'.asOf = att.asOf
      BY <3>1 DEF GateInv, GateTypes, Fields, PrintedLogin
    <3>3. PrintedVersion' = PrintedVersion /\ PrintedLogin' = PrintedLogin
      BY <3>2 DEF PrintedVersion, PrintedLogin
    <3>4. Hint \in BOOLEAN
      BY DEF Hint
    <3>5. GateTypes'
      BY <3>1, <3>2, <3>4 DEF GateInv, GateTypes
    <3>6. Said = "in" \/ (adapter = Codex /\ Hint)
      BY <2>2 DEF SignedIn, Hint
    <3>7. SignedIn'
      BY <2>2, <3>1, <3>2, SameLogin
    <3>8. Proven'
      BY <3>1, <3>2, <3>3, <3>6, <3>7 DEF GateInv, Proven
    <3> QED
      BY <3>1, <3>5, <3>8, Continues
  <2> QED
    BY <2>1, <2>2
<1>5. CASE ToolFails
  <2>1. PICK why \in RunError(machine.files[att.path]) : Ended(why) /\ UNCHANGED <<environment, history>>
    BY <1>5 DEF ToolFails
  <2>2. why # "completed"
    BY <2>1 DEF RunError
  <2> QED
    BY <2>1, <2>2, Ends
<1>6. CASE Verify
  <2>1. CASE att.version = "old" \/ Missing(Capabilities[adapter], TextOnly) # {}
    BY <1>6, <2>1, Ends DEF Verify
  <2>2. CASE att.version # "old" /\ Missing(Capabilities[adapter], TextOnly) = {}
    <3>1. /\ att.at = "verify" /\ att' = [att EXCEPT !.at = "consent"]
          /\ UNCHANGED <<environment, outcome, history>>
      BY <1>6, <2>2 DEF Verify, Goto
    <3>2. /\ att' = [f \in Fields |-> att'[f]] /\ att'.at = "consent" /\ att'.path = att.path
          /\ att'.version = att.version /\ att'.said = att.said /\ att'.hinted = att.hinted
          /\ att'.probed = att.probed
          /\ att'.asOf = att.asOf
      BY <3>1, GotoFacts DEF GateInv
    <3>3. GateTypes' /\ Proven'
      BY <2>2, <3>1, <3>2, SameLogin DEF GateInv, GateTypes, Proven, PrintedVersion, PrintedLogin
    <3> QED
      BY <3>1, <3>3, Continues
  <2> QED
    BY <2>1, <2>2
<1> QED
  BY <1>1, <1>2, <1>3, <1>4, <1>5, <1>6 DEF Detect

(* A request is the proven one, and a reply that is not taken ends it. *)
LEMMA SendStep == GateInv /\ Send => GateInv'
<1> SUFFICES ASSUME GateInv, Send PROVE GateInv'
  OBVIOUS
<1> USE DEF environment, At
<1>1. CASE Invoke
  <2>1. /\ att.at = "invoke" /\ ~ (Image /\ Images \notin Capabilities[adapter])
        /\ att' = [att EXCEPT !.at = "answer", !.sent = @ + 1]
        /\ request' = Requested(att.path, Image)
        /\ UNCHANGED <<environment, outcome, answer>>
    BY <1>1 DEF Invoke
  <2>2. /\ att' = [f \in Fields |-> att'[f]] /\ att'.at = "answer" /\ att'.path = att.path
        /\ att'.version = att.version /\ att'.said = att.said /\ att'.hinted = att.hinted
        /\ att'.probed = att.probed
        /\ att'.asOf = att.asOf
    BY <2>1 DEF GateInv, GateTypes, Fields
  <2>3. /\ request'.path = att.path /\ request'.version = att.version
        /\ request'.said = att.said /\ request'.hinted = att.hinted
        /\ request'.probed = att.probed /\ request'.image = Image
        /\ request'.untouched = (att.asOf = changes)
        /\ request'.file = (IF att.path \in 1..Dir THEN machine.files[att.path] ELSE "missing")
        /\ request'.signedIn = (adapter \in Cli /\ SignedIn)
    BY <2>1 DEF Requested
  <2>4. GateTypes' /\ Proven'
    BY <2>1, <2>2, SameLogin DEF GateInv, GateTypes, Proven, PrintedVersion, PrintedLogin
  <2>5. InvokedAsProven'
    <3>1. request'.image => Images \in Capabilities[adapter]
      BY <2>1, <2>3
    <3>2. adapter \in Cli =>
            /\ request'.probed = {<<request'.path, "version">>, <<request'.path, "status">>}
            /\ request'.version = "minimum"
            /\ request'.said = "in" \/ (adapter = Codex /\ request'.hinted)
            /\ request'.untouched => request'.file = "minimum" /\ request'.signedIn
      BY <2>1, <2>3 DEF GateInv, Proven, PrintedVersion, PrintedLogin
    <3>3. \A p \in {<<request'.path, "version">>, <<request'.path, "status">>} : p[1] = request'.path
      OBVIOUS
    <3> QED
      BY <2>1, <3>1, <3>2, <3>3 DEF InvokedAsProven
  <2>6. Settled'
    BY <2>1 DEF GateInv, Settled
  <2> QED
    BY <2>4, <2>5, <2>6 DEF GateInv
<1>2. CASE InvokeRefused
  <2>1. PICK how \in {"capability", KeyError("invocation")} : Ended(how) /\ UNCHANGED <<environment, history>>
    BY <1>2 DEF InvokeRefused
  <2>2. how # "completed"
    BY <2>1 DEF KeyError
  <2> QED
    BY <2>1, <2>2, Ends
<1>3. CASE Answer
  <2>1. PICK reply \in Replies :
          /\ answer' = [form |-> reply.form, observations |-> reply.observations,
                        workflow |-> reply.workflow,
                        taken |-> IF Verdict(reply) = "ok" THEN reply.observations ELSE <<>>]
          /\ CASE Verdict(reply) # "ok" -> Ended(Verdict(reply))
               [] Verdict(reply) = "ok" /\ att.sent < Len(att.batch) -> Goto("invoke")
               [] OTHER -> Ended("completed")
    BY <1>3 DEF Answer
  <2>2. att.at = "answer" /\ UNCHANGED <<environment, request>>
    BY <1>3 DEF Answer
  <2>3. /\ answer'.observations = reply.observations
        /\ Verdict(reply) = "ok" => answer'.taken = reply.observations
        /\ Verdict(reply) # "ok" => answer'.taken = <<>>
    BY <2>1
  <2>4. InvokedAsProven'
    BY <2>2 DEF GateInv, InvokedAsProven
  <2>5. Verdict(reply) = "ok" => \A o \in Range(reply.observations) : WellFormed(o)
    BY DEF Verdict, Normalizes
  <2>6. CASE Verdict(reply) # "ok"
    <3>1. att' = NoAttempt /\ outcome' = Verdict(reply) /\ Verdict(reply) # "completed"
      BY <2>1, <2>6 DEF Ended, Verdict
    <3> QED
      BY <2>2, <2>3, <2>4, <2>6, <3>1, NoAttemptFacts DEF GateInv, GateTypes, Proven, Settled
  <2>7. CASE Verdict(reply) = "ok" /\ att.sent < Len(att.batch)
    <3>1. att' = [att EXCEPT !.at = "invoke"] /\ outcome' = outcome
      BY <2>1, <2>7 DEF Goto
    <3>2. /\ att' = [f \in Fields |-> att'[f]] /\ att'.at = "invoke" /\ att'.path = att.path
          /\ att'.version = att.version /\ att'.said = att.said /\ att'.hinted = att.hinted
          /\ att'.probed = att.probed
          /\ att'.asOf = att.asOf
      BY <3>1, GotoFacts DEF GateInv
    <3>3. GateTypes' /\ Proven'
      BY <2>2, <3>2, SameLogin DEF GateInv, GateTypes, Proven, PrintedVersion, PrintedLogin
    <3>4. Settled'
      BY <2>2, <2>3, <2>5, <2>7, <3>1 DEF GateInv, Settled
    <3> QED
      BY <2>4, <3>3, <3>4 DEF GateInv
  <2>8. CASE Verdict(reply) = "ok" /\ ~ (att.sent < Len(att.batch))
    <3>1. att' = NoAttempt /\ outcome' = "completed"
      BY <2>1, <2>8 DEF Ended
    <3>2. GateTypes' /\ Proven'
      BY <2>2, <3>1, NoAttemptFacts DEF GateInv, GateTypes, Proven
    <3>3. Settled'
      BY <2>3, <2>5, <2>8, <3>1, NoAttemptFacts DEF Settled
    <3> QED
      BY <2>4, <3>2, <3>3 DEF GateInv
  <2> QED
    BY <2>6, <2>7, <2>8
<1> QED
  BY <1>1, <1>2, <1>3 DEF Send

(* Starting, refusing, consenting and a changing machine. *)
LEMMA OtherStep ==
  GateInv /\ (Start \/ ModelRefused \/ User \/ MachineChanges \/ UNCHANGED vars) => GateInv'
<1> SUFFICES ASSUME GateInv, Start \/ ModelRefused \/ User \/ MachineChanges \/ UNCHANGED vars
             PROVE  GateInv'
  OBVIOUS
<1> USE DEF environment, At
<1>1. CASE Start
  <2>1. PICK batch \in Payloads : att' = [NoAttempt EXCEPT !.at = "detect", !.batch = batch]
    BY <1>1 DEF Start
  <2>2. /\ outcome' = "running" /\ request' = NoRequest /\ answer' = NoAnswer
        /\ UNCHANGED environment
    BY <1>1 DEF Start
  <2>3. /\ att' = [f \in Fields |-> att'[f]] /\ att'.at = "detect"
        /\ att'.probed = {} /\ att'.hinted \in BOOLEAN /\ att'.asOf = 0
    BY <2>1, NoAttemptFacts DEF Fields
  <2>4. answer'.taken = <<>> /\ answer'.observations = <<>>
    BY <2>2 DEF NoAnswer
  <2>5. InvokedAsProven'
    BY <2>2 DEF InvokedAsProven, NoRequest
  <2> QED
    BY <2>2, <2>3, <2>4, <2>5 DEF GateInv, GateTypes, Proven, Settled
<1>2. CASE ModelRefused \/ Decline
  <2>1. PICK how \in {"model_unavailable", "declined"} : Ended(how) /\ UNCHANGED <<environment, history>>
    BY <1>2 DEF ModelRefused, Decline
  <2> QED
    BY <2>1, Ends
<1>3. CASE Consent
  <2>1. /\ att.at = "consent" /\ att' = [att EXCEPT !.at = "invoke"]
        /\ UNCHANGED <<environment, outcome, history>>
    BY <1>3 DEF Consent, Goto
  <2>2. /\ att' = [f \in Fields |-> att'[f]] /\ att'.at = "invoke" /\ att'.path = att.path
        /\ att'.version = att.version /\ att'.said = att.said /\ att'.hinted = att.hinted
        /\ att'.probed = att.probed
        /\ att'.asOf = att.asOf
    BY <2>1, GotoFacts DEF GateInv
  <2>3. GateTypes' /\ Proven'
    BY <2>1, <2>2, SameLogin DEF GateInv, GateTypes, Proven, PrintedVersion, PrintedLogin
  <2> QED
    BY <2>1, <2>3, Continues
<1>4. CASE MachineChanges
  <2>1. changes' = changes + 1 /\ UNCHANGED <<adapter, att, outcome, request, answer>>
    BY <1>4 DEF MachineChanges, history
  <2>2. GateTypes' /\ att'.asOf # changes'
    BY <2>1 DEF GateInv, GateTypes
  <2> QED
    BY <2>1, <2>2 DEF GateInv, Proven, InvokedAsProven, Settled, PrintedVersion, PrintedLogin
<1>5. CASE UNCHANGED vars
  <2>1. UNCHANGED <<adapter, machine, changes, att, outcome, request, answer>>
    BY <1>5 DEF vars, history
  <2> QED
    BY <2>1, SameLogin DEF GateInv, GateTypes, Proven, InvokedAsProven, Settled, PrintedVersion, PrintedLogin
<1> QED
  BY <1>1, <1>2, <1>3, <1>4, <1>5 DEF User

(* The invariant holds in every behaviour. *)
LEMMA GateInvariant == Spec => []GateInv
<1>1. GateInv /\ [Next]_vars => GateInv'
  BY DetectStep, SendStep, OtherStep DEF Next
<1> QED
  BY GateInitInvariant, <1>1, PTL DEF Spec

(* Whatever the machine does meanwhile, the path that is run printed, in   *)
(* the same attempt, a supported version and a login, which the file there *)
(* still has unless the machine changed since; and an image goes to no     *)
(* adapter that takes none.                                                *)
THEOREM InvocationProven == Spec => []InvokedAsProven
<1>1. GateInv => InvokedAsProven
  BY DEF GateInv
<1> QED
  BY <1>1, GateInvariant, PTL

(* No reply is taken in part, and none that is blank or out of range.      *)
THEOREM TakenWhole == Spec => []TakenWholeOrNotAtAll
<1>1. GateInv => TakenWholeOrNotAtAll
  BY DEF GateInv, Settled, TakenWholeOrNotAtAll
<1> QED
  BY <1>1, GateInvariant, PTL

-----------------------------------------------------------------------------
(* What a failure says *)

(* The machine is one that its adapter may run on, and only a tool is      *)
(* probed.                                                                 *)
Equipped ==
  /\ adapter \in Cli \cup Endpoint /\ machine \in Machine(adapter)
  /\ att.at \in {"version", "status"} => adapter \in Cli

(* What FailureNamesItsCause says of a failure how of the attempt. *)
Names(how) ==
  /\ how = "not_installed" =>
       IF At("detect") THEN Probe(machine.files).status # "detected"
       ELSE machine.files[att.path] \in {"missing", "dir"}
  /\ how = "detection" /\ At("detect") /\ adapter \in Cli =>
       Probe(machine.files).status = "unavailable"
  /\ how = "not_authenticated" =>
       IF adapter \in Cli THEN machine.login # "in" \/ machine.files[att.path] = "plain"
       ELSE machine.key \in {"absent", "blank"}
  /\ how = "too_old" => att.version = "old"

(* An attempt that goes on to probe is that of a tool. *)
LEMMA ProbesAreOfTools ==
  ASSUME GateTypes, Equipped, Next
  PROVE  att'.at \in {"version", "status"} => adapter' \in Cli
<1> USE DEF At
<1>1. CASE att' = NoAttempt
  BY <1>1, NoAttemptFacts
<1>2. CASE UNCHANGED <<adapter, att>>
  BY <1>2 DEF Equipped
<1>3. CASE Start \/ \E how : Ended(how)
  <2>1. CASE Start
    <3>1. PICK batch : att' = [NoAttempt EXCEPT !.at = "detect", !.batch = batch]
      BY <2>1 DEF Start
    <3>2. att'.at = "detect"
      BY <3>1, NoAttemptFacts DEF Fields
    <3> QED
      BY <3>2
  <2>2. CASE \E how : Ended(how)
    BY <1>1, <2>2 DEF Ended
  <2> QED
    BY <1>3, <2>1, <2>2
<1>4. CASE \E at : at \notin {"version", "status"} /\ Goto(at)
  BY <1>4, GotoFacts DEF Goto
<1>5. CASE DetectFind
  BY <1>5, <1>3 DEF DetectFind, environment
<1>6. CASE DetectVersion
  BY <1>6, <1>3 DEF DetectVersion, environment, Equipped
<1>7. CASE DetectStatus
  <2>1. CASE \E how : Ended(how)
    BY <1>3, <2>1
  <2>2. CASE att' = [att EXCEPT !.at = "verify", !.said = Said, !.hinted = Hint,
                                !.probed = @ \cup {<<att.path, "status">>}]
    <3>1. att'.at = "verify"
      BY <2>2 DEF GateTypes, Fields
    <3> QED
      BY <3>1
  <2> QED
    BY <1>7, <2>1, <2>2 DEF DetectStatus
<1>8. CASE Invoke
  <2>1. att' = [att EXCEPT !.at = "answer", !.sent = @ + 1]
    BY <1>8 DEF Invoke
  <2>2. att'.at = "answer"
    BY <2>1 DEF GateTypes, Fields
  <2> QED
    BY <2>2
<1>9. CASE DetectEndpoint \/ ToolFails \/ Verify \/ ModelRefused \/ User \/ InvokeRefused
  <2>1. (\E how : Ended(how)) \/ Goto("verify") \/ Goto("consent") \/ Goto("invoke")
    BY <1>9 DEF DetectEndpoint, ToolFails, Verify, ModelRefused, User, Consent, Decline, InvokeRefused
  <2> QED
    BY <1>3, <1>4, <2>1
<1>10. CASE Answer
  <2>1. (\E how : Ended(how)) \/ Goto("invoke")
    BY <1>10 DEF Answer
  <2> QED
    BY <1>3, <1>4, <2>1
<1>11. CASE MachineChanges
  BY <1>2, <1>11 DEF MachineChanges
<1> QED
  BY <1>3, <1>5, <1>6, <1>7, <1>8, <1>9, <1>10, <1>11 DEF Next, Detect, Send

(* An adapter stays on a machine of its kind, whatever changes there. *)
LEMMA EquippedAlways == Spec => []Equipped
<1>1. Init => Equipped
  BY NoAttemptFacts DEF Init, Equipped
<1>2. GateInv /\ Equipped /\ [Next]_vars => Equipped'
  <2> SUFFICES ASSUME GateInv, Equipped, [Next]_vars PROVE Equipped'
    OBVIOUS
  <2>1. CASE MachineChanges
    <3>1. PICK part \in DOMAIN machine : \E value \in Parts(adapter)[part] :
             machine' = [machine EXCEPT ![part] = value]
      BY <2>1 DEF MachineChanges
    <3>2. PICK value \in Parts(adapter)[part] : machine' = [machine EXCEPT ![part] = value]
      BY <3>1
    <3>3. UNCHANGED <<adapter, att>>
      BY <2>1 DEF MachineChanges
    <3>4. part \in {"files", "login", "zero", "hint", "key"}
      BY DEF Equipped, Machine
    <3>5. machine' \in Machine(adapter)
      BY <3>2, <3>4 DEF Equipped, Machine
    <3> QED
      BY <3>3, <3>5 DEF Equipped
  <2>2. CASE Next /\ UNCHANGED environment
    <3>1. att'.at \in {"version", "status"} => adapter' \in Cli
      BY <2>2, ProbesAreOfTools DEF GateInv
    <3> QED
      BY <2>2, <3>1 DEF environment, Equipped
  <2>3. CASE UNCHANGED vars
    BY <2>3 DEF vars, environment, Equipped
  <2>4. Next => MachineChanges \/ UNCHANGED environment
    BY DEF Next, Start, Detect, DetectEndpoint, DetectFind, DetectVersion, DetectStatus, ToolFails,
           Verify, ModelRefused, User, Consent, Decline, Send, Invoke, InvokeRefused, Answer,
           environment
  <2> QED
    BY <2>1, <2>2, <2>3, <2>4
<1> QED
  BY <1>1, <1>2, GateInvariant, PTL DEF Spec

(* An unreadable key is reported as a failure, an absent one as absent. *)
LEMMA KeyErrorNames ==
  ASSUME Equipped, adapter \in Endpoint, machine.key # "key", NEW failure, failure \notin {"not_installed", "too_old"},
         failure # "not_authenticated"
  PROVE  Names(KeyError(failure))
<1>1. adapter \notin Cli
  BY GateAssumption
<1>2. machine.key \in {"absent", "blank", "partial", "failing"}
  BY <1>1 DEF Equipped, Machine, Parts
<1> QED
  BY <1>1, <1>2 DEF KeyError, Names

(* Each step that ends an attempt names its cause. *)
LEMMA DetectNames == Equipped /\ Detect /\ outcome' # outcome => Names(outcome')
<1> SUFFICES ASSUME Equipped, Detect, outcome' # outcome PROVE Names(outcome')
  OBVIOUS
<1> USE DEF At
<1>1. CASE DetectEndpoint
  <2>1. machine.key # "key" /\ adapter \in Endpoint /\ outcome' = KeyError("detection")
    BY <1>1 DEF DetectEndpoint, Goto, Ended
  <2> QED
    BY <2>1, KeyErrorNames
<1>2. CASE DetectFind
  <2> DEFINE found == Find(machine.files)
  <2>1. found.error # "none" /\ outcome' = found.error /\ att.at = "detect"
    BY <1>2 DEF DetectFind, Ended
  <2>2. CASE Hits(machine.files) = {}
    <3>1. found.error = "not_installed" /\ Probe(machine.files).status # "detected"
      BY <2>2 DEF Find, Probe
    <3> QED
      BY <2>1, <3>1 DEF Names
  <2>3. CASE Hits(machine.files) # {}
    <3>1. machine.files[First(machine.files)] = "broken"
      BY <2>1, <2>3 DEF Find
    <3>2. found.error = "detection" /\ Probe(machine.files).status = "unavailable"
      BY <2>3, <3>1 DEF Find, Probe
    <3> QED
      BY <2>1, <3>2 DEF Names
  <2> QED
    BY <2>2, <2>3
<1>3. CASE DetectVersion
  <2>1. outcome' = "version_unavailable"
    BY <1>3 DEF DetectVersion, Ended
  <2> QED
    BY <2>1 DEF Names
<1>4. CASE DetectStatus
  <2>1. /\ att.at = "status"
        /\ Runs \/ machine.files[att.path] = "plain"
        /\ outcome' = "detection" \/ (outcome' = "not_authenticated" /\ ~ SignedIn)
    BY <1>4 DEF DetectStatus, Ended
  <2>2. ~ SignedIn => machine.login # "in" \/ machine.files[att.path] = "plain"
    BY <2>1 DEF SignedIn, Said
  <2>3. outcome' = "not_authenticated" => Names(outcome')
    BY <2>1, <2>2 DEF Names, Equipped
  <2> QED
    BY <2>1, <2>3 DEF Names
<1>5. CASE ToolFails
  <2>1. /\ att.at \in {"version", "status", "answer"}
        /\ outcome' \in RunError(machine.files[att.path])
    BY <1>5 DEF ToolFails, Ended
  <2>2. outcome' = "not_installed" => machine.files[att.path] \in {"missing", "dir"}
    BY <2>1 DEF RunError
  <2>3. outcome' \in {"not_installed", "invocation", "timed_out"}
    BY <2>1 DEF RunError
  <2> QED
    BY <2>1, <2>2, <2>3 DEF Names
<1>6. CASE Verify
  <2>1. outcome' = "capability" \/ (outcome' = "too_old" /\ att.version = "old")
    BY <1>6 DEF Verify, Ended, Goto
  <2> QED
    BY <2>1 DEF Names
<1> QED
  BY <1>1, <1>2, <1>3, <1>4, <1>5, <1>6 DEF Detect

LEMMA SendNames == Equipped /\ Send /\ outcome' # outcome => Names(outcome')
<1> SUFFICES ASSUME Equipped, Send, outcome' # outcome PROVE Names(outcome')
  OBVIOUS
<1>1. ~ Invoke
  BY DEF Invoke
<1>2. CASE InvokeRefused
  <2>1. CASE outcome' = "capability"
    BY <2>1 DEF Names
  <2>2. CASE outcome' # "capability"
    <3>1. adapter \in Endpoint /\ machine.key # "key" /\ outcome' = KeyError("invocation")
      BY <1>2, <2>2 DEF InvokeRefused, Ended
    <3> QED
      BY <3>1, KeyErrorNames
  <2> QED
    BY <2>1, <2>2
<1>3. CASE Answer
  <2>1. PICK reply \in Replies :
          CASE Verdict(reply) # "ok" -> Ended(Verdict(reply))
            [] Verdict(reply) = "ok" /\ att.sent < Len(att.batch) -> Goto("invoke")
            [] OTHER -> Ended("completed")
    BY <1>3 DEF Answer
  <2>2. outcome' \in {Verdict(reply), "completed"}
    BY <2>1 DEF Ended, Goto
  <2>3. Verdict(reply) \in {"network", "rate_limited", "timed_out", "invocation",
                            "malformed_output", "ok"}
    BY DEF Verdict
  <2> QED
    BY <2>2, <2>3 DEF Names
<1> QED
  BY <1>1, <1>2, <1>3 DEF Send

(* A failure names its cause at the instant it is reported, on a machine   *)
(* that changes between any two probes.                                    *)
THEOREM FailuresNameTheirCauses == Spec => FailureNamesItsCause
<1>1. Equipped /\ Next /\ att.at # "idle" /\ outcome' # outcome => Names(outcome')
  <2> SUFFICES ASSUME Equipped, Next, att.at # "idle", outcome' # outcome PROVE Names(outcome')
    OBVIOUS
  <2>1. CASE Start
    BY <2>1 DEF Start, At
  <2>2. CASE ModelRefused \/ User
    <3>1. outcome' \in {"model_unavailable", "declined"}
      BY <2>2 DEF ModelRefused, User, Consent, Decline, Goto, Ended
    <3> QED
      BY <3>1 DEF Names
  <2>3. CASE MachineChanges
    BY <2>3 DEF MachineChanges
  <2> QED
    BY <2>1, <2>2, <2>3, DetectNames, SendNames DEF Next
<1>2. Equipped /\ [Next]_vars =>
        [ att.at # "idle" /\ outcome' # outcome => Names(outcome') ]_vars
  BY <1>1
<1> QED
  BY <1>2, EquippedAlways, PTL DEF Spec, FailureNamesItsCause, Names

-----------------------------------------------------------------------------
(***************************************************************************)
(* What one CliRuntime::run guarantees for any limit, any capacity of the  *)
(* pipes and any amount of output.                                         *)
(***************************************************************************)

RuntimeTypes ==
  /\ run \in Result \cup {"check", "try", "time", "wait", "join", "classify"}
  /\ timedOut \in BOOLEAN /\ late \in BOOLEAN /\ exceeded \in BOOLEAN
  /\ child \in {"running", "exited", "failed", "killed"}
  /\ descendant \in {"none", "grouped", "escaped", "ended"}
  /\ written \in [Stream -> Nat] /\ output \in [Stream -> Nat]
  /\ reader \in [Stream -> {"reading", "done", "failed"}]
  /\ writer \in {"writing", "done", "failed"}

(* A reader has retained nothing that was not written.  One that stopped   *)
(* without an error has read all there will ever be, or has flagged that   *)
(* its stream is longer than the limit.                                    *)
ReadersAreHonest ==
  /\ \A s \in Stream : output[s] <= written[s]
  /\ exceeded => \E s \in Stream : written[s] > Limit
  /\ \A s \in Stream : reader[s] = "done" => exceeded \/ output[s] = written[s]

(* What the caller knows where it stands: the leader is gone when the      *)
(* threads are joined, and the readers are done when the result is         *)
(* classified.                                                             *)
CallerKnows ==
  /\ run \in {"join", "classify"} => child # "running"
  /\ run \in {"classify", "ok", "output"} => \A s \in Stream : reader[s] = "done"
  /\ timedOut => late

RuntimeInv == RuntimeTypes /\ ReadersAreHonest /\ CallerKnows /\ OkIsComplete /\ BlameIsJustified

-----------------------------------------------------------------------------

(* The counts are numbers, and there are two streams. *)
LEMMA Arithmetic ==
  ASSUME RuntimeTypes
  PROVE  /\ \A s \in Stream : output[s] \in Nat /\ written[s] \in Nat
         /\ Limit \in Nat
         /\ Stream = {"stdout", "stderr"}
BY RuntimeAssumption DEF RuntimeTypes, Stream

LEMMA RuntimeInitInvariant == RuntimeInit => RuntimeInv
<1> SUFFICES ASSUME RuntimeInit PROVE RuntimeInv
  OBVIOUS
<1>1. RuntimeTypes
  BY DEF RuntimeInit, RuntimeTypes, Result
<1>2. ReadersAreHonest /\ CallerKnows
  BY DEF RuntimeInit, ReadersAreHonest, CallerKnows
<1>3. OkIsComplete /\ BlameIsJustified
  BY DEF RuntimeInit, OkIsComplete, BlameIsJustified
<1> QED
  BY <1>1, <1>2, <1>3 DEF RuntimeInv

(* The tool, its descendants and the clock disturb nothing: a reader that  *)
(* is done sees no more output.                                            *)
LEMMA ToolStep ==
  ASSUME RuntimeInv,
         \/ \E s \in Stream : Write(s)
         \/ \E how \in {"exited", "failed"} : Exit(how)
         \/ \E d \in Descendants : StartDescendant(d)
         \/ DescendantEnds \/ DeadlinePasses
  PROVE  RuntimeInv'
<1> USE Arithmetic DEF RuntimeInv, caller, threads
<1>1. ASSUME NEW s \in Stream, Write(s) PROVE RuntimeInv'
  <2>1. /\ reader[s] = "reading" /\ written' = [written EXCEPT ![s] = @ + 1]
        /\ UNCHANGED <<run, timedOut, late, child, descendant, output, reader, exceeded, writer>>
    BY <1>1 DEF Write
  <2>2. written'[s] = written[s] + 1 /\ \A t \in Stream : t # s => written'[t] = written[t]
    BY <2>1 DEF RuntimeTypes
  <2>3. RuntimeTypes'
    BY <2>1 DEF RuntimeTypes
  <2>4. ReadersAreHonest'
    BY <2>1, <2>2 DEF ReadersAreHonest
  <2>5. CallerKnows'
    BY <2>1 DEF CallerKnows
  <2>6. OkIsComplete'
    BY <2>1, <2>2 DEF OkIsComplete, CallerKnows, Retained
  <2>7. BlameIsJustified'
    BY <2>1, <2>2 DEF BlameIsJustified
  <2> QED
    BY <2>3, <2>4, <2>5, <2>6, <2>7
<1>2. ASSUME NEW how \in {"exited", "failed"}, Exit(how) PROVE RuntimeInv'
  <2>1. /\ child = "running" /\ child' = how
        /\ UNCHANGED <<run, timedOut, late, descendant, written, output, reader, exceeded, writer>>
    BY <1>2 DEF Exit
  <2>2. run # "ok"
    BY <2>1 DEF OkIsComplete
  <2>3. RuntimeTypes' /\ ReadersAreHonest' /\ CallerKnows'
    BY <2>1 DEF RuntimeTypes, ReadersAreHonest, CallerKnows
  <2>4. OkIsComplete' /\ BlameIsJustified'
    BY <2>1, <2>2 DEF OkIsComplete, BlameIsJustified
  <2> QED
    BY <2>3, <2>4
<1>3. ASSUME NEW d \in Descendants, StartDescendant(d) PROVE RuntimeInv'
  <2>1. /\ child = "running" /\ descendant' = d /\ d \in {"grouped", "escaped"}
        /\ UNCHANGED <<run, timedOut, late, child, written, output, reader, exceeded, writer>>
    BY <1>3, RuntimeAssumption DEF StartDescendant
  <2>2. RuntimeTypes' /\ ReadersAreHonest' /\ CallerKnows'
    BY <2>1 DEF RuntimeTypes, ReadersAreHonest, CallerKnows
  <2>3. OkIsComplete' /\ BlameIsJustified'
    BY <2>1 DEF OkIsComplete, BlameIsJustified, Retained
  <2> QED
    BY <2>2, <2>3
<1>4. CASE DescendantEnds
  <2>1. /\ descendant' = "ended"
        /\ UNCHANGED <<run, timedOut, late, child, written, output, reader, exceeded, writer>>
    BY <1>4 DEF DescendantEnds
  <2>2. RuntimeTypes' /\ ReadersAreHonest' /\ CallerKnows'
    BY <2>1 DEF RuntimeTypes, ReadersAreHonest, CallerKnows
  <2>3. OkIsComplete' /\ BlameIsJustified'
    BY <2>1 DEF OkIsComplete, BlameIsJustified, Retained
  <2> QED
    BY <2>2, <2>3
<1>5. CASE DeadlinePasses
  <2>1. /\ late' = TRUE
        /\ UNCHANGED <<run, timedOut, child, descendant, written, output, reader, exceeded, writer>>
    BY <1>5 DEF DeadlinePasses
  <2>2. RuntimeTypes' /\ ReadersAreHonest' /\ CallerKnows'
    BY <2>1 DEF RuntimeTypes, ReadersAreHonest, CallerKnows
  <2>3. OkIsComplete' /\ BlameIsJustified'
    BY <2>1 DEF OkIsComplete, BlameIsJustified, Retained
  <2> QED
    BY <2>2, <2>3
<1> QED
  BY <1>1, <1>2, <1>3, <1>4, <1>5

(* A reader stays honest, and a step of it does not undo what the caller   *)
(* has seen: every reader was done when the result was accepted.           *)
LEMMA ThreadStep ==
  ASSUME RuntimeInv,
         (\E s \in Stream : Thread(s) \/ ReadErr(s)) \/ InputTaken \/ InputRefused
  PROVE  RuntimeInv'
<1> USE Arithmetic DEF RuntimeInv, caller, tool
<1>1. ASSUME NEW s \in Stream, Read(s) PROVE RuntimeInv'
  <2>1. PICK n \in 1 .. (written[s] - output[s]) : output' = [output EXCEPT ![s] = @ + n]
    BY <1>1 DEF Read
  <2>2. /\ reader[s] = "reading"
        /\ UNCHANGED <<run, timedOut, late, child, descendant, written, reader, exceeded, writer>>
    BY <1>1 DEF Read
  <2>3. /\ output'[s] = output[s] + n /\ \A t \in Stream : t # s => output'[t] = output[t]
        /\ n \in Nat /\ output'[s] <= written[s]
    BY <2>1 DEF RuntimeTypes, ReadersAreHonest
  <2>4. RuntimeTypes'
    BY <2>1, <2>2, <2>3 DEF RuntimeTypes
  <2>5. ReadersAreHonest'
    BY <2>2, <2>3 DEF ReadersAreHonest
  <2>6. CallerKnows' /\ run # "ok"
    BY <2>2 DEF CallerKnows
  <2>7. OkIsComplete' /\ BlameIsJustified'
    BY <2>2, <2>6 DEF OkIsComplete, BlameIsJustified
  <2> QED
    BY <2>4, <2>5, <2>6, <2>7
<1>2. ASSUME NEW s \in Stream, ReadProbe(s) \/ EndOfFile(s) \/ ReadErr(s) PROVE RuntimeInv'
  <2>1. /\ reader[s] = "reading"
        /\ UNCHANGED <<run, timedOut, late, child, descendant, written, output, writer>>
    BY <1>2 DEF ReadProbe, EndOfFile, ReadErr
  <2>2. PICK r \in {"done", "failed"} : reader' = [reader EXCEPT ![s] = r]
    BY <1>2 DEF ReadProbe, EndOfFile, ReadErr
  <2>5. reader'[s] = r /\ \A t \in Stream : t # s => reader'[t] = reader[t]
    BY <2>2 DEF RuntimeTypes
  <2>3. /\ exceeded' \in BOOLEAN /\ (exceeded => exceeded')
        /\ exceeded' => exceeded \/ written[s] > Limit
        /\ r = "done" => exceeded' \/ output[s] = written[s]
    <3>1. CASE ReadProbe(s)
      BY <3>1 DEF ReadProbe
    <3>2. CASE EndOfFile(s)
      BY <3>2 DEF EndOfFile, RuntimeTypes
    <3>3. CASE ReadErr(s)
      <4>1. reader'[s] = "failed"
        BY <3>3 DEF ReadErr, RuntimeTypes
      <4> QED
        BY <3>3, <4>1, <2>5 DEF ReadErr, RuntimeTypes
    <3> QED
      BY <1>2, <3>1, <3>2, <3>3
  <2>4. RuntimeTypes'
    BY <2>1, <2>2, <2>3 DEF RuntimeTypes
  <2>6. ReadersAreHonest'
    BY <2>1, <2>3, <2>5 DEF ReadersAreHonest
  <2>7. CallerKnows' /\ run # "ok" /\ run # "output"
    BY <2>1 DEF CallerKnows
  <2>8. OkIsComplete' /\ BlameIsJustified'
    BY <2>1, <2>7 DEF OkIsComplete, BlameIsJustified
  <2> QED
    BY <2>4, <2>6, <2>7, <2>8
<1>3. CASE InputTaken \/ InputRefused
  <2>1. /\ writer' \in {"done", "failed"}
        /\ UNCHANGED <<run, timedOut, late, child, descendant, written, output, reader, exceeded>>
    BY <1>3 DEF InputTaken, InputRefused
  <2>2. RuntimeTypes' /\ ReadersAreHonest' /\ CallerKnows'
    BY <2>1 DEF RuntimeTypes, ReadersAreHonest, CallerKnows
  <2>3. OkIsComplete' /\ BlameIsJustified'
    BY <2>1 DEF OkIsComplete, BlameIsJustified, Retained
  <2> QED
    BY <2>2, <2>3
<1> QED
  BY <1>1, <1>2, <1>3 DEF Thread

(* A kill takes the leader, whoever of its group is left. *)
LEMMA KillFacts ==
  ASSUME RuntimeInv, TerminateProcessTree
  PROVE  /\ child' \in {"exited", "failed", "killed"}
         /\ descendant' \in {"none", "grouped", "escaped", "ended"}
         /\ UNCHANGED <<late, written>>
BY DEF RuntimeInv, RuntimeTypes, TerminateProcessTree

(* The caller: each position is only reached with what it stands for. *)
LEMMA CallerStep ==
  ASSUME RuntimeInv, Caller \/ StatusErr
  PROVE  RuntimeInv'
<1> USE Arithmetic DEF RuntimeInv, threads
<1>1. ASSUME TerminateProcessTree, run \in {"check", "time"}, run' = "wait",
             UNCHANGED threads, timedOut' \in {timedOut, late}
      PROVE  RuntimeInv'
  <2>1. /\ child' \in {"exited", "failed", "killed"}
        /\ descendant' \in {"none", "grouped", "escaped", "ended"} /\ UNCHANGED <<late, written>>
    BY <1>1, KillFacts
  <2>2. UNCHANGED <<output, reader, exceeded, writer>>
    BY <1>1
  <2>3. timedOut' \in BOOLEAN /\ (timedOut' => late')
    BY <1>1, <2>1 DEF RuntimeTypes, CallerKnows
  <2>4. RuntimeTypes' /\ ReadersAreHonest' /\ CallerKnows'
    BY <1>1, <2>1, <2>2, <2>3 DEF RuntimeTypes, ReadersAreHonest, CallerKnows
  <2>5. OkIsComplete' /\ BlameIsJustified'
    BY <1>1, <2>1 DEF OkIsComplete, BlameIsJustified
  <2> QED
    BY <2>4, <2>5
<1>2. ASSUME UNCHANGED <<timedOut, tool, threads>>,
             run' \in {"check", "try", "time", "join", "err"},
             run' = "join" => child # "running"
      PROVE  RuntimeInv'
  <2>1. UNCHANGED <<timedOut, late, child, descendant, written, output, reader, exceeded, writer>>
    BY <1>2 DEF tool
  <2>2. RuntimeTypes' /\ ReadersAreHonest' /\ CallerKnows'
    BY <1>2, <2>1 DEF RuntimeTypes, ReadersAreHonest, CallerKnows, Result
  <2>3. OkIsComplete' /\ BlameIsJustified'
    BY <1>2, <2>1 DEF OkIsComplete, BlameIsJustified
  <2> QED
    BY <2>2, <2>3
<1>3. CASE CheckOutput
  BY <1>1, <1>2, <1>3 DEF CheckOutput
<1>4. CASE TryWait \/ StatusErr \/ Wait
  BY <1>2, <1>4 DEF TryWait, StatusErr, Wait
<1>5. CASE CheckTime
  BY <1>1, <1>2, <1>5, KillFacts DEF CheckTime
<1>6. CASE Join
  <2>1. CASE run' = "err"
    BY <1>2, <1>6, <2>1 DEF Join
  <2>2. CASE run' = "classify"
    <3>1. /\ \A s \in Stream : reader[s] = "done"
          /\ child # "running"
          /\ UNCHANGED <<timedOut, late, child, descendant, written, output, reader, exceeded, writer>>
      BY <1>6, <2>2 DEF Join, CallerKnows, RuntimeTypes, tool
    <3>2. RuntimeTypes' /\ ReadersAreHonest' /\ CallerKnows'
      BY <2>2, <3>1 DEF RuntimeTypes, ReadersAreHonest, CallerKnows
    <3>3. OkIsComplete' /\ BlameIsJustified'
      BY <2>2, <3>1 DEF OkIsComplete, BlameIsJustified
    <3> QED
      BY <3>2, <3>3
  <2> QED
    BY <1>6, <2>1, <2>2 DEF Join
<1>7. CASE Classify
  <2>1. /\ run = "classify" /\ run' \in {"timeout", "output", "nonzero", "ok"}
        /\ UNCHANGED <<timedOut, late, child, descendant, written, output, reader, exceeded, writer>>
    BY <1>7 DEF Classify, tool
  <2>2. RuntimeTypes' /\ ReadersAreHonest'
    BY <2>1 DEF RuntimeTypes, ReadersAreHonest, Result
  <2>3. \A s \in Stream : reader[s] = "done"
    BY <2>1 DEF CallerKnows
  <2>4. CallerKnows'
    BY <2>1, <2>3 DEF CallerKnows
  <2>5. OkIsComplete'
    <3>1. run' = "ok" => ~exceeded /\ ~(Retained > Limit) /\ child = "exited"
      BY <1>7 DEF Classify
    <3>2. Retained \in Nat
      BY DEF Retained
    <3> QED
      BY <2>1, <2>3, <3>1, <3>2 DEF OkIsComplete, ReadersAreHonest, Retained
  <2>6. BlameIsJustified'
    <3>1. run' = "timeout" => timedOut
      BY <1>7 DEF Classify
    <3>2. run' = "output" => exceeded \/ Retained > Limit
      BY <1>7 DEF Classify
    <3>3. output["stdout"] <= written["stdout"] /\ output["stderr"] <= written["stderr"]
      BY DEF ReadersAreHonest
    <3>4. exceeded => written["stdout"] > Limit \/ written["stderr"] > Limit
      BY DEF ReadersAreHonest
    <3>5. run' = "output" => written["stdout"] + written["stderr"] > Limit
      BY <3>2, <3>3, <3>4 DEF Retained
    <3> QED
      BY <2>1, <3>1, <3>5 DEF BlameIsJustified, CallerKnows
  <2> QED
    BY <2>2, <2>4, <2>5, <2>6
<1> QED
  BY <1>3, <1>4, <1>5, <1>6, <1>7 DEF Caller

(* The inductive invariant: nothing that happens to the tool, its threads  *)
(* or the clock breaks it.                                                 *)
LEMMA RuntimeInvariant == RuntimeSpec => []RuntimeInv
<1>1. RuntimeInv /\ [RuntimeNext]_runtimeVars => RuntimeInv'
  <2> SUFFICES ASSUME RuntimeInv, [RuntimeNext]_runtimeVars PROVE RuntimeInv'
    OBVIOUS
  <2>1. CASE RuntimeNext
    BY <2>1, ToolStep, ThreadStep, CallerStep DEF RuntimeNext
  <2>2. CASE UNCHANGED runtimeVars
    BY <2>2 DEF runtimeVars, caller, tool, threads, RuntimeInv, RuntimeTypes, ReadersAreHonest, CallerKnows,
                OkIsComplete, BlameIsJustified, Retained
  <2> QED
    BY <2>1, <2>2
<1> QED
  BY RuntimeInitInvariant, <1>1, PTL DEF RuntimeSpec

(* An answer that is accepted is the whole output of a tool that succeeded *)
(* (runtime.rs:375-406), for every limit.                                  *)
THEOREM OkComplete == RuntimeSpec => []OkIsComplete
<1>1. RuntimeInv => OkIsComplete
  BY DEF RuntimeInv
<1> QED
  BY RuntimeInvariant, <1>1, PTL

(* Overflow and timeout are reported only when they happened. *)
THEOREM BlameJustified == RuntimeSpec => []BlameIsJustified
<1>1. RuntimeInv => BlameIsJustified
  BY DEF RuntimeInv
<1> QED
  BY RuntimeInvariant, <1>1, PTL

=============================================================================
