-------------------------- MODULE Retention_proofs --------------------------
(***************************************************************************)
(* What holds of the retention cascade for any captures, generations,      *)
(* lifetime and clock.  The inductive invariant says, for each stage of a  *)
(* pass, where the bundles of the rows it read can be.                     *)
(***************************************************************************)
EXTENDS Retention, TLAPS

(* The cohorts that the pass under way has found to be expired. *)
Cohorts == ExpiredGenerations(pass.seen, pass.asOf)

(* A row is stored for a bundle that was sealed. *)
RowsSealed == \A c \in rows : bundle[c] # "none"

(* A pass has looked up, or will look up, every row whose bundle is left. *)
Scanned ==
  pass.at \notin Finished =>
    /\ pass.seen \subseteq rows /\ pass.todo \subseteq rows
    /\ \A c \in rows : c \in pass.seen \cup pass.todo \/ bundle[c] = "gone"
    /\ pass.at # "scan" => pass.todo = {}

(* While it scans, nothing is unlinked. *)
ScanIsQuiet ==
  pass.at = "scan" =>
    pass.removing = {} /\ \A c \in pass.seen : bundle[c] = "whole"

(* What a pass has planned, and what it has already erased of it: a cohort *)
(* that is no longer planned has lost its key.                             *)
Planned ==
  pass.at \in {"reap", "unlink"} =>
    /\ pass.plan \subseteq Cohorts
    /\ pass.at = "unlink" => pass.gen \in Cohorts
    /\ pass.expired = {c \in pass.seen : GenOf[c] \in Cohorts}
    /\ \A c \in pass.seen \ pass.expired : bundle[c] = "whole"
    /\ \A c \in pass.expired : GenOf[c] \in pass.plan \/ GenOf[c] \notin privateKey
    /\ \A c \in pass.seen : bundle[c] \in {"whole", "gone"} \/ c \in pass.removing
    /\ pass.at = "reap" => pass.removing = {}
    /\ \A c \in pass.removing : bundle[c] = "half" /\ GenOf[c] = pass.gen
    /\ \A c, d \in pass.removing : c = d

IInv == TypeOK /\ RowsSealed /\ Scanned /\ ScanIsQuiet /\ Planned

-----------------------------------------------------------------------------
(* Lemmas *)

(* A pass that begins or ends has nothing in hand. *)
LEMMA ResultFacts ==
  ASSUME NEW r \in Finished \cup {"scan"}
  PROVE  Result(r) \in Passes /\ Result(r).at = r
BY RetentionAssumption DEF Result, Passes, Time

(* Whether a cohort has expired depends on the capture times of its         *)
(* candidates only.                                                        *)
LEMMA CohortsStable ==
  ASSUME pass'.seen = pass.seen, pass'.asOf = pass.asOf,
         \A c \in pass.seen : capturedAt'[c] = capturedAt[c]
  PROVE  Cohorts' = Cohorts
BY DEF Cohorts, ExpiredGenerations, IsExpiredAt

(* A pass that moves on stays well formed. *)
LEMMA PassTypes ==
  ASSUME NEW p \in Passes, NEW at \in {"scan", "reap", "unlink"},
         NEW cs \in SUBSET Capture, NEW ds \in SUBSET Capture,
         NEW gs \in SUBSET Generation, NEW g \in Generation \cup {NoGeneration},
         NEW t \in Time
  PROVE  /\ [p EXCEPT !.todo = cs] \in Passes
         /\ [p EXCEPT !.todo = cs, !.seen = ds] \in Passes
         /\ [p EXCEPT !.at = at, !.plan = gs, !.expired = cs, !.asOf = t] \in Passes
         /\ [p EXCEPT !.at = at, !.plan = gs, !.gen = g] \in Passes
         /\ [p EXCEPT !.at = at, !.gen = g] \in Passes
         /\ [p EXCEPT !.removing = cs] \in Passes
<1>1. [p EXCEPT !.todo = cs] \in Passes
  BY DEF Passes
<1>2. [p EXCEPT !.todo = cs, !.seen = ds] \in Passes
  BY DEF Passes
<1>3. [p EXCEPT !.at = at, !.plan = gs, !.expired = cs, !.asOf = t] \in Passes
  BY DEF Passes
<1>4. [p EXCEPT !.at = at, !.plan = gs, !.gen = g] \in Passes
  BY DEF Passes
<1>5. [p EXCEPT !.at = at, !.gen = g] \in Passes
  BY DEF Passes
<1>6. [p EXCEPT !.removing = cs] \in Passes
  BY DEF Passes
<1> QED
  BY <1>1, <1>2, <1>3, <1>4, <1>5, <1>6

(* However a scan of the vault ends, the pass is as it was and goes on.    *)
LEMMA ScanEnds ==
  ASSUME pass \in Passes, Reaped \/ PassedOver
  PROVE  /\ pass.at = "unlink" /\ pass.removing = {}
         /\ pass' = [pass EXCEPT !.at = "reap", !.gen = NoGeneration]
         /\ pass'.at = "reap" /\ pass'.seen = pass.seen /\ pass'.asOf = pass.asOf
         /\ pass'.todo = pass.todo /\ pass'.plan = pass.plan
         /\ pass'.expired = pass.expired /\ pass'.removing = {}
         /\ UNCHANGED env
<1>1. /\ pass.at = "unlink" /\ pass.removing = {}
      /\ pass' = [pass EXCEPT !.at = "reap", !.gen = NoGeneration]
      /\ UNCHANGED env
  BY DEF Reaped, PassedOver
<1> QED
  BY <1>1 DEF Passes

-----------------------------------------------------------------------------
(* Each part of the invariant is preserved *)

(* The state keeps its type. *)
LEMMA TypeOKStep == IInv /\ [Next]_vars => TypeOK'
<1> SUFFICES ASSUME IInv, [Next]_vars PROVE TypeOK'
  OBVIOUS
<1> USE RetentionAssumption, ResultFacts DEF IInv, TypeOK, env, Finished
<1>1. ASSUME NEW c \in Capture, Seal(c)
      PROVE  TypeOK'
  BY <1>1 DEF Seal, VaultLocked
<1>2. ASSUME NEW cs \in SUBSET Capture, Ingest(cs)
      PROVE  TypeOK'
  BY <1>2 DEF Ingest
<1>3. ASSUME NEW t \in Time, SetClock(t)
      PROVE  TypeOK'
  BY <1>3 DEF SetClock
<1>4. CASE Begin
  <2>1. Result("scan") \in Passes /\ rows \in SUBSET Capture
    BY ResultFacts
  <2>2. pass' \in Passes
    BY <1>4, <2>1, PassTypes DEF Begin
  <2> QED
    BY <1>4, <2>2 DEF Begin
<1>5. ASSUME NEW c \in Capture, ScanRow(c)
      PROVE  TypeOK'
  <2> DEFINE found == IF bundle[c] = "whole" THEN pass.seen \cup {c} ELSE pass.seen
  <2>1. pass.todo \ {c} \in SUBSET Capture /\ found \in SUBSET Capture
    BY DEF Passes
  <2>2. pass' = [pass EXCEPT !.todo = pass.todo \ {c}, !.seen = found]
    BY <1>5 DEF ScanRow
  <2> HIDE DEF found
  <2>3. pass' \in Passes
    BY <2>1, <2>2, PassTypes
  <2> QED
    BY <1>5, <2>3 DEF ScanRow
<1>6. CASE Plan
  <2> DEFINE gens == ExpiredGenerations(pass.seen, now)
             gone == {c \in pass.seen : GenOf[c] \in gens}
  <2>1. gens \in SUBSET Generation /\ gone \in SUBSET Capture
    BY DEF Passes, ExpiredGenerations
  <2>2. pass' = [pass EXCEPT !.at = "reap", !.plan = gens, !.expired = gone, !.asOf = now]
    BY <1>6 DEF Plan
  <2> HIDE DEF gens, gone
  <2>3. pass' \in Passes
    BY <2>1, <2>2, PassTypes
  <2> QED
    BY <1>6, <2>3 DEF Plan
<1>7. ASSUME NEW g \in Generation, DestroyKey(g)
      PROVE  TypeOK'
  <2>1. pass.plan \ {g} \in SUBSET Generation
    BY DEF Passes
  <2>2. pass' = [pass EXCEPT !.at = "unlink", !.plan = pass.plan \ {g}, !.gen = g]
    BY <1>7 DEF DestroyKey
  <2>3. pass' \in Passes
    BY <2>1, <2>2, PassTypes
  <2> QED
    BY <1>7, <2>3 DEF DestroyKey
<1>8. ASSUME NEW c \in Capture, UnlinkBegin(c)
      PROVE  TypeOK'
  <2>1. pass' \in Passes
    BY <1>8, PassTypes DEF UnlinkBegin
  <2> QED
    BY <1>8, <2>1 DEF UnlinkBegin
<1>9. ASSUME NEW c \in Capture, UnlinkEnd(c)
      PROVE  TypeOK'
  <2>1. pass' \in Passes
    BY <1>9, PassTypes DEF UnlinkEnd
  <2> QED
    BY <1>9, <2>1 DEF UnlinkEnd
<1>10. CASE Reaped \/ PassedOver
  <2>1. pass' = [pass EXCEPT !.at = "reap", !.gen = NoGeneration]
    BY <1>10, ScanEnds
  <2>2. pass' \in Passes
    BY <2>1, PassTypes
  <2> QED
    BY <1>10, <2>2, ScanEnds
<1>11. CASE DeleteRows
  BY <1>11 DEF DeleteRows
<1>12. ASSUME NEW c \in Capture, ScanIncomplete(c)
      PROVE  TypeOK'
  BY <1>12 DEF ScanIncomplete
<1>13. CASE Stop
  BY <1>13 DEF Stop
<1>14. ASSUME NEW g \in Generation, DestroyKeyFail(g)
      PROVE  TypeOK'
  BY <1>14 DEF DestroyKeyFail
<1>15. CASE UNCHANGED vars
  BY <1>15 DEF vars
<1> QED
  BY <1>1, <1>2, <1>3, <1>4, <1>5, <1>6, <1>7, <1>8, <1>9, <1>10, <1>11,
     <1>12, <1>13, <1>14, <1>15
  DEF Next, PassStep, Fault, Environment

(* A sealed bundle may go, but never back to not being sealed. *)
LEMMA RowsSealedStep == IInv /\ [Next]_vars => RowsSealed'
<1> SUFFICES ASSUME IInv, [Next]_vars PROVE RowsSealed'
  OBVIOUS
<1> USE RetentionAssumption, ResultFacts DEF IInv, TypeOK, env, Finished, RowsSealed
<1>1. ASSUME NEW c \in Capture, Seal(c)
      PROVE  RowsSealed'
  BY <1>1 DEF Seal, VaultLocked
<1>2. ASSUME NEW cs \in SUBSET Capture, Ingest(cs)
      PROVE  RowsSealed'
  BY <1>2 DEF Ingest
<1>3. ASSUME NEW t \in Time, SetClock(t)
      PROVE  RowsSealed'
  BY <1>3 DEF SetClock
<1>4. CASE Begin
  BY <1>4 DEF Begin
<1>5. ASSUME NEW c \in Capture, ScanRow(c)
      PROVE  RowsSealed'
  BY <1>5 DEF ScanRow
<1>6. CASE Plan
  BY <1>6 DEF Plan
<1>7. ASSUME NEW g \in Generation, DestroyKey(g)
      PROVE  RowsSealed'
  BY <1>7 DEF DestroyKey
<1>8. ASSUME NEW c \in Capture, UnlinkBegin(c)
      PROVE  RowsSealed'
  BY <1>8 DEF UnlinkBegin, ToUnlink
<1>9. ASSUME NEW c \in Capture, UnlinkEnd(c)
      PROVE  RowsSealed'
  BY <1>9 DEF UnlinkEnd
<1>10. CASE Reaped \/ PassedOver
  BY <1>10, ScanEnds
<1>11. CASE DeleteRows
  BY <1>11 DEF DeleteRows
<1>12. ASSUME NEW c \in Capture, ScanIncomplete(c)
      PROVE  RowsSealed'
  BY <1>12 DEF ScanIncomplete
<1>13. CASE Stop
  BY <1>13 DEF Stop
<1>14. ASSUME NEW g \in Generation, DestroyKeyFail(g)
      PROVE  RowsSealed'
  BY <1>14 DEF DestroyKeyFail
<1>15. CASE UNCHANGED vars
  BY <1>15 DEF vars
<1> HIDE DEF RowsSealed
<1> QED
  BY <1>1, <1>2, <1>3, <1>4, <1>5, <1>6, <1>7, <1>8, <1>9, <1>10, <1>11,
     <1>12, <1>13, <1>14, <1>15
  DEF Next, PassStep, Fault, Environment

(* The rows of a pass stay as they were read until it deletes them. *)
LEMMA ScannedStep == IInv /\ [Next]_vars => Scanned'
<1> SUFFICES ASSUME IInv, [Next]_vars PROVE Scanned'
  OBVIOUS
<1> USE RetentionAssumption, ResultFacts DEF IInv, TypeOK, env, Finished, Scanned
<1>1. ASSUME NEW c \in Capture, Seal(c)
      PROVE  Scanned'
  BY <1>1 DEF Seal, VaultLocked
<1>2. ASSUME NEW cs \in SUBSET Capture, Ingest(cs)
      PROVE  Scanned'
  BY <1>2 DEF Ingest
<1>3. ASSUME NEW t \in Time, SetClock(t)
      PROVE  Scanned'
  BY <1>3 DEF SetClock
<1>4. CASE Begin
  <2>1. Result("scan") \in Passes /\ Result("scan").seen = {}
    BY ResultFacts DEF Result
  <2>2. pass'.todo = rows /\ pass'.seen = {} /\ pass'.at = "scan"
    BY <1>4, <2>1 DEF Begin, Result
  <2> QED
    BY <1>4, <2>2 DEF Begin
<1>5. ASSUME NEW c \in Capture, ScanRow(c)
      PROVE  Scanned'
  <2>1. /\ pass'.todo = pass.todo \ {c}
        /\ pass'.seen = IF bundle[c] = "whole" THEN pass.seen \cup {c} ELSE pass.seen
        /\ pass'.at = "scan"
    BY <1>5 DEF ScanRow, Passes
  <2>2. bundle[c] \in {"whole", "gone"} \/ c \notin rows
    BY <1>5 DEF ScanRow, RowsSealed
  <2>3. c \in rows
    BY <1>5 DEF ScanRow
  <2> QED
    BY <1>5, <2>1, <2>2, <2>3 DEF ScanRow
<1>6. CASE Plan
  BY <1>6 DEF Plan
<1>7. ASSUME NEW g \in Generation, DestroyKey(g)
      PROVE  Scanned'
  BY <1>7 DEF DestroyKey
<1>8. ASSUME NEW c \in Capture, UnlinkBegin(c)
      PROVE  Scanned'
  BY <1>8 DEF UnlinkBegin, ToUnlink
<1>9. ASSUME NEW c \in Capture, UnlinkEnd(c)
      PROVE  Scanned'
  BY <1>9 DEF UnlinkEnd
<1>10. CASE Reaped \/ PassedOver
  BY <1>10, ScanEnds
<1>11. CASE DeleteRows
  BY <1>11 DEF DeleteRows
<1>12. ASSUME NEW c \in Capture, ScanIncomplete(c)
      PROVE  Scanned'
  BY <1>12 DEF ScanIncomplete
<1>13. CASE Stop
  BY <1>13 DEF Stop
<1>14. ASSUME NEW g \in Generation, DestroyKeyFail(g)
      PROVE  Scanned'
  BY <1>14 DEF DestroyKeyFail
<1>15. CASE UNCHANGED vars
  BY <1>15 DEF vars
<1> HIDE DEF Scanned
<1> QED
  BY <1>1, <1>2, <1>3, <1>4, <1>5, <1>6, <1>7, <1>8, <1>9, <1>10, <1>11,
     <1>12, <1>13, <1>14, <1>15
  DEF Next, PassStep, Fault, Environment

(* Bundles are unlinked by the passes alone. *)
LEMMA ScanIsQuietStep == IInv /\ [Next]_vars => ScanIsQuiet'
<1> SUFFICES ASSUME IInv, [Next]_vars PROVE ScanIsQuiet'
  OBVIOUS
<1> USE RetentionAssumption, ResultFacts DEF IInv, TypeOK, env, Finished, ScanIsQuiet, Scanned, RowsSealed
<1>1. ASSUME NEW c \in Capture, Seal(c)
      PROVE  ScanIsQuiet'
  BY <1>1 DEF Seal, VaultLocked
<1>2. ASSUME NEW cs \in SUBSET Capture, Ingest(cs)
      PROVE  ScanIsQuiet'
  BY <1>2 DEF Ingest
<1>3. ASSUME NEW t \in Time, SetClock(t)
      PROVE  ScanIsQuiet'
  BY <1>3 DEF SetClock
<1>4. CASE Begin
  <2>1. pass'.seen = {} /\ pass'.removing = {}
    BY <1>4 DEF Begin, Result
  <2> QED
    BY <2>1
<1>5. ASSUME NEW c \in Capture, ScanRow(c)
      PROVE  ScanIsQuiet'
  BY <1>5 DEF ScanRow
<1>6. CASE Plan
  BY <1>6 DEF Plan
<1>7. ASSUME NEW g \in Generation, DestroyKey(g)
      PROVE  ScanIsQuiet'
  BY <1>7 DEF DestroyKey
<1>8. ASSUME NEW c \in Capture, UnlinkBegin(c)
      PROVE  ScanIsQuiet'
  BY <1>8 DEF UnlinkBegin, ToUnlink
<1>9. ASSUME NEW c \in Capture, UnlinkEnd(c)
      PROVE  ScanIsQuiet'
  BY <1>9 DEF UnlinkEnd
<1>10. CASE Reaped \/ PassedOver
  BY <1>10, ScanEnds
<1>11. CASE DeleteRows
  BY <1>11 DEF DeleteRows
<1>12. ASSUME NEW c \in Capture, ScanIncomplete(c)
      PROVE  ScanIsQuiet'
  BY <1>12 DEF ScanIncomplete
<1>13. CASE Stop
  BY <1>13 DEF Stop
<1>14. ASSUME NEW g \in Generation, DestroyKeyFail(g)
      PROVE  ScanIsQuiet'
  BY <1>14 DEF DestroyKeyFail
<1>15. CASE UNCHANGED vars
  BY <1>15 DEF vars
<1> HIDE DEF ScanIsQuiet, Scanned, RowsSealed
<1> QED
  BY <1>1, <1>2, <1>3, <1>4, <1>5, <1>6, <1>7, <1>8, <1>9, <1>10, <1>11,
     <1>12, <1>13, <1>14, <1>15
  DEF Next, PassStep, Fault, Environment

(* Each stage of a pass leaves behind what the next one relies on. *)
LEMMA PlannedStep == IInv /\ [Next]_vars => Planned'
<1> SUFFICES ASSUME IInv, [Next]_vars PROVE Planned'
  OBVIOUS
<1> USE RetentionAssumption, ResultFacts DEF IInv, TypeOK, env, Finished, Planned, Scanned, ScanIsQuiet, RowsSealed
<1>1. ASSUME NEW c \in Capture, Seal(c)
      PROVE  Planned'
  <2>1. pass.at = "reap" => \A d \in pass.seen : d # c
    BY <1>1 DEF Seal, RowsSealed, Scanned
  <2>2. pass.at = "reap" => \A d \in pass.seen : capturedAt'[d] = capturedAt[d] /\ bundle'[d] = bundle[d]
    BY <1>1, <2>1 DEF Seal, Passes
  <2>3. pass' = pass /\ pass.at # "unlink"
    BY <1>1 DEF Seal, VaultLocked
  <2>4. pass.at = "reap" => Cohorts' = Cohorts
    BY <2>2, <2>3, CohortsStable
  <2>5. pass.at = "reap" => pass.expired \subseteq pass.seen
    OBVIOUS
  <2>6. privateKey' = privateKey
    BY <1>1 DEF Seal
  <2> QED
    BY <2>2, <2>3, <2>4, <2>5, <2>6
<1>2. ASSUME NEW cs \in SUBSET Capture, Ingest(cs)
      PROVE  Planned'
  BY <1>2 DEF Ingest
<1>3. ASSUME NEW t \in Time, SetClock(t)
      PROVE  Planned'
  <2>1. Cohorts' = Cohorts
    BY <1>3, CohortsStable DEF SetClock
  <2> QED
    BY <1>3, <2>1 DEF SetClock
<1>4. CASE Begin
  BY <1>4 DEF Begin
<1>5. ASSUME NEW c \in Capture, ScanRow(c)
      PROVE  Planned'
  BY <1>5 DEF ScanRow
<1>6. CASE Plan
  <2>1. /\ pass'.at = "reap" /\ pass'.seen = pass.seen /\ pass'.asOf = now
        /\ pass'.plan = ExpiredGenerations(pass.seen, now)
        /\ pass'.expired = {c \in pass.seen : GenOf[c] \in ExpiredGenerations(pass.seen, now)}
        /\ pass'.removing = pass.removing
    BY <1>6 DEF Plan, Passes
  <2>2. Cohorts' = ExpiredGenerations(pass.seen, now)
    BY <1>6, <2>1 DEF Plan, Cohorts, ExpiredGenerations, IsExpiredAt
  <2>3. \A c \in pass.seen : bundle'[c] = "whole"
    BY <1>6 DEF Plan, ScanIsQuiet
  <2>4. pass.removing = {}
    BY <1>6 DEF Plan
  <2> QED
    BY <2>1, <2>2, <2>3, <2>4
<1>7. ASSUME NEW g \in Generation, DestroyKey(g)
      PROVE  Planned'
  <2>1. /\ pass'.at = "unlink" /\ pass'.seen = pass.seen /\ pass'.asOf = pass.asOf
        /\ pass'.plan = pass.plan \ {g} /\ pass'.gen = g
        /\ pass'.expired = pass.expired /\ pass'.removing = pass.removing
    BY <1>7 DEF DestroyKey, Passes
  <2>2. Cohorts' = Cohorts
    BY <1>7, <2>1, CohortsStable DEF DestroyKey
  <2> QED
    BY <1>7, <2>1, <2>2 DEF DestroyKey
<1>8. ASSUME NEW c \in Capture, UnlinkBegin(c)
      PROVE  Planned'
  <2>1. /\ pass'.at = "unlink" /\ pass'.seen = pass.seen /\ pass'.asOf = pass.asOf
        /\ pass'.plan = pass.plan /\ pass'.gen = pass.gen
        /\ pass'.expired = pass.expired /\ pass'.removing = {c}
    BY <1>8 DEF UnlinkBegin, Passes
  <2>2. Cohorts' = Cohorts
    BY <1>8, <2>1, CohortsStable DEF UnlinkBegin
  <2>3. bundle'[c] = "half" /\ \A d \in Capture : d # c => bundle'[d] = bundle[d]
    BY <1>8 DEF UnlinkBegin, ToUnlink
  <2>4. c \in pass.seen => c \in pass.expired
    BY <1>8 DEF UnlinkBegin, ToUnlink
  <2>5. pass.seen \subseteq Capture /\ pass.expired \subseteq pass.seen
    BY <1>8 DEF UnlinkBegin, Passes
  <2> QED
    BY <1>8, <2>1, <2>2, <2>3, <2>4, <2>5 DEF UnlinkBegin, ToUnlink
<1>9. ASSUME NEW c \in Capture, UnlinkEnd(c)
      PROVE  Planned'
  <2>1. /\ pass'.at = "unlink" /\ pass'.seen = pass.seen /\ pass'.asOf = pass.asOf
        /\ pass'.plan = pass.plan /\ pass'.gen = pass.gen
        /\ pass'.expired = pass.expired /\ pass'.removing = {}
    BY <1>9 DEF UnlinkEnd, Passes
  <2>2. Cohorts' = Cohorts
    BY <1>9, <2>1, CohortsStable DEF UnlinkEnd
  <2>3. bundle'[c] = "gone" /\ \A d \in Capture : d # c => bundle'[d] = bundle[d]
    BY <1>9 DEF UnlinkEnd
  <2>4. bundle[c] = "half" /\ pass.removing = {c}
    BY <1>9 DEF UnlinkEnd
  <2>5. pass.seen \subseteq Capture /\ pass.expired \subseteq pass.seen
    BY <1>9 DEF UnlinkEnd, Passes
  <2> QED
    BY <1>9, <2>1, <2>2, <2>3, <2>4, <2>5 DEF UnlinkEnd
<1>10. CASE Reaped \/ PassedOver
  <2>1. Cohorts' = Cohorts
    BY <1>10, ScanEnds, CohortsStable
  <2> QED
    BY <1>10, <2>1, ScanEnds
<1>11. CASE DeleteRows
  BY <1>11 DEF DeleteRows
<1>12. ASSUME NEW c \in Capture, ScanIncomplete(c)
      PROVE  Planned'
  BY <1>12 DEF ScanIncomplete
<1>13. CASE Stop
  BY <1>13 DEF Stop
<1>14. ASSUME NEW g \in Generation, DestroyKeyFail(g)
      PROVE  Planned'
  BY <1>14 DEF DestroyKeyFail
<1>15. CASE UNCHANGED vars
  <2>1. Cohorts' = Cohorts
    BY <1>15, CohortsStable DEF vars
  <2> QED
    BY <1>15, <2>1 DEF vars
<1> HIDE DEF Planned, Scanned, ScanIsQuiet, RowsSealed
<1> QED
  BY <1>1, <1>2, <1>3, <1>4, <1>5, <1>6, <1>7, <1>8, <1>9, <1>10, <1>11,
     <1>12, <1>13, <1>14, <1>15
  DEF Next, PassStep, Fault, Environment

-----------------------------------------------------------------------------
(* The theorems *)

(* Before the first session the invariant holds, *)
LEMMA IInvInit == Init => IInv
<1> SUFFICES ASSUME Init PROVE IInv
  OBVIOUS
<1>1. pass \in Passes /\ pass.at = "ok"
  BY ResultFacts DEF Init, Finished
<1>2. TypeOK
  BY <1>1, RetentionAssumption DEF Init, TypeOK, Time
<1> QED
  BY <1>1, <1>2 DEF Init, IInv, RowsSealed, Scanned, ScanIsQuiet, Planned, Finished

(* every step preserves it, *)
LEMMA IInvStep == IInv /\ [Next]_vars => IInv'
BY TypeOKStep, RowsSealedStep, ScannedStep, ScanIsQuietStep, PlannedStep DEF IInv

(* and so it always holds. *)
THEOREM Invariance == Spec => []IInv
BY IInvInit, IInvStep, PTL DEF Spec

(* The state of the cascade keeps its type, for any number of captures. *)
THEOREM TypeCorrect == Spec => []TypeOK
<1>1. IInv => TypeOK
  BY DEF IInv
<1> QED
  BY <1>1, Invariance, PTL

(* Who may remove a row, and who may destroy a key. *)
LEMMA Removals ==
  ASSUME [Next]_vars
  PROVE  /\ rows \ rows' # {} => DeleteRows
         /\ privateKey \ privateKey' # {} =>
              \E g \in Generation : (DestroyKey(g) \/ DestroyKeyFail(g))
<1> USE DEF env
<1>1. ASSUME NEW c \in Capture, ScanRow(c) \/ ScanIncomplete(c) \/ UnlinkBegin(c)
               \/ UnlinkEnd(c) \/ Seal(c)
      PROVE  UNCHANGED <<rows, privateKey>>
  BY <1>1 DEF ScanRow, ScanIncomplete, UnlinkBegin, UnlinkEnd, Seal
<1>2. CASE Begin \/ Plan \/ Reaped \/ PassedOver \/ Stop \/ UNCHANGED vars
  BY <1>2 DEF Begin, Plan, Reaped, PassedOver, Stop, vars
<1>3. ASSUME NEW t \in Time, SetClock(t)
      PROVE  UNCHANGED <<rows, privateKey>>
  BY <1>3 DEF SetClock
<1>4. ASSUME NEW cs \in SUBSET Capture, Ingest(cs)
      PROVE  rows \subseteq rows' /\ privateKey' = privateKey
  BY <1>4 DEF Ingest
<1>5. ASSUME NEW g \in Generation, DestroyKey(g) \/ DestroyKeyFail(g)
      PROVE  rows' = rows
  BY <1>5 DEF DestroyKey, DestroyKeyFail
<1>6. CASE DeleteRows
  BY <1>6 DEF DeleteRows
<1> QED
  BY <1>1, <1>2, <1>3, <1>4, <1>5, <1>6 DEF Next, PassStep, Fault, Environment

(* When the plan is done, every expired cohort has lost its key and none   *)
(* of its directories is half removed; what else was found is untouched.   *)
LEMMA PlanDone ==
  ASSUME IInv, DeleteRows
  PROVE  /\ rows' = rows \ pass.expired
         /\ \A c \in pass.expired : GenOf[c] \notin privateKey /\ bundle[c] # "half"
         /\ \A c \in rows : bundle[c] = "whole" => c \in pass.seen
         /\ \A c \in pass.seen \ pass.expired : bundle[c] = "whole" /\ c \in rows
<1>1. pass.at = "reap" /\ pass.plan = {} /\ rows' = rows \ pass.expired
  BY DEF DeleteRows
<1>2. \A c \in pass.expired : GenOf[c] \notin privateKey
  BY <1>1 DEF IInv, Planned
<1>3. \A c \in pass.expired : bundle[c] # "half"
  BY <1>1 DEF IInv, Planned
<1>4. \A c \in rows : bundle[c] = "whole" => c \in pass.seen
  BY <1>1 DEF IInv, Scanned, Finished
<1>5. \A c \in pass.seen \ pass.expired : bundle[c] = "whole" /\ c \in rows
  BY <1>1 DEF IInv, Planned, Scanned, Finished
<1> QED
  BY <1>1, <1>2, <1>3, <1>4, <1>5

(* No interruption, no directory the scan passes over, and no order of     *)
(* faults and resumed passes, makes the history forget a capture that can  *)
(* still be read, or one whose directory is half removed.                  *)
THEOREM RowsOutlive == Spec => RowsOutliveKeys
<1>1. IInv /\ [Next]_vars =>
        [ \A c \in rows \ rows' : GenOf[c] \notin privateKey /\ bundle[c] # "half" ]_vars
  BY Removals, PlanDone
<1> QED
  BY <1>1, Invariance, PTL DEF Spec, RowsOutliveKeys

(* A key goes only when all the bundles of its cohort that have a row had  *)
(* expired at the one instant the pass read the clock.                     *)
THEOREM UnexpiredSurvive == Spec => KnownUnexpiredSurvive
<1>1. IInv /\ [Next]_vars =>
        [ \A g \in privateKey \ privateKey' : \A c \in rows :
            bundle[c] = "whole" /\ GenOf[c] = g => IsExpiredAt(c, pass.asOf) ]_vars
  <2> SUFFICES ASSUME IInv, [Next]_vars, NEW g \in privateKey \ privateKey',
                      NEW c \in rows, bundle[c] = "whole", GenOf[c] = g
               PROVE  IsExpiredAt(c, pass.asOf)
    OBVIOUS
  <2>1. PICK h \in Generation : DestroyKey(h) \/ DestroyKeyFail(h)
    BY Removals
  <2>2. pass.at = "reap" /\ h \in pass.plan /\ g = h
    BY <2>1 DEF DestroyKey, DestroyKeyFail
  <2>3. c \in pass.seen
    BY <2>2 DEF IInv, Scanned, Finished
  <2>4. g \in Cohorts
    BY <2>2 DEF IInv, Planned
  <2> QED
    BY <2>3, <2>4 DEF Cohorts, ExpiredGenerations
<1> QED
  BY <1>1, Invariance, PTL DEF Spec, KnownUnexpiredSurvive

(* When a pass returns Ok, a bundle with a row that is still whole has     *)
(* lost its key and loses its row, or its cohort holds one that had not    *)
(* expired and keeps its row.                                              *)
THEOREM SuccessErases == Spec => SuccessErasesExpired
<1>1. IInv /\ [Next]_vars =>
        [ DeleteRows => \A c \in rows : bundle[c] = "whole" =>
            \/ GenOf[c] \notin privateKey /\ c \notin rows'
            \/ \E d \in rows' : /\ bundle[d] = "whole"
                                /\ GenOf[d] = GenOf[c]
                                /\ ~IsExpiredAt(d, pass.asOf) ]_vars
  <2> SUFFICES ASSUME IInv, DeleteRows, NEW c \in rows, bundle[c] = "whole",
                      c \notin pass.expired
               PROVE  \E d \in rows' : /\ bundle[d] = "whole"
                                       /\ GenOf[d] = GenOf[c]
                                       /\ ~IsExpiredAt(d, pass.asOf)
    BY PlanDone
  <2>1. c \in pass.seen
    BY PlanDone
  <2>2. GenOf[c] \notin Cohorts
    BY <2>1 DEF IInv, Planned, DeleteRows
  <2>3. PICK d \in pass.seen : GenOf[d] = GenOf[c] /\ ~IsExpiredAt(d, pass.asOf)
    BY <2>1, <2>2 DEF Cohorts, ExpiredGenerations
  <2>4. d \notin pass.expired
    BY <2>2, <2>3 DEF IInv, Planned, DeleteRows
  <2> QED
    BY <2>3, <2>4, PlanDone
<1> QED
  BY <1>1, Invariance, PTL DEF Spec, SuccessErasesExpired

=============================================================================
