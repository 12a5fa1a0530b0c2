------------------------- MODULE CaptureHelper_proofs -------------------------
(***************************************************************************)
(* Proofs about the capture side, for every clock, every set of durations, *)
(* every number of grants, and any identifiers and times: the profile,     *)
(* the login item and the bridge keep their promises each for itself, and  *)
(* so does the app that holds the three.                                   *)
(***************************************************************************)
EXTENDS CaptureHelper, SequenceTheorems, TLAPS

-----------------------------------------------------------------------------
(* The capture profile *)

(* OverStaysOver is not inductive: a start must be known to label its      *)
(* window with a grant that no process has seen over.  So the labels in    *)
(* use, here and in the copy that was kept, are bounded by the counter.    *)
LabelsAreGranted ==
    /\ ended \subseteq 1 .. grants
    /\ active # NoProfile => active.grant \in 1 .. grants
    /\ persisted # NoProfile => persisted.grant \in 1 .. grants
ProfileInv == ProfileTypeOK /\ LabelsAreGranted /\ OverStaysOver

(* The profile kept by reconcile, and what it tells to be over.            *)
LEMMA ReconcileLemma ==
    ASSUME ProfileInv
    PROVE  /\ Reconcile.kept \in {active, NoProfile}
           /\ Reconcile.kept = active => Reconcile.over = {} \/ active = NoProfile
           /\ Reconcile.over \subseteq 1 .. grants
           /\ Reconcile.over \subseteq {active.grant}
           /\ Reconcile.kept # NoProfile => Reconcile.kept = active /\ Reconcile.over = {}
  <1>1. CASE active # NoProfile /\ IsExpired(active)
    <2>1. Reconcile = [kept |-> NoProfile, over |-> {active.grant}]
      BY <1>1 DEF Reconcile
    <2>2. active.grant \in 1 .. grants
      BY <1>1 DEF ProfileInv, LabelsAreGranted
    <2> QED BY <1>1, <2>1, <2>2
  <1>2. CASE ~(active # NoProfile /\ IsExpired(active))
    <2>1. Reconcile = [kept |-> active, over |-> {}]
      BY <1>2 DEF Reconcile
    <2> QED BY <2>1
  <1> QED BY <1>1, <1>2

(* The lifecycle starts with no window and nothing over.                   *)
LEMMA ProfileInitLemma == ProfileInit => ProfileInv
  <1> SUFFICES ASSUME ProfileInit PROVE ProfileInv
    OBVIOUS
  <1>1. ProfileTypeOK
    BY ProfileAssumption DEF ProfileInit, ProfileTypeOK, Instant, Modes
  <1>2. LabelsAreGranted /\ OverStaysOver
    BY DEF ProfileInit, LabelsAreGranted, OverStaysOver
  <1> QED BY <1>1, <1>2 DEF ProfileInv

(* A refused start reconciles and changes nothing else.                    *)
LEMMA StartRefusedLemma ==
    ASSUME ProfileInv, NEW duration \in Durations, NEW now \in Instant,
           StartRefused(duration, now)
    PROVE  ProfileInv'
  <1>1. /\ active' = Reconcile.kept /\ ended' = ended \cup Reconcile.over
        /\ clock' = now /\ UNCHANGED <<persisted, grants>> /\ mode' \in Modes
    BY DEF StartRefused, Modes
  <1>2. ended' \subseteq 1 .. grants /\ 1 .. grants \subseteq 1 .. MaxGrants
    <2>1. Reconcile.over \subseteq 1 .. grants
      BY ReconcileLemma
    <2>2. ended' \subseteq 1 .. grants
      BY <1>1, <2>1 DEF ProfileInv, LabelsAreGranted
    <2>3. grants \in Nat /\ MaxGrants \in Nat /\ grants <= MaxGrants
      BY ProfileAssumption DEF ProfileInv, ProfileTypeOK
    <2> QED BY <2>2, <2>3
  <1>3. active' \in {active, NoProfile}
    BY <1>1, ReconcileLemma
  <1>4. ProfileTypeOK'
    BY <1>1, <1>2, <1>3 DEF ProfileInv, ProfileTypeOK
  <1>5. LabelsAreGranted'
    BY <1>1, <1>2, <1>3 DEF ProfileInv, LabelsAreGranted
  <1>6. OverStaysOver'
    BY <1>1, ReconcileLemma DEF ProfileInv, OverStaysOver
  <1> QED BY <1>4, <1>5, <1>6 DEF ProfileInv

(* A start labels its window with a grant of its own.                      *)
LEMMA StartLemma ==
    ASSUME ProfileInv, NEW duration \in Durations, NEW now \in Instant,
           Start(duration, now)
    PROVE  ProfileInv'
  <1>1. /\ active' = [grant |-> grants + 1, started_at |-> now, ends_at |-> now + duration]
        /\ grants' = grants + 1 /\ grants < MaxGrants
        /\ ended' = ended \cup Reconcile.over /\ mode' = "started"
        /\ now + duration <= LastInstant /\ clock' = now /\ UNCHANGED persisted
    BY DEF Start
  <1>2. /\ now \in Instant /\ duration \in Nat /\ grants \in Nat /\ MaxGrants \in Nat
        /\ LastInstant \in Nat
    BY ProfileAssumption DEF ProfileInv, ProfileTypeOK, Instant
  <1>3. ended' \subseteq 1 .. grants
    BY <1>1, ReconcileLemma DEF ProfileInv, LabelsAreGranted
  <1>4. active' \in Profile /\ active'.grant = grants + 1
    <2>1. grants + 1 \in 1 .. MaxGrants /\ now + duration \in Instant
      BY <1>1, <1>2 DEF Instant
    <2> QED BY <1>1, <1>2, <2>1 DEF Profile
  <1>5. ProfileTypeOK'
    <2>1. grants' \in 0 .. MaxGrants /\ ended' \subseteq 1 .. MaxGrants
      BY <1>1, <1>2, <1>3
    <2> QED BY <1>1, <1>4, <2>1 DEF ProfileInv, ProfileTypeOK, Modes
  <1>6. LabelsAreGranted'
    BY <1>1, <1>2, <1>3, <1>4 DEF ProfileInv, LabelsAreGranted
  <1>7. OverStaysOver'
    BY <1>2, <1>3, <1>4 DEF OverStaysOver
  <1> QED BY <1>5, <1>6, <1>7 DEF ProfileInv

(* Every other call leaves no window, or one that was labelled before.     *)
LEMMA EndLemma == ASSUME ProfileInv, End PROVE ProfileInv'
  <1>1. active' = NoProfile /\ UNCHANGED <<clock, persisted, grants>> /\ mode' \in Modes
    BY DEF End, Modes
  <1>2. ended' \subseteq 1 .. grants
    BY DEF End, ProfileInv, LabelsAreGranted
  <1>3. ProfileTypeOK'
    BY <1>1, <1>2, ProfileAssumption DEF ProfileInv, ProfileTypeOK
  <1> QED BY <1>1, <1>2, <1>3 DEF ProfileInv, LabelsAreGranted, OverStaysOver

LEMMA StateLemma == ASSUME ProfileInv, State PROVE ProfileInv'
  <1>1. /\ active' = Reconcile.kept /\ ended' = ended \cup Reconcile.over
        /\ UNCHANGED <<clock, persisted, grants>> /\ mode' \in Modes
    BY DEF State, Modes
  <1>2. ended' \subseteq 1 .. grants /\ 1 .. grants \subseteq 1 .. MaxGrants
    <2>1. Reconcile.over \subseteq 1 .. grants
      BY ReconcileLemma
    <2>2. ended' \subseteq 1 .. grants
      BY <1>1, <2>1 DEF ProfileInv, LabelsAreGranted
    <2>3. grants \in Nat /\ MaxGrants \in Nat /\ grants <= MaxGrants
      BY ProfileAssumption DEF ProfileInv, ProfileTypeOK
    <2> QED BY <2>2, <2>3
  <1>3. active' \in {active, NoProfile}
    BY <1>1, ReconcileLemma
  <1>4. ProfileTypeOK'
    BY <1>1, <1>2, <1>3 DEF ProfileInv, ProfileTypeOK
  <1>5. LabelsAreGranted'
    BY <1>1, <1>2, <1>3 DEF ProfileInv, LabelsAreGranted
  <1>6. OverStaysOver'
    BY <1>1, ReconcileLemma DEF ProfileInv, OverStaysOver
  <1> QED BY <1>4, <1>5, <1>6 DEF ProfileInv

LEMMA OtherStepsLemma ==
    ASSUME ProfileInv,
           Persist \/ Restart \/ (\E now \in Instant : SetTime(now)) \/ UNCHANGED profileVars
    PROVE  ProfileInv'
  <1>1. CASE Persist
    BY <1>1 DEF Persist, ProfileInv, ProfileTypeOK, LabelsAreGranted, OverStaysOver
  <1>2. CASE Restart
    BY <1>2 DEF Restart, ProfileInv, ProfileTypeOK, LabelsAreGranted, OverStaysOver, Modes
  <1>3. ASSUME NEW now \in Instant, SetTime(now) PROVE ProfileInv'
    BY <1>3 DEF SetTime, ProfileInv, ProfileTypeOK, LabelsAreGranted, OverStaysOver
  <1>4. CASE UNCHANGED profileVars
    BY <1>4 DEF profileVars, ProfileInv, ProfileTypeOK, LabelsAreGranted, OverStaysOver
  <1> QED BY <1>1, <1>2, <1>3, <1>4

(* A window seen over does not come back, however the clock is set, until  *)
(* the helper restarts (profile.rs:1-7).                                   *)
THEOREM OverStaysOverAlways == ProfileSpec => []OverStaysOver
  <1>1. ProfileInit => ProfileInv
    BY ProfileInitLemma
  <1>2. ProfileInv /\ [ProfileNext]_profileVars => ProfileInv'
    BY StartRefusedLemma, StartLemma, EndLemma, StateLemma, OtherStepsLemma DEF ProfileNext
  <1>3. ProfileInv => OverStaysOver
    BY DEF ProfileInv
  <1> QED BY <1>1, <1>2, <1>3, PTL DEF ProfileSpec
-----------------------------------------------------------------------------
(* The login item *)

Steps == {"idle", "read", "replace", "recheck", "change", "excuse", "confirm"}
LoginTypes ==
    /\ item \in [status : Status, copy : {"present", "older"}]
    /\ request \in [at : Steps, enabled : BOOLEAN]
    /\ touched \in BOOLEAN

(* What the calls so far have made of an item that nobody else changed.    *)
(* An enable changes nothing that is enabled, it excuses an enabled item   *)
(* only when its own failing call has made it so, and it confirms a        *)
(* registration that is its own; a disable confirms none.                  *)
Undisturbed ==
    ~touched =>
        /\ AtStep("change") /\ request.enabled => item.status \notin {"enabled", "unknown"}
        /\ AtStep("excuse") /\ request.enabled /\ item.status = "enabled" =>
             item.copy = "present"
        /\ AtStep("confirm") =>
             IF request.enabled THEN item.status \in Registered /\ item.copy = "present"
             ELSE item.status = "notRegistered"

LoginInv == LoginTypes /\ Undisturbed /\ EnabledIsCurrent

(* A request that goes on leaves its direction and its answer alone.       *)
LEMMA NextStepFacts ==
    ASSUME LoginTypes, NEW step \in Steps, NextStep(step)
    PROVE  /\ request' \in [at : Steps, enabled : BOOLEAN]
           /\ request'.at = step /\ request'.enabled = request.enabled
           /\ UNCHANGED <<touched, answer>>
  BY DEF LoginTypes, NextStep

(* An answer is right when it tells what the item is.                      *)
LEMMA ReplyLemma ==
    ASSUME LoginInv, NEW said, Reply(said), UNCHANGED item,
           ~touched => /\ said = "Enabled" => item = [status |-> "enabled", copy |-> "present"]
                       /\ said = "Disabled" => item.status # "enabled"
    PROVE  LoginInv'
  <1>1. /\ request' \in [at : Steps, enabled : BOOLEAN] /\ request'.at = "idle"
        /\ answer' = said /\ UNCHANGED <<touched, item>>
    BY DEF Reply, LoginInv, LoginTypes, Steps
  <1> QED BY <1>1 DEF LoginInv, LoginTypes, Undisturbed, EnabledIsCurrent, AtStep

(* A native call leaves a status the system knows.                         *)
LEMMA NativeCallTypes ==
    ASSUME LoginTypes, NEW yes, NEW no, Register(yes, no) \/ Unregister(yes, no)
    PROVE  item' \in [status : Status, copy : {"present", "older"}]
  BY DEF LoginTypes, Register, Unregister, Registered, Status

(* Between two calls of a request the item is as the last one left it.     *)
LEMMA RequestLemma ==
    ASSUME LoginInv,
           (\E enabled \in BOOLEAN : SetEnabled(enabled)) \/ ReadCurrent \/ ReplaceStale
             \/ Recheck \/ Change \/ Excuse \/ Confirm
    PROVE  LoginInv'
  <1> USE DEF AtStep
  <1>1. CASE \E enabled \in BOOLEAN : SetEnabled(enabled)
    <2>1. PICK enabled \in BOOLEAN : SetEnabled(enabled)
      BY <1>1
    <2>2. request'.at = "read" /\ request' \in [at : Steps, enabled : BOOLEAN]
          /\ touched' = FALSE /\ UNCHANGED item
      BY <2>1 DEF SetEnabled, Steps
    <2> QED BY <2>2 DEF LoginInv, LoginTypes, Undisturbed, EnabledIsCurrent
  <1>2. CASE ReadCurrent
    <2>1. CASE Reading = "error" \/ (~request.enabled /\ Reading = "Disabled")
      <3>1. Reply(Reading) /\ UNCHANGED item
        BY <1>2, <2>1 DEF ReadCurrent
      <3>2. Reading # "Enabled" /\ (Reading = "Disabled" => item.status # "enabled")
        BY <2>1 DEF Reading
      <3> QED BY <3>1, <3>2, ReplyLemma
    <2>2. CASE Reading # "error" /\ request.enabled /\ Reading = "Enabled"
      <3>1. NextStep("replace") /\ UNCHANGED item
        BY <1>2, <2>2 DEF ReadCurrent
      <3> QED BY <3>1, NextStepFacts
              DEF Steps, LoginInv, LoginTypes, Undisturbed, EnabledIsCurrent
    <2>3. CASE /\ Reading # "error" /\ ~(~request.enabled /\ Reading = "Disabled")
               /\ ~(request.enabled /\ Reading = "Enabled")
      <3>1. NextStep("change") /\ UNCHANGED item
        BY <1>2, <2>3 DEF ReadCurrent
      <3>2. request.enabled => item.status \notin {"enabled", "unknown"}
        BY <2>3 DEF Reading
      <3> QED BY <3>1, <3>2, NextStepFacts
              DEF Steps, LoginInv, LoginTypes, Undisturbed, EnabledIsCurrent
    <2> QED BY <2>1, <2>2, <2>3
  <1>3. CASE ReplaceStale
    <2>1. item' \in [status : Status, copy : {"present", "older"}]
      BY <1>3, NativeCallTypes DEF ReplaceStale, LoginInv
    <2>2. \/ item'.status = "notRegistered" /\ NextStep("change")
          \/ NextStep("recheck")
      BY <1>3 DEF ReplaceStale, Unregister, LoginInv, LoginTypes
    <2> QED BY <2>1, <2>2, NextStepFacts
            DEF Steps, LoginInv, LoginTypes, Undisturbed, EnabledIsCurrent
  <1>4. CASE Recheck
    <2>1. CASE Reading = "Disabled"
      <3>1. NextStep("change") /\ UNCHANGED item /\ item.status \notin {"enabled", "unknown"}
        BY <1>4, <2>1 DEF Recheck, Reading
      <3> QED BY <3>1, NextStepFacts
              DEF Steps, LoginInv, LoginTypes, Undisturbed, EnabledIsCurrent
    <2>2. CASE Reading # "Disabled"
      <3>1. Reply("error") /\ UNCHANGED item
        BY <1>4, <2>2 DEF Recheck
      <3> QED BY <3>1, ReplyLemma
    <2> QED BY <2>1, <2>2
  <1>5. CASE Change
    <2>1. item' \in [status : Status, copy : {"present", "older"}]
      BY <1>5, NativeCallTypes DEF Change, LoginInv
    <2>2. CASE request.enabled
      <3>1. \/ item'.status \in Registered /\ item'.copy = "present" /\ NextStep("confirm")
            \/ item'.copy = "present" /\ NextStep("excuse")
            \/ UNCHANGED item /\ NextStep("excuse")
        BY <1>5, <2>2 DEF Change, Register
      <3>2. ~touched => item.status # "enabled"
        BY <1>5, <2>2 DEF Change, LoginInv, Undisturbed
      <3> QED BY <2>1, <2>2, <3>1, <3>2, NextStepFacts
              DEF Steps, LoginInv, LoginTypes, Undisturbed, EnabledIsCurrent
    <2>3. CASE ~request.enabled
      <3>1. \/ item'.status = "notRegistered" /\ NextStep("confirm")
            \/ NextStep("excuse")
        BY <1>5, <2>3 DEF Change, Unregister, LoginInv, LoginTypes
      <3> QED BY <2>1, <2>3, <3>1, NextStepFacts
              DEF Steps, LoginInv, LoginTypes, Undisturbed, EnabledIsCurrent
    <2> QED BY <2>2, <2>3
  <1>6. CASE Excuse
    <2> DEFINE said == IF Reading = Desired THEN Reading ELSE "error"
    <2>1. Reply(said) /\ UNCHANGED item
      BY <1>6 DEF Excuse
    <2>2. ~touched /\ said = "Enabled" => item = [status |-> "enabled", copy |-> "present"]
      <3>1. said = "Enabled" => item.status = "enabled" /\ request.enabled
        BY DEF Reading, Desired
      <3> QED BY <1>6, <3>1 DEF Excuse, LoginInv, LoginTypes, Undisturbed
    <2>3. said = "Disabled" => item.status # "enabled"
      BY DEF Reading
    <2> QED BY <2>1, <2>2, <2>3, ReplyLemma
  <1>7. CASE Confirm
    <2>1. Reply(Reading) /\ UNCHANGED item
      BY <1>7 DEF Confirm
    <2>2. Reading = "Disabled" => item.status # "enabled"
      BY DEF Reading
    <2>3. ~touched /\ Reading = "Enabled" => item = [status |-> "enabled", copy |-> "present"]
      <3>1. Reading = "Enabled" => item.status = "enabled"
        BY DEF Reading
      <3> QED BY <1>7, <3>1 DEF Confirm, LoginInv, LoginTypes, Undisturbed
    <2> QED BY <2>1, <2>2, <2>3, ReplyLemma
  <1> QED BY <1>1, <1>2, <1>3, <1>4, <1>5, <1>6, <1>7

(* Whoever interferes is remembered until the next request.                *)
LEMMA InterferenceLemma ==
    ASSUME LoginInv, UserChanges \/ Upgrade \/ UNCHANGED loginVars PROVE LoginInv'
  <1>1. CASE UserChanges \/ Upgrade
    BY <1>1 DEF UserChanges, Upgrade, LoginInv, LoginTypes, Undisturbed, EnabledIsCurrent,
                Registered, Status
  <1>2. CASE UNCHANGED loginVars
    BY <1>2 DEF loginVars, LoginInv, LoginTypes, Undisturbed, EnabledIsCurrent, AtStep
  <1> QED BY <1>1, <1>2

(* Unless the user interferes, an enable that answers Enabled has left a   *)
(* registration of the present copy (login_item.rs:53-58).                 *)
THEOREM EnabledIsCurrentAlways == LoginSpec => []EnabledIsCurrent
  <1>1. LoginInit => LoginInv
    <2> SUFFICES ASSUME LoginInit PROVE LoginInv
      OBVIOUS
    <2>1. /\ request.at = "idle" /\ request \in [at : Steps, enabled : BOOLEAN]
          /\ touched = FALSE /\ answer = "none"
      BY DEF LoginInit, NoRequest, Steps
    <2>2. item \in [status : Status, copy : {"present", "older"}]
      BY DEF LoginInit, Status
    <2> QED BY <2>1, <2>2 DEF LoginInv, LoginTypes, Undisturbed, EnabledIsCurrent, AtStep
  <1>2. LoginInv /\ [LoginNext]_loginVars => LoginInv'
    BY RequestLemma, InterferenceLemma DEF LoginNext
  <1>3. LoginInv => EnabledIsCurrent
    BY DEF LoginInv
  <1> QED BY <1>1, <1>2, <1>3, PTL DEF LoginSpec

-----------------------------------------------------------------------------
(* The manifest *)

(* The four lines of a manifest with identifiers of one line.              *)
FourLines(m) ==
    <<KeyValue("version", FormatVersion), KeyValue("capture_id", m.capture_id[1]),
      KeyValue("generation_id", m.generation_id[1]),
      KeyValue("captured_at_ms", m.captured_at.ms)>>

(* What is sealed is a bundle's metadata, dated, with its own manifest.    *)
SealedWithItsManifest ==
    sealed # NoBundle =>
        /\ sealed.metadata \in Metadata /\ sealed.metadata.captured_at # NoTime
        /\ sealed.manifest = Manifest(sealed.metadata.capture_id, sealed.metadata.generation_id,
                                      sealed.metadata.captured_at)

(* An identifier of one line is that line.                                 *)
LEMMA OneLineIdentified ==
    ASSUME NEW key, NEW id \in Identifiers, OneLine(id)
    PROVE  /\ id = <<id[1]>> /\ id[1] \in Seq(Character) /\ id[1] # <<>>
           /\ Identified(key, id) = <<KeyValue(key, id[1])>>
  <1>1. id \in Seq(Seq(Character)) /\ Len(id) = 1
    BY BridgeAssumption DEF OneLine
  <1>2. id = <<id[1]>> /\ id[1] \in Seq(Character) /\ Head(id) = id[1]
    BY <1>1
  <1>3. [i \in 1 .. Len(id) - 1 |-> Bare(id[i + 1])] = <<>>
    BY <1>1
  <1>4. Identified(key, id) = <<KeyValue(key, id[1])>> \o <<>>
    BY <1>2, <1>3 DEF Identified
  <1>5. id[1] # <<>>
    BY <1>2, BridgeAssumption
  <1> QED BY <1>2, <1>4, <1>5

(* A sequence that goes on with one element, and four of one element      *)
(* joined.                                                                 *)
LEMMA Extend ==
    ASSUME NEW S, NEW s \in Seq(S), NEW t \in Seq(S), NEW e \in S,
           Len(t) = Len(s) + 1, \A i \in 1 .. Len(s) : t[i] = s[i], t[Len(s) + 1] = e
    PROVE  s \o <<e>> = t
  <1>1. /\ Append(s, e) \in Seq(S) /\ Len(Append(s, e)) = Len(s) + 1
        /\ \A i \in 1 .. Len(s) : Append(s, e)[i] = s[i]
        /\ Append(s, e)[Len(s) + 1] = e
    BY AppendProperties
  <1>2. \A i \in 1 .. Len(t) : Append(s, e)[i] = t[i]
    BY <1>1
  <1>3. Append(s, e) = t
    BY <1>1, <1>2, SeqEqual
  <1> QED BY <1>3, AppendIsConcat

LEMMA FourJoined ==
    ASSUME NEW a, NEW b, NEW c, NEW d
    PROVE  <<a>> \o <<b>> \o <<c>> \o <<d>> = <<a, b, c, d>>
  <1> DEFINE S == {a, b, c, d}
             one == <<a>>
             two == <<a, b>>
             three == <<a, b, c>>
             four == <<a, b, c, d>>
  <1>1. /\ one \in Seq(S) /\ two \in Seq(S) /\ three \in Seq(S) /\ four \in Seq(S)
        /\ b \in S /\ c \in S /\ d \in S
    OBVIOUS
  <1>2. /\ Len(two) = Len(one) + 1 /\ two[Len(one) + 1] = b
        /\ \A i \in 1 .. Len(one) : two[i] = one[i]
    OBVIOUS
  <1>3. /\ Len(three) = Len(two) + 1 /\ three[Len(two) + 1] = c
        /\ \A i \in 1 .. Len(two) : three[i] = two[i]
    OBVIOUS
  <1>4. /\ Len(four) = Len(three) + 1 /\ four[Len(three) + 1] = d
        /\ \A i \in 1 .. Len(three) : four[i] = three[i]
    OBVIOUS
  <1> HIDE DEF S, one, two, three, four
  <1>5. one \o <<b>> = two
    BY <1>1, <1>2, Extend, Zenon
  <1>6. two \o <<c>> = three
    BY <1>1, <1>3, Extend, Zenon
  <1>7. three \o <<d>> = four
    BY <1>1, <1>4, Extend, Zenon
  <1>8. one \o <<b>> \o <<c>> \o <<d>> = four
    BY <1>5, <1>6, <1>7, Zenon
  <1> QED BY <1>8, Zenon DEF one, four

LEMMA OneLineManifest ==
    ASSUME NEW m \in Metadata, OneLine(m.capture_id), OneLine(m.generation_id),
           m.captured_at # NoTime
    PROVE  Manifest(m.capture_id, m.generation_id, m.captured_at) = FourLines(m)
  <1>1. m.capture_id \in Identifiers /\ m.generation_id \in Identifiers
    BY DEF Metadata
  <1>2. /\ Identified("capture_id", m.capture_id) = <<KeyValue("capture_id", m.capture_id[1])>>
        /\ Identified("generation_id", m.generation_id)
             = <<KeyValue("generation_id", m.generation_id[1])>>
    BY <1>1, OneLineIdentified
  <1>3. Manifest(m.capture_id, m.generation_id, m.captured_at)
          = <<KeyValue("version", FormatVersion)>>
              \o <<KeyValue("capture_id", m.capture_id[1])>>
              \o <<KeyValue("generation_id", m.generation_id[1])>>
              \o <<KeyValue("captured_at_ms", m.captured_at.ms)>>
    BY <1>2 DEF Manifest
  <1> QED BY <1>3, FourJoined, Zenon DEF FourLines

(* Lines without carriage returns are read as they are, and the rest after *)
(* them.                                                                   *)
LEMMA LinesAre ==
    ASSUME NEW S, NEW whole \in Seq(S), NEW rest \in Seq(S),
           \A i \in 1 .. Len(whole) : ~EndsInCR(whole[i].value)
    PROVE  /\ DOMAIN Lines(whole, rest) = 1 .. Len(whole) + Len(rest)
           /\ \A i \in 1 .. Len(whole) : Lines(whole, rest)[i] = whole[i]
           /\ \A i \in 1 .. Len(rest) : Lines(whole, rest)[Len(whole) + i] = rest[i]
  <1> DEFINE start == [i \in DOMAIN whole |-> Stripped(whole[i])]
  <1>1. DOMAIN whole = 1 .. Len(whole) /\ Len(whole) \in Nat /\ Len(rest) \in Nat
    OBVIOUS
  <1>2. \A i \in 1 .. Len(whole) : Stripped(whole[i]) = whole[i]
    BY DEF Stripped
  <1>3. start = whole
    BY <1>1, <1>2
  <1>4. Lines(whole, rest) = whole \o rest
    BY <1>3 DEF Lines
  <1>5. /\ whole \o rest \in Seq(S) /\ Len(whole \o rest) = Len(whole) + Len(rest)
        /\ \A i \in 1 .. Len(whole) + Len(rest) :
              (whole \o rest)[i] = IF i <= Len(whole) THEN whole[i] ELSE rest[i - Len(whole)]
    BY ConcatProperties
  <1>6. \A i \in 1 .. Len(rest) : (whole \o rest)[Len(whole) + i] = rest[i]
    BY <1>1, <1>5
  <1> QED BY <1>1, <1>4, <1>5, <1>6

(* The value of a key, when there is one line of it or none.               *)
LEMMA TheLineOf ==
    ASSUME NEW lines, NEW key, DOMAIN lines \subseteq Int, NEW i \in DOMAIN lines,
           \A j \in DOMAIN lines : lines[j].key = key <=> j = i
    PROVE  Given(lines, key) = {lines[i].value}
  BY DEF Given

LEMMA NoLineOf ==
    ASSUME NEW lines, NEW key, \A j \in DOMAIN lines : lines[j].key # key
    PROVE  Given(lines, key) = {}
  BY DEF Given

(* Without a time nothing is read.                                         *)
LEMMA UntimedIsRefused ==
    ASSUME NEW lines, NEW expected, \A j \in DOMAIN lines : lines[j].key # "captured_at_ms"
    PROVE  FromManifest(lines, expected) = Refused
  BY NoLineOf DEF FromManifest

(* Four lines that differ from a manifest at most in their time read as    *)
(* what was sealed at that time.                                           *)
LEMMA FourLinesParse ==
    ASSUME NEW m \in Metadata, OneLine(m.capture_id), OneLine(m.generation_id),
           NEW lines, NEW ms, NEW expected \in Identifiers, DOMAIN lines = 1 .. 4,
           lines[1] = KeyValue("version", FormatVersion),
           lines[2] = KeyValue("capture_id", m.capture_id[1]),
           lines[3] = KeyValue("generation_id", m.generation_id[1]),
           lines[4] = KeyValue("captured_at_ms", ms)
    PROVE  FromManifest(lines, expected) =
             IF expected = m.capture_id /\ IsNumeral(ms) THEN AtMillis(m, ms) ELSE Refused
  <1>1. m.capture_id \in Identifiers /\ m.generation_id \in Identifiers
    BY DEF Metadata
  <1>2. /\ m.capture_id = <<m.capture_id[1]>>
        /\ m.generation_id = <<m.generation_id[1]>> /\ m.generation_id[1] # <<>>
    BY <1>1, OneLineIdentified
  <1>3. /\ lines[1].key = "version" /\ lines[1].value = FormatVersion
        /\ lines[2].key = "capture_id" /\ lines[2].value = m.capture_id[1]
        /\ lines[3].key = "generation_id" /\ lines[3].value = m.generation_id[1]
        /\ lines[4].key = "captured_at_ms" /\ lines[4].value = ms
    BY DEF KeyValue
  <1>4. \A i \in DOMAIN lines : i = 1 \/ i = 2 \/ i = 3 \/ i = 4
    OBVIOUS
  <1>5. Given(lines, "version") = {FormatVersion}
    <2>1. \A j \in DOMAIN lines : lines[j].key = "version" <=> j = 1
      BY <1>3, <1>4
    <2> QED BY <1>3, <2>1, TheLineOf
  <1>6. Given(lines, "capture_id") = {m.capture_id[1]}
    <2>1. \A j \in DOMAIN lines : lines[j].key = "capture_id" <=> j = 2
      BY <1>3, <1>4
    <2> QED BY <1>3, <2>1, TheLineOf
  <1>7. Given(lines, "generation_id") = {m.generation_id[1]}
    <2>1. \A j \in DOMAIN lines : lines[j].key = "generation_id" <=> j = 3
      BY <1>3, <1>4
    <2> QED BY <1>3, <2>1, TheLineOf
  <1>8. Given(lines, "captured_at_ms") = {ms}
    <2>1. \A j \in DOMAIN lines : lines[j].key = "captured_at_ms" <=> j = 4
      BY <1>3, <1>4
    <2> QED BY <1>3, <2>1, TheLineOf
  <1>9. \A i \in DOMAIN lines : lines[i].key \in Keys
    BY <1>3, <1>4 DEF Keys
  <1>10. {<<id>> : id \in Given(lines, "capture_id")} = {m.capture_id}
    BY <1>2, <1>6
  <1>11. \E g \in Given(lines, "generation_id") : g # <<>>
    BY <1>2, <1>7
  <1>12. (\E t \in Given(lines, "captured_at_ms") : IsNumeral(t)) <=> IsNumeral(ms)
    BY <1>8
  <1>13. /\ (CHOOSE g \in Given(lines, "generation_id") : TRUE) = m.generation_id[1]
         /\ (CHOOSE t \in Given(lines, "captured_at_ms") : TRUE) = ms
    BY <1>7, <1>8
  <1>14. {m.capture_id} = {expected} <=> expected = m.capture_id
    OBVIOUS
  <1>15. expected = m.capture_id => Parsed(m.generation_id[1], ms, expected) = AtMillis(m, ms)
    BY <1>2 DEF Parsed, AtMillis
  <1> QED BY <1>5, <1>9, <1>10, <1>11, <1>12, <1>13, <1>14, <1>15 DEF FromManifest

(* What there is to know of the four lines.                                *)
LEMMA FourLinesFacts ==
    ASSUME NEW m \in Metadata, OneLine(m.capture_id), OneLine(m.generation_id),
           m.captured_at # NoTime
    PROVE  /\ m.captured_at.ms \in Seq(Digits) /\ IsNumeral(m.captured_at.ms)
           /\ Len(FourLines(m)) = 4
           /\ \A i \in 1 .. 4 : ~EndsInCR(FourLines(m)[i].value)
  <1>1. m.captured_at \in Moment
    BY DEF Metadata
  <1>2. m.captured_at.ms \in Seq(Digits) /\ m.captured_at.ms # <<>>
    BY <1>1, BridgeAssumption DEF Moment
  <1>3. IsNumeral(m.captured_at.ms)
    BY <1>2 DEF IsNumeral
  <1>4. ~EndsInCR(m.captured_at.ms)
    <2>1. m.captured_at.ms[Len(m.captured_at.ms)] \in Digits
      BY <1>2
    <2> QED BY <2>1 DEF EndsInCR, Digits, CR
  <1>5. ~EndsInCR(FormatVersion)
    BY DEF EndsInCR, FormatVersion, CR
  <1>6. /\ FourLines(m)[1].value = FormatVersion /\ FourLines(m)[2].value = m.capture_id[1]
        /\ FourLines(m)[3].value = m.generation_id[1]
        /\ FourLines(m)[4].value = m.captured_at.ms /\ Len(FourLines(m)) = 4
    BY DEF FourLines, KeyValue
  <1>7. ~EndsInCR(m.capture_id[1]) /\ ~EndsInCR(m.generation_id[1])
    BY DEF OneLine
  <1> QED BY <1>2, <1>3, <1>4, <1>5, <1>6, <1>7

(* The whole of a manifest reads as what was sealed.                       *)
LEMMA WholeLemma ==
    ASSUME NEW m \in Metadata, OneLine(m.capture_id), OneLine(m.generation_id),
           m.captured_at # NoTime
    PROVE  WholeReadsAsSealed(m, FourLines(m))
  <1> SUFFICES ASSUME NEW expected \in Identifiers
               PROVE  FromManifest(Lines(FourLines(m), <<>>), expected) =
                        IF expected = m.capture_id THEN AtMillis(m, m.captured_at.ms)
                        ELSE Refused
    BY DEF WholeReadsAsSealed
  <1> DEFINE S == {FourLines(m)[i] : i \in 1 .. 4}
             lines == Lines(FourLines(m), <<>>)
  <1>1. FourLines(m) \in Seq(S) /\ <<>> \in Seq(S)
    BY DEF FourLines
  <1>2. DOMAIN lines = 1 .. 4 /\ \A i \in 1 .. 4 : lines[i] = FourLines(m)[i]
    <2>1. \A i \in 1 .. Len(FourLines(m)) : ~EndsInCR(FourLines(m)[i].value)
      BY FourLinesFacts
    <2>2. /\ DOMAIN lines = 1 .. Len(FourLines(m)) + Len(<<>>)
          /\ \A i \in 1 .. Len(FourLines(m)) : lines[i] = FourLines(m)[i]
      <3> HIDE DEF S
      <3> QED BY <1>1, <2>1, LinesAre, Zenon
    <2> QED BY <2>2, FourLinesFacts
  <1>3. /\ lines[1] = KeyValue("version", FormatVersion)
        /\ lines[2] = KeyValue("capture_id", m.capture_id[1])
        /\ lines[3] = KeyValue("generation_id", m.generation_id[1])
        /\ lines[4] = KeyValue("captured_at_ms", m.captured_at.ms)
    BY <1>2 DEF FourLines
  <1> HIDE DEF lines
  <1>4. FromManifest(lines, expected) =
          IF expected = m.capture_id /\ IsNumeral(m.captured_at.ms)
          THEN AtMillis(m, m.captured_at.ms) ELSE Refused
    BY <1>2, <1>3, FourLinesParse
  <1> QED BY <1>4, FourLinesFacts DEF lines

(* What a cut leaves of it is refused, or differs in its time alone.       *)
LEMMA TornLemma ==
    ASSUME NEW m \in Metadata, OneLine(m.capture_id), OneLine(m.generation_id),
           m.captured_at # NoTime
    PROVE  TornIsRefusedOrEarlier(m, FourLines(m))
  <1> DEFINE all == FourLines(m)
  <1> SUFFICES ASSUME NEW expected \in Identifiers, NEW whole \in 0 .. Len(all) - 1,
                      NEW rest \in Rests(all[whole + 1]),
                      FromManifest(Lines(SubSeq(all, 1, whole), rest), expected) # Refused
               PROVE  /\ expected = m.capture_id
                      /\ \E n \in 1 .. Len(m.captured_at.ms) :
                            FromManifest(Lines(SubSeq(all, 1, whole), rest), expected)
                              = AtMillis(m, SubSeq(m.captured_at.ms, 1, n))
    BY DEF TornIsRefusedOrEarlier
  <1> DEFINE S == {all[i] : i \in 1 .. 4} \cup {rest[i] : i \in DOMAIN rest}
             start == SubSeq(all, 1, whole)
             lines == Lines(start, rest)
  <1>1. Len(all) = 4 /\ whole \in 0 .. 3 /\ m.captured_at.ms \in Seq(Digits)
    BY FourLinesFacts
  <1>2. /\ all[1] = KeyValue("version", FormatVersion)
        /\ all[2] = KeyValue("capture_id", m.capture_id[1])
        /\ all[3] = KeyValue("generation_id", m.generation_id[1])
        /\ all[4] = KeyValue("captured_at_ms", m.captured_at.ms)
    BY DEF FourLines
  <1>3. \/ rest = <<>>
        \/ rest = <<Bare(<<"part of a key">>)>>
        \/ \E n \in 0 .. Len(all[whole + 1].value) :
              rest = <<KeyValue(all[whole + 1].key, SubSeq(all[whole + 1].value, 1, n))>>
    BY DEF Rests
  <1>4. all \in Seq(S) /\ \A i \in 1 .. 4 : ~EndsInCR(all[i].value)
    BY FourLinesFacts DEF FourLines
  <1>5. /\ start \in Seq(S) /\ Len(start) = whole
        /\ \A i \in 1 .. whole : start[i] = all[i]
    <2>1. \A i \in 1 .. whole : all[i] \in S
      BY <1>1
    <2> HIDE DEF all, S
    <2>2. /\ start \in Seq(S) /\ Len(start) = IF 1 <= whole THEN whole - 1 + 1 ELSE 0
          /\ \A i \in 1 .. whole - 1 + 1 : start[i] = all[1 + i - 1]
      BY <1>1, <2>1, SubSeqProperties
    <2> QED BY <1>1, <2>2
  <1>6. rest \in Seq(S) /\ (rest = <<>> \/ Len(rest) = 1)
    <2>1. CASE rest = <<>>
      BY <2>1
    <2>2. ASSUME NEW line, rest = <<line>> PROVE rest \in Seq(S) /\ Len(rest) = 1
      <3>1. DOMAIN rest = {1} /\ rest[1] = line
        BY <2>2
      <3>2. line \in S
        BY <3>1
      <3> HIDE DEF all, S
      <3> QED BY <2>2, <3>2
    <2> HIDE DEF all, S
    <2> QED BY <1>3, <2>1, <2>2
  <1>7. /\ DOMAIN lines = 1 .. whole + Len(rest)
        /\ \A i \in 1 .. whole : lines[i] = all[i]
        /\ \A i \in 1 .. Len(rest) : lines[whole + i] = rest[i]
    <2>1. \A i \in 1 .. Len(start) : ~EndsInCR(start[i].value)
      BY <1>1, <1>4, <1>5
    <2>2. /\ DOMAIN lines = 1 .. Len(start) + Len(rest)
          /\ \A i \in 1 .. Len(start) : lines[i] = start[i]
          /\ \A i \in 1 .. Len(rest) : lines[Len(start) + i] = rest[i]
      <3> HIDE DEF all, S, start, lines
      <3>1. start \in Seq(S) /\ rest \in Seq(S)
        BY <1>5, <1>6, Zenon
      <3> QED BY <2>1, <3>1, LinesAre DEF lines
    <2> HIDE DEF all, S, start, lines
    <2> QED BY <1>5, <2>2
  <1> HIDE DEF all, S, start, lines
  <1>8. \E j \in DOMAIN lines : lines[j].key = "captured_at_ms"
    BY UntimedIsRefused DEF lines, start
  <1>9. \A i \in 1 .. 3 : all[i].key # "captured_at_ms"
    BY <1>2 DEF KeyValue
  <1>10. Len(rest) = 1 /\ rest[1].key = "captured_at_ms"
    <2>1. PICK j \in DOMAIN lines : lines[j].key = "captured_at_ms"
      BY <1>8
    <2>2. j \notin 1 .. whole
      BY <1>1, <1>7, <1>9, <2>1
    <2>3. rest # <<>>
      BY <1>1, <1>7, <2>1, <2>2
    <2>4. j = whole + 1 /\ Len(rest) = 1
      BY <1>1, <1>6, <1>7, <2>1, <2>2, <2>3
    <2>5. lines[whole + 1] = rest[1]
      BY <1>7, <2>4
    <2> QED BY <2>1, <2>4, <2>5
  <1>11. PICK n \in 0 .. Len(all[whole + 1].value) :
           rest = <<KeyValue(all[whole + 1].key, SubSeq(all[whole + 1].value, 1, n))>>
    <2>1. rest # <<>>
      <3>1. Len(<<>>) # 1
        OBVIOUS
      <3> QED BY <1>10, <3>1, Zenon
    <2>2. rest # <<Bare(<<"part of a key">>)>>
      <3>1. <<Bare(<<"part of a key">>)>>[1].key = "no key"
        BY DEF Bare
      <3> QED BY <1>10, <3>1
    <2> QED BY <1>3, <2>1, <2>2, Zenon
  <1>12. whole = 3
    <2>1. rest[1].key = all[whole + 1].key
      BY <1>1, <1>2, <1>11 DEF KeyValue
    <2> QED BY <1>1, <1>9, <1>10, <2>1
  <1> DEFINE ms == SubSeq(m.captured_at.ms, 1, n)
  <1>13. n \in 0 .. Len(m.captured_at.ms) /\ rest = <<KeyValue("captured_at_ms", ms)>>
    <2>1. all[whole + 1].key = "captured_at_ms" /\ all[whole + 1].value = m.captured_at.ms
      BY <1>2, <1>12 DEF KeyValue
    <2> QED BY <1>11, <2>1, Zenon
  <1>14. /\ DOMAIN lines = 1 .. 4
         /\ lines[1] = KeyValue("version", FormatVersion)
         /\ lines[2] = KeyValue("capture_id", m.capture_id[1])
         /\ lines[3] = KeyValue("generation_id", m.generation_id[1])
         /\ lines[4] = KeyValue("captured_at_ms", ms)
    BY <1>2, <1>7, <1>10, <1>12, <1>13
  <1>15. FromManifest(lines, expected) =
           IF expected = m.capture_id /\ IsNumeral(ms) THEN AtMillis(m, ms) ELSE Refused
    BY <1>14, FourLinesParse
  <1>16. expected = m.capture_id /\ IsNumeral(ms)
    BY <1>15 DEF lines, start
  <1>17. n \in 1 .. Len(m.captured_at.ms)
    <2>1. n = 0 => ms = <<>>
      BY <1>1
    <2> QED BY <1>13, <1>16, <2>1 DEF IsNumeral
  <1> QED BY <1>15, <1>16, <1>17 DEF lines, start

-----------------------------------------------------------------------------
(* The bridge and the sealing *)

(* Only a seal that the rules allow and that has a manifest is a bundle,   *)
(* and no call of the bridge touches one.                                  *)
LEMMA SealLemma ==
    ASSUME SealedWithItsManifest, BridgeNext \/ SealingNext \/ UNCHANGED bridgeVars
    PROVE  SealedWithItsManifest'
  <1>1. CASE UNCHANGED sealed
    BY <1>1 DEF SealedWithItsManifest
  <1>2. ASSUME NEW a, NEW w, NEW m \in Metadata, SealIfAllowed(a, w, m), sealed' # sealed
        PROVE  SealedWithItsManifest'
    <2> DEFINE manifest == Manifest(m.capture_id, m.generation_id, m.captured_at)
    <2>1. manifest # Refused /\ sealed' = [metadata |-> m, manifest |-> manifest]
      BY <1>2 DEF SealIfAllowed
    <2>2. m.captured_at # NoTime
      BY <2>1 DEF Manifest
    <2>3. sealed'.metadata = m /\ sealed'.manifest = manifest
      BY <2>1
    <2> QED BY <2>2, <2>3 DEF SealedWithItsManifest
  <1>3. CASE BridgeNext \/ UNCHANGED bridgeVars
    <2>1. UNCHANGED sealed
      BY <1>3 DEF BridgeNext, CreateSucceeds, CreateFails, Destroy, PublicKey, Seal, LastError,
                  KeyFile, Untouched, bridgeVars
    <2> QED BY <1>1, <2>1
  <1>4. CASE SealingNext
    BY <1>1, <1>2, <1>4 DEF SealingNext, Exclude
  <1> QED BY <1>3, <1>4

(* The manifest of a bundle whose identifiers are of one line that ends in *)
(* no carriage return reads as what was sealed, to the millisecond, and    *)
(* what a cut leaves of it is refused or differs in its time alone         *)
(* (bundle.rs:78-137).                                                     *)
THEOREM ManifestIsFaithfulAlways == BridgeSpec => []ManifestIsFaithful
  <1>1. BridgeInit => SealedWithItsManifest
    BY DEF BridgeInit, SealedWithItsManifest
  <1>2. SealedWithItsManifest /\ [BridgeNext \/ SealingNext]_bridgeVars
          => SealedWithItsManifest'
    BY SealLemma
  <1>3. SealedWithItsManifest => ManifestIsFaithful
    <2> SUFFICES ASSUME SealedWithItsManifest, sealed # NoBundle,
                        OneLine(sealed.metadata.capture_id),
                        OneLine(sealed.metadata.generation_id)
                 PROVE  /\ WholeReadsAsSealed(sealed.metadata, sealed.manifest)
                        /\ TornIsRefusedOrEarlier(sealed.metadata, sealed.manifest)
      BY DEF ManifestIsFaithful
    <2>1. /\ sealed.metadata \in Metadata /\ sealed.metadata.captured_at # NoTime
          /\ sealed.manifest = FourLines(sealed.metadata)
      BY OneLineManifest DEF SealedWithItsManifest
    <2> QED BY <2>1, WholeLemma, TornLemma
  <1> QED BY <1>1, <1>2, <1>3, PTL DEF BridgeSpec

-----------------------------------------------------------------------------
(* The three in one app *)

(* A behaviour of the app is one of each of its parts, so it keeps what    *)
(* they promise.                                                           *)
THEOREM HelperKeepsItsPromises ==
    Spec => [](OverStaysOver /\ EnabledIsCurrent /\ ManifestIsFaithful)
  <1>1. Init => ProfileInit /\ LoginInit /\ BridgeInit
    BY DEF Init
  <1>2. [Next]_vars => /\ [ProfileNext]_profileVars
                       /\ [LoginNext]_loginVars
                       /\ [BridgeNext \/ SealingNext]_bridgeVars
    BY DEF Next, vars
  <1>3. Spec => ProfileSpec /\ LoginSpec /\ BridgeSpec
    BY <1>1, <1>2, PTL DEF Spec, ProfileSpec, LoginSpec, BridgeSpec
  <1> QED BY <1>3, OverStaysOverAlways, EnabledIsCurrentAlways, ManifestIsFaithfulAlways, PTL
=============================================================================
