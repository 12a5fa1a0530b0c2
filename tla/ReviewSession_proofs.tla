------------------------ MODULE ReviewSession_proofs ------------------------
(***************************************************************************)
(* What holds of a review session for any captures, generations and        *)
(* limits.  A session's steps are steps of the retention cascade, so the   *)
(* invariant and the lemmas of Retention_proofs hold inside it; on them    *)
(* rest that retention strands nothing and that nothing is sent twice.     *)
(***************************************************************************)
EXTENDS ReviewSession, TLAPS

RP == INSTANCE Retention_proofs

Attempts ==
  [at : {"idle", "ingesting", "storing", "stored", "retaining", "retained",
         "preparing", "consent", "next", "send", "answer"},
   todo : SUBSET Capture, prepared : SUBSET Capture, sent : SUBSET Capture,
   staged : SUBSET Capture, left : Nat, consented : BOOLEAN,
   shown : {"ingesting", "preparing", "cancelled", "completed", "failed"},
   listed : SUBSET Capture, late : Nat]

Types ==
  /\ session \in Attempts
  /\ linked \subseteq Capture /\ orphaned \subseteq Capture
  /\ cancelled \in BOOLEAN

Starting == {"ingesting", "storing", "stored", "retaining", "retained"}
Sending  == {"next", "send", "answer"}

(* Nothing is prepared before retention is through and nothing sent before *)
(* consent; afterwards every prepared capture is sent or still to be sent. *)
Scoped ==
  /\ session.at \in Starting => session.prepared = {}
  /\ session.at \in Starting \cup {"preparing", "consent"} =>
       session.sent = {} /\ session.staged = {} /\ session.late = 0
  /\ session.at \in Sending =>
       /\ session.consented
       /\ session.prepared = session.todo \cup session.sent
       /\ session.staged \subseteq session.sent
  /\ session.at = "send" => session.late = 0
  /\ session.late = 1 => cancelled

(* What an attempt has in hand has no observation: a linked one has a row, *)
(* and one whose row was deleted has no key left to prepare it with.       *)
Unanalysed ==
  /\ linked \subseteq rows
  /\ \A c \in orphaned : GenOf[c] \notin privateKey
  /\ session.at # "idle" => (session.todo \cup session.prepared) \cap linked = {}
  /\ session.at # "idle" => \A c \in session.prepared : GenOf[c] \in privateKey

(* Where the captures are that were whole when the attempt began. *)
Kept == session.todo \cap session.listed
NotStranded ==
  /\ session.at \in {"ingesting", "storing", "stored", "retained", "preparing"} =>
       \A c \in Kept : bundle[c] = "whole"
  /\ session.at = "stored" => session.todo \subseteq rows
  /\ session.at = "retaining" =>
       /\ pass.at \in {"scan", "reap", "unlink"} => session.todo \subseteq rows
       /\ pass.at = "scan" => \A c \in Kept : bundle[c] = "whole"
       /\ pass.at \in {"reap", "unlink"} => Kept \subseteq pass.seen
       /\ pass.at = "ok" => \A c \in Kept \cap rows : bundle[c] = "whole"

IInv ==
  /\ RP!IInv
  /\ Types /\ Scoped /\ SendingIsPermitted /\ Unanalysed /\ NotStranded

-----------------------------------------------------------------------------
(* The retention cascade inside a session *)

(* The two instances of the cascade, here and in Retention_proofs, are one. *)
LEMMA Cascade ==
  /\ RP!RetentionAssumption
  /\ R!Init <=> RP!Init
  /\ R!Next <=> RP!Next
  /\ UNCHANGED R!vars <=> UNCHANGED RP!vars
<1>1. RP!RetentionAssumption
  BY CascadeAssumption DEF R!RetentionAssumption, RP!RetentionAssumption
<1>2. R!Init <=> RP!Init
  BY DEF R!Init, RP!Init, R!Result, RP!Result
<1>3. UNCHANGED R!vars <=> UNCHANGED RP!vars
  BY DEF R!vars, RP!vars
<1>4. R!Next <=> RP!Next
  BY DEF R!Next, RP!Next, R!Begin, RP!Begin, R!PassStep, RP!PassStep,
    R!Fault, RP!Fault, R!PassedOver, RP!PassedOver, R!ToUnlink, RP!ToUnlink,
    R!Environment, RP!Environment, R!Plan, RP!Plan,
    R!Reaped, RP!Reaped, R!DeleteRows, RP!DeleteRows, R!ScanRow, RP!ScanRow,
    R!ScanIncomplete, RP!ScanIncomplete, R!UnlinkBegin, RP!UnlinkBegin,
    R!UnlinkEnd, RP!UnlinkEnd, R!DestroyKey, RP!DestroyKey, R!Stop, RP!Stop,
    R!DestroyKeyFail, RP!DestroyKeyFail, R!Seal, RP!Seal, R!Ingest, RP!Ingest,
    R!SetClock, RP!SetClock, R!Result, RP!Result, R!env, RP!env,
    R!Finished, RP!Finished, R!Time, RP!Time, R!VaultLocked, RP!VaultLocked,
    R!ExpiredGenerations, RP!ExpiredGenerations, R!IsExpiredAt, RP!IsExpiredAt
<1> QED
  BY <1>1, <1>2, <1>3, <1>4

(* Every step of a session is one of the cascade or leaves it alone. *)
LEMMA SessionSimulates ==
  ASSUME Types, [Next]_vars
  PROVE  [R!Next]_(R!vars)
<1> USE DEF retention, R!vars, history
<1>1. ASSUME NEW cs \in SUBSET Capture, Start(cs) \/ Retry(cs)
      PROVE  UNCHANGED R!vars
  BY <1>1 DEF Start, Retry
<1>2. CASE \/ CancelledEarly \/ NotCancelledEarly \/ SkipRetention \/ RetentionOk
           \/ RetentionErr \/ CancelledInRunner \/ NothingPrepared
           \/ ProviderUnavailable \/ RequestConsent \/ NextPayload
           \/ ProviderFailed \/ Commit \/ AttemptErr \/ Consent \/ Decline \/ Cancel
  BY <1>2 DEF CancelledEarly, NotCancelledEarly, SkipRetention, RetentionOk,
    RetentionErr, CancelledInRunner, NothingPrepared, ProviderUnavailable,
    RequestConsent, NextPayload, ProviderFailed, Commit, AttemptErr, Consent,
    Decline, Cancel
<1>3. CASE StoreRows
  <2>1. session.todo \in SUBSET Capture
    BY DEF Types, Attempts
  <2> QED
    BY <1>3, <2>1 DEF StoreRows, R!Next, R!Environment
<1>4. CASE StartRetention
  BY <1>4 DEF StartRetention, R!Next
<1>5. CASE RetentionStep
  BY <1>5 DEF RetentionStep, R!Next
<1>6. ASSUME NEW c \in Capture, Prepare(c) \/ PrepareErr(c)
      PROVE  R!Next
  <2>1. R!Ingest({c}) /\ {c} \in SUBSET Capture
    BY <1>6 DEF Prepare, PrepareErr
  <2> QED
    BY <2>1 DEF R!Next, R!Environment
<1>7. ASSUME NEW c \in Capture, NEW n \in 0..MaxAnswer, Send(c) \/ Answer(c, n)
      PROVE  UNCHANGED R!vars
  BY <1>7 DEF Send, Answer
<1>8. CASE Crash
  BY <1>8 DEF Crash, R!Next, R!Fault, R!Stop, R!env
<1>9. CASE SealOrClock
  BY <1>9 DEF SealOrClock, R!Next, R!Environment
<1>10. CASE UNCHANGED vars
  BY <1>10 DEF vars
<1>11. 0 \in 0..MaxAnswer
  BY SessionAssumption
<1>12. CASE \E c \in Capture : Send(c)
  BY <1>7, <1>11, <1>12
<1> QED
  BY <1>1, <1>2, <1>3, <1>4, <1>5, <1>6, <1>7, <1>8, <1>9, <1>10, <1>12
     DEF Next, SessionStep

(* What the cascade's own lemmas say of a step of a session: a row that    *)
(* goes leaves no key behind.                                              *)
LEMMA CascadeStep ==
  ASSUME IInv, [Next]_vars
  PROVE  RP!IInv' /\ \A c \in rows \ rows' : GenOf[c] \notin privateKey
<1>1. [RP!Next]_(RP!vars)
  BY SessionSimulates, Cascade DEF IInv
<1>2. RP!IInv'
  BY <1>1, Cascade, RP!IInvStep DEF IInv
<1>3. \A c \in rows \ rows' : GenOf[c] \notin privateKey
  BY <1>1, Cascade, RP!Removals, RP!PlanDone DEF IInv
<1> QED
  BY <1>2, <1>3

(* No key comes back; while no pass runs the keys stay, and a whole bundle *)
(* stays whole.                                                            *)
LEMMA CascadeMoves ==
  ASSUME IInv, [Next]_vars
  PROVE  /\ privateKey' \subseteq privateKey
         /\ ~RetentionStep =>
              /\ privateKey' = privateKey
              /\ \A c \in Capture : bundle[c] = "whole" => bundle'[c] = "whole"
<1> USE DEF retention, R!env
<1>0. bundle \in [Capture -> {"none", "whole", "half", "gone"}]
  BY DEF IInv, RP!IInv, RP!TypeOK
<1>1. CASE RetentionStep
  <2>1. R!PassStep \/ R!Fault
    BY <1>1 DEF RetentionStep
  <2>2. ASSUME NEW d \in Capture, R!UnlinkBegin(d) \/ R!UnlinkEnd(d)
        PROVE  privateKey' = privateKey
    BY <2>2 DEF R!UnlinkBegin, R!UnlinkEnd
  <2>3. ASSUME NEW d \in Capture, R!ScanRow(d) \/ R!ScanIncomplete(d)
        PROVE  privateKey' = privateKey
    BY <2>3 DEF R!ScanRow, R!ScanIncomplete
  <2>4. ASSUME NEW g \in Generation, R!DestroyKey(g) \/ R!DestroyKeyFail(g)
        PROVE  privateKey' \subseteq privateKey
    BY <2>4 DEF R!DestroyKey, R!DestroyKeyFail
  <2>5. CASE R!Plan \/ R!Reaped \/ R!PassedOver \/ R!DeleteRows \/ R!Stop
    BY <2>5 DEF R!Plan, R!Reaped, R!PassedOver, R!DeleteRows, R!Stop
  <2> QED
    BY <1>1, <2>1, <2>2, <2>3, <2>4, <2>5 DEF R!PassStep, R!Fault
<1>2. CASE SealOrClock
  <2>1. ASSUME NEW d \in Capture, R!Seal(d)
        PROVE  /\ privateKey' = privateKey
               /\ \A c \in Capture : bundle[c] = "whole" => bundle'[c] = "whole"
    BY <1>0, <2>1 DEF R!Seal
  <2>2. ASSUME NEW t \in R!Time, R!SetClock(t)
        PROVE  privateKey' = privateKey /\ bundle' = bundle
    BY <2>2 DEF R!SetClock
  <2> QED
    BY <1>2, <2>1, <2>2 DEF SealOrClock
<1>3. CASE ~RetentionStep /\ ~SealOrClock
  <2>1. CASE \/ CancelledEarly \/ NotCancelledEarly \/ SkipRetention \/ RetentionOk
             \/ RetentionErr \/ CancelledInRunner \/ NothingPrepared
             \/ ProviderUnavailable \/ RequestConsent \/ NextPayload
             \/ ProviderFailed \/ Commit \/ AttemptErr \/ Consent \/ Decline \/ Cancel
    BY <2>1 DEF CancelledEarly, NotCancelledEarly, SkipRetention, RetentionOk,
      RetentionErr, CancelledInRunner, NothingPrepared, ProviderUnavailable,
      RequestConsent, NextPayload, ProviderFailed, Commit, AttemptErr, Consent,
      Decline, Cancel
  <2>2. CASE StoreRows \/ StartRetention \/ Crash \/ UNCHANGED vars
    BY <2>2 DEF StoreRows, StartRetention, Crash, vars, R!Ingest, R!Begin
  <2>3. ASSUME NEW cs \in SUBSET Capture, Start(cs) \/ Retry(cs)
        PROVE  UNCHANGED <<bundle, privateKey>>
    BY <2>3 DEF Start, Retry
  <2>4. ASSUME NEW d \in Capture, Prepare(d) \/ PrepareErr(d)
        PROVE  UNCHANGED <<bundle, privateKey>>
    BY <2>4 DEF Prepare, PrepareErr, R!Ingest
  <2>5. ASSUME NEW d \in Capture, NEW n \in 0..MaxAnswer, Answer(d, n)
        PROVE  UNCHANGED <<bundle, privateKey>>
    BY <2>5 DEF Answer
  <2>6. ASSUME NEW d \in Capture, Send(d)
        PROVE  UNCHANGED <<bundle, privateKey>>
    BY <2>6 DEF Send
  <2> QED
    BY <1>3, <2>1, <2>2, <2>3, <2>4, <2>5, <2>6 DEF Next, SessionStep
<1> QED
  BY <1>1, <1>2, <1>3

-----------------------------------------------------------------------------
(* Where an attempt is *)

(* Before the first session nothing is in hand. *)
LEMMA InitInvariant == Init => IInv
<1> SUFFICES ASSUME Init PROVE IInv
  OBVIOUS
<1>1. RP!IInv /\ rows = {}
  BY Cascade, RP!IInvInit DEF Init, R!Init
<1>2. /\ session.at = "idle" /\ session.sent = {} /\ session.late = 0
      /\ session \in Attempts
  BY SessionAssumption DEF Init, Attempt, Attempts
<1>3. Types /\ Scoped /\ SendingIsPermitted
  <2>1. linked = {} /\ orphaned = {} /\ ~cancelled /\ cancelled \in BOOLEAN
    BY DEF Init
  <2> QED
    BY <1>2, <2>1 DEF Types, Scoped, SendingIsPermitted, Starting, Sending
<1>4. Unanalysed /\ NotStranded
  BY <1>1, <1>2 DEF Init, Unanalysed, NotStranded
<1> QED
  BY <1>1, <1>3, <1>4 DEF IInv

(* A new attempt has nothing prepared, sent or staged. *)
LEMMA NewAttempt ==
  ASSUME NEW at \in {"idle", "ingesting"}, NEW cs \in SUBSET Capture
  PROVE  /\ Attempt(at, cs) \in Attempts
         /\ Attempt(at, cs).at = at /\ Attempt(at, cs).todo = cs
         /\ Attempt(at, cs).prepared = {} /\ Attempt(at, cs).sent = {}
         /\ Attempt(at, cs).staged = {} /\ Attempt(at, cs).late = 0
         /\ Attempt(at, cs).listed = {c \in cs : bundle[c] = "whole"}
BY SessionAssumption DEF Attempt, Attempts

(* An attempt that only moves on, and perhaps shows its progress, keeps    *)
(* what it has in hand.                                                    *)
SameWork ==
  /\ session'.todo = session.todo /\ session'.prepared = session.prepared
  /\ session'.sent = session.sent /\ session'.staged = session.staged
  /\ session'.consented = session.consented
  /\ session'.listed = session.listed /\ session'.late = session.late

(* A stage, and perhaps a progress, is all that changes. *)
LEMMA MovesOn ==
  ASSUME Types, NEW at \in {"idle", "storing", "stored", "retaining", "retained",
                           "preparing", "consent", "send"},
         NEW shown \in {"preparing", "cancelled", "completed", "failed"},
         \/ session' = [session EXCEPT !.at = at]
         \/ session' = [session EXCEPT !.at = at, !.shown = shown]
  PROVE  session' \in Attempts /\ session'.at = at /\ SameWork
<1>1. CASE session' = [session EXCEPT !.at = at]
  BY <1>1 DEF Types, Attempts, SameWork
<1>2. CASE session' = [session EXCEPT !.at = at, !.shown = shown]
  BY <1>2 DEF Types, Attempts, SameWork
<1> QED
  BY <1>1, <1>2

(* Which attempts end, and which move on. *)
LEMMA Ends ==
  ASSUME Types,
         \/ CancelledEarly \/ RetentionErr \/ CancelledInRunner \/ NothingPrepared
         \/ ProviderUnavailable \/ ProviderFailed \/ Decline \/ AttemptErr \/ Commit
         \/ \E c \in Capture : PrepareErr(c)
  PROVE  /\ session' \in Attempts /\ session'.at = "idle" /\ SameWork
         /\ UNCHANGED <<orphaned, cancelled>>
<1> USE DEF Report, Err, Goto, history
<1>1. CASE CancelledEarly \/ CancelledInRunner
  BY <1>1, MovesOn DEF CancelledEarly, CancelledInRunner
<1>2. CASE NothingPrepared \/ Decline \/ Commit
  BY <1>2, MovesOn DEF NothingPrepared, Decline, Commit
<1>3. CASE ProviderUnavailable \/ ProviderFailed
  BY <1>3, MovesOn DEF ProviderUnavailable, ProviderFailed
<1>4. CASE RetentionErr \/ AttemptErr
  BY <1>4, MovesOn DEF RetentionErr, AttemptErr
<1>5. ASSUME NEW c \in Capture, PrepareErr(c)
      PROVE  /\ session' \in Attempts /\ session'.at = "idle" /\ SameWork
             /\ UNCHANGED <<orphaned, cancelled>>
  BY <1>5, MovesOn DEF PrepareErr
<1> QED
  BY <1>1, <1>2, <1>3, <1>4, <1>5

(* Which steps lead from one stage to the next with the same work in hand. *)
LEMMA Stages ==
  ASSUME Types
  PROVE  /\ NotCancelledEarly =>
              /\ session' \in Attempts /\ SameWork /\ UNCHANGED <<linked, orphaned, cancelled>>
              /\ \/ session.at = "ingesting" /\ session'.at = "storing"
                 \/ session.at = "retained" /\ session'.at = "preparing"
         /\ StoreRows =>
              /\ session' \in Attempts /\ SameWork /\ UNCHANGED <<linked, orphaned, cancelled>>
              /\ session.at = "storing" /\ session'.at = "stored"
         /\ SkipRetention =>
              /\ session' \in Attempts /\ SameWork /\ UNCHANGED <<linked, orphaned, cancelled>>
              /\ session.at = "stored" /\ session'.at = "retained"
         /\ StartRetention =>
              /\ session' \in Attempts /\ SameWork /\ UNCHANGED <<linked, orphaned, cancelled>>
              /\ session.at = "stored" /\ session'.at = "retaining"
         /\ RequestConsent =>
              /\ session' \in Attempts /\ SameWork /\ UNCHANGED <<linked, orphaned, cancelled>>
              /\ session.at = "preparing" /\ session'.at = "consent"
         /\ NextPayload =>
              /\ session' \in Attempts /\ SameWork /\ UNCHANGED <<linked, orphaned, cancelled>>
              /\ session.at = "next" /\ session'.at = "send" /\ ~cancelled
<1> USE DEF Session, Goto, history
<1>1. NotCancelledEarly =>
        /\ session' \in Attempts /\ SameWork /\ UNCHANGED <<linked, orphaned, cancelled>>
        /\ \/ session.at = "ingesting" /\ session'.at = "storing"
           \/ session.at = "retained" /\ session'.at = "preparing"
  BY MovesOn DEF NotCancelledEarly
<1>2. StoreRows =>
        /\ session' \in Attempts /\ SameWork /\ UNCHANGED <<linked, orphaned, cancelled>>
        /\ session.at = "storing" /\ session'.at = "stored"
  BY MovesOn DEF StoreRows
<1>3. SkipRetention =>
        /\ session' \in Attempts /\ SameWork /\ UNCHANGED <<linked, orphaned, cancelled>>
        /\ session.at = "stored" /\ session'.at = "retained"
  BY MovesOn DEF SkipRetention
<1>4. StartRetention =>
        /\ session' \in Attempts /\ SameWork /\ UNCHANGED <<linked, orphaned, cancelled>>
        /\ session.at = "stored" /\ session'.at = "retaining"
  BY MovesOn DEF StartRetention
<1>5. RequestConsent =>
        /\ session' \in Attempts /\ SameWork /\ UNCHANGED <<linked, orphaned, cancelled>>
        /\ session.at = "preparing" /\ session'.at = "consent"
  BY MovesOn DEF RequestConsent
<1>6. NextPayload =>
        /\ session' \in Attempts /\ SameWork /\ UNCHANGED <<linked, orphaned, cancelled>>
        /\ session.at = "next" /\ session'.at = "send" /\ ~cancelled
  BY MovesOn DEF NextPayload
<1> QED
  BY <1>1, <1>2, <1>3, <1>4, <1>5, <1>6

(* The steps that change what is in hand. *)
LEMMA Prepares ==
  ASSUME Types, NEW c \in Capture, Prepare(c)
  PROVE  \E ps \in {{}, {c}} :
           /\ session' \in Attempts /\ session.at = "preparing" /\ session'.at = "preparing"
           /\ c \in session.todo /\ GenOf[c] \in privateKey
           /\ session'.todo = session.todo \ {c} /\ session'.prepared = session.prepared \cup ps
           /\ session'.sent = session.sent /\ session'.staged = session.staged
           /\ session'.listed = session.listed /\ session'.late = session.late
           /\ UNCHANGED <<linked, orphaned, cancelled>>
<1>1. PICK ps \in {{}, {c}} :
        session' = [session EXCEPT !.todo = @ \ {c}, !.prepared = @ \cup ps]
  BY DEF Prepare
<1>2. /\ session.at = "preparing" /\ c \in session.todo /\ GenOf[c] \in privateKey
      /\ UNCHANGED <<linked, orphaned, cancelled>>
  BY DEF Prepare, Session, history
<1>3. ps \in SUBSET Capture
  OBVIOUS
<1>4. /\ session' \in Attempts /\ session'.at = "preparing"
      /\ session'.todo = session.todo \ {c} /\ session'.prepared = session.prepared \cup ps
      /\ session'.sent = session.sent /\ session'.staged = session.staged
      /\ session'.listed = session.listed /\ session'.late = session.late
  BY <1>1, <1>2, <1>3 DEF Types, Attempts
<1> QED
  BY <1>2, <1>4

(* What an answer moves from the captures to send to the staged ones. *)
LEMMA Answers ==
  ASSUME Types, NEW c \in Capture, NEW n \in 0..MaxAnswer, Answer(c, n)
  PROVE  /\ session' \in Attempts /\ session.at = "answer" /\ session'.at = "next"
         /\ c \in session.sent /\ session'.todo = session.todo \ {c}
         /\ session'.staged \subseteq session.staged \cup {c}
         /\ session'.sent = session.sent /\ session'.prepared = session.prepared
         /\ session'.consented = session.consented /\ session'.late = session.late
         /\ UNCHANGED <<linked, orphaned, cancelled>>
<1> DEFINE kept == IF n <= session.left THEN n ELSE session.left
           staged == IF kept > 0 THEN session.staged \cup {c} ELSE session.staged
<1>1. /\ session.at = "answer" /\ c \in session.sent
      /\ session' = [session EXCEPT !.at = "next", !.todo = session.todo \ {c},
                                    !.staged = staged, !.left = session.left - kept]
      /\ UNCHANGED <<linked, orphaned, cancelled>>
  BY DEF Answer, Session, history, Types, Attempts
<1>2. session.left - kept \in Nat
  BY SessionAssumption DEF Types, Attempts
<1>3. staged \in SUBSET Capture /\ staged \subseteq session.staged \cup {c}
  BY DEF Types, Attempts
<1> HIDE DEF kept, staged
<1> QED
  BY <1>1, <1>2, <1>3 DEF Types, Attempts

(* The state keeps its type, and an attempt goes through its stages in     *)
(* order.                                                                  *)
LEMMA ScopedStep ==
  ASSUME IInv, [Next]_vars
  PROVE  (Types /\ Scoped /\ SendingIsPermitted)'
<1> USE DEF IInv, Types, Scoped, SendingIsPermitted, Starting, Sending, Session, Goto, Err,
            Report, history
<1>1. ASSUME NEW cs \in SUBSET Capture, Start(cs) \/ Retry(cs)
      PROVE  (Types /\ Scoped /\ SendingIsPermitted)'
  <2>1. /\ session' = Attempt("ingesting", cs \ linked)
        /\ UNCHANGED history /\ cancelled' \in BOOLEAN
    BY <1>1 DEF Start, Retry, Begin
  <2>2. cs \ linked \in SUBSET Capture
    OBVIOUS
  <2>3. /\ session' \in Attempts /\ session'.at = "ingesting" /\ session'.prepared = {}
        /\ session'.sent = {} /\ session'.staged = {} /\ session'.late = 0
    BY <2>1, <2>2, NewAttempt
  <2> QED
    BY <2>1, <2>3
<1>2. CASE \/ CancelledEarly \/ RetentionErr \/ CancelledInRunner \/ NothingPrepared
           \/ ProviderUnavailable \/ ProviderFailed \/ Decline \/ AttemptErr \/ Commit
           \/ \E c \in Capture : PrepareErr(c)
  <2>1. /\ session' \in Attempts /\ session'.at = "idle" /\ SameWork
        /\ UNCHANGED <<orphaned, cancelled>>
    BY <1>2, Ends
  <2>2. linked' \subseteq Capture
    <3>1. CASE Commit
      BY <3>1 DEF Commit, Attempts
    <3>2. CASE ~Commit
      BY <1>2, <3>2 DEF CancelledEarly, RetentionErr, CancelledInRunner, NothingPrepared,
        ProviderUnavailable, ProviderFailed, Decline, AttemptErr, PrepareErr
    <3> QED
      BY <3>1, <3>2
  <2> QED
    BY <2>1, <2>2 DEF SameWork
<1>3. CASE NotCancelledEarly \/ StoreRows \/ SkipRetention \/ StartRetention
  BY <1>3, Stages DEF SameWork
<1>4. CASE RequestConsent \/ NextPayload
  BY <1>4, Stages DEF SameWork, Attempts
<1>5. CASE RetentionOk
  <2>1. /\ session.at = "retaining" /\ session' \in Attempts /\ session'.at = "retained"
        /\ session'.prepared = session.prepared /\ session'.sent = session.sent
        /\ session'.staged = session.staged /\ session'.late = session.late
        /\ UNCHANGED <<linked, orphaned, cancelled>>
    BY <1>5 DEF RetentionOk, Attempts
  <2> QED
    BY <2>1
<1>6. CASE RetentionStep
  BY <1>6 DEF RetentionStep
<1>7. CASE Consent
  <2>1. /\ session.at = "consent" /\ session' \in Attempts /\ session'.at = "next"
        /\ session'.prepared = session.prepared /\ session'.todo = session.prepared
        /\ session'.sent = session.sent /\ session'.consented
        /\ session'.staged = session.staged /\ session'.late = session.late
        /\ UNCHANGED <<linked, orphaned, cancelled>>
    BY <1>7 DEF Consent, Attempts
  <2> QED
    BY <2>1
<1>8. CASE Cancel
  BY <1>8 DEF Cancel
<1>9. CASE Crash
  <2>1. /\ session' = Attempt("idle", {}) /\ UNCHANGED history
        /\ ~cancelled' /\ cancelled' \in BOOLEAN
    BY <1>9 DEF Crash
  <2>2. session' \in Attempts /\ session'.at = "idle" /\ session'.sent = {} /\ session'.late = 0
    BY <2>1, NewAttempt
  <2> QED
    BY <2>1, <2>2
<1>10. CASE SealOrClock \/ UNCHANGED vars
  BY <1>10 DEF SealOrClock, vars
<1>11. ASSUME NEW c \in Capture, Prepare(c)
       PROVE  (Types /\ Scoped /\ SendingIsPermitted)'
  BY <1>11, Prepares
<1>12. ASSUME NEW c \in Capture, Send(c)
       PROVE  (Types /\ Scoped /\ SendingIsPermitted)'
  <2>1. /\ session.at = "send" /\ c \in session.todo /\ session.late = 0
        /\ UNCHANGED <<linked, orphaned, cancelled>>
    BY <1>12 DEF Send
  <2> DEFINE late == IF cancelled THEN session.late + 1 ELSE session.late
  <2>2. session' = [session EXCEPT !.at = "answer", !.sent = session.sent \cup {c}, !.late = late]
    BY <1>12 DEF Send, Attempts
  <2>3. late \in {0, 1} /\ late \in Nat /\ (late = 1 => cancelled)
    BY <2>1
  <2> HIDE DEF late
  <2>4. /\ session' \in Attempts /\ session'.at = "answer" /\ session'.todo = session.todo
        /\ session'.prepared = session.prepared /\ session'.sent = session.sent \cup {c}
        /\ session'.staged = session.staged /\ session'.consented = session.consented
        /\ session'.late = late
    <3>1. session.sent \cup {c} \in SUBSET Capture /\ session \in Attempts
      BY DEF Attempts
    <3> QED
      BY <2>2, <2>3, <3>1 DEF Attempts
  <2> QED
    BY <2>1, <2>4, <2>3
<1>13. ASSUME NEW c \in Capture, NEW n \in 0..MaxAnswer, Answer(c, n)
       PROVE  (Types /\ Scoped /\ SendingIsPermitted)'
  BY <1>13, Answers
<1> QED
  BY <1>1, <1>2, <1>3, <1>4, <1>5, <1>6, <1>7, <1>8, <1>9, <1>10, <1>11, <1>12,
     <1>13 DEF Next, SessionStep

-----------------------------------------------------------------------------
(* Nothing is analysed twice *)

(* What is prepared or to be prepared stays without an observation. *)
LEMMA UnanalysedStep ==
  ASSUME IInv, [Next]_vars
  PROVE  Unanalysed'
<1> USE DEF IInv, Types, Scoped, Unanalysed, Starting, Sending, Session, Goto, Err,
            Report, history, retention
<1>0. /\ privateKey' \subseteq privateKey
      /\ ~RetentionStep => privateKey' = privateKey
      /\ session.prepared \subseteq Capture /\ session.todo \subseteq Capture
  BY CascadeMoves DEF Attempts
<1>1. ASSUME NEW cs \in SUBSET Capture, Start(cs) \/ Retry(cs)
      PROVE  Unanalysed'
  <2>1. /\ session' = Attempt("ingesting", cs \ linked)
        /\ UNCHANGED <<privateKey, rows, linked, orphaned>>
    BY <1>1 DEF Start, Retry, Begin
  <2>2. cs \ linked \in SUBSET Capture
    OBVIOUS
  <2>3. session'.prepared = {} /\ session'.todo = cs \ linked
    BY <2>1, <2>2, NewAttempt
  <2> QED
    BY <2>1, <2>3
<1>2. CASE \/ CancelledEarly \/ RetentionErr \/ CancelledInRunner \/ NothingPrepared
           \/ ProviderUnavailable \/ ProviderFailed \/ Decline \/ AttemptErr \/ Commit
           \/ \E c \in Capture : PrepareErr(c)
  <2>1. session'.at = "idle" /\ UNCHANGED orphaned
    BY <1>2, Ends
  <2>2. linked' \subseteq rows'
    <3>1. CASE Commit
      BY <3>1 DEF Commit
    <3>2. ASSUME NEW c \in Capture, PrepareErr(c)
          PROVE  linked' \subseteq rows'
      BY <3>2 DEF PrepareErr, R!Ingest
    <3>3. CASE ~Commit /\ ~ \E c \in Capture : PrepareErr(c)
      BY <1>2, <3>3 DEF CancelledEarly, RetentionErr, CancelledInRunner, NothingPrepared,
        ProviderUnavailable, ProviderFailed, Decline, AttemptErr
    <3> QED
      BY <3>1, <3>2, <3>3
  <2> QED
    BY <1>0, <2>1, <2>2
<1>3. CASE \/ NotCancelledEarly \/ StoreRows \/ SkipRetention \/ StartRetention
           \/ RequestConsent \/ NextPayload
  <2>1. /\ SameWork /\ UNCHANGED <<linked, orphaned>> /\ session.at # "idle"
    BY <1>3, Stages
  <2>2. rows \subseteq rows'
    BY <1>3 DEF NotCancelledEarly, StoreRows, SkipRetention, StartRetention, RequestConsent,
      NextPayload, R!Ingest, R!Begin, R!env
  <2>3. ~RetentionStep
    <3>1. session' # session
      BY <1>3, Stages
    <3> QED
      BY <3>1 DEF RetentionStep
  <2> QED
    BY <1>0, <2>1, <2>2, <2>3 DEF SameWork
<1>4. CASE RetentionOk
  <2>1. /\ session.at = "retaining"
        /\ session'.prepared = session.prepared /\ session'.todo \subseteq session.todo
        /\ UNCHANGED <<linked, orphaned, rows, privateKey>>
    BY <1>4 DEF RetentionOk, Attempts
  <2> QED
    BY <2>1
<1>5. CASE RetentionStep
  <2>1. /\ linked' = linked \cap rows' /\ orphaned' = orphaned \cup (linked \ rows')
        /\ UNCHANGED session /\ session.prepared = {}
    BY <1>5 DEF RetentionStep
  <2>2. \A c \in linked \ rows' : GenOf[c] \notin privateKey'
    BY <1>0, CascadeStep
  <2> QED
    BY <1>0, <2>1, <2>2
<1>6. CASE Consent
  <2>1. /\ session.at = "consent"
        /\ session'.prepared = session.prepared /\ session'.todo = session.prepared
        /\ UNCHANGED <<linked, orphaned, rows, privateKey>>
    BY <1>6 DEF Consent, Attempts
  <2> QED
    BY <2>1
<1>7. CASE Cancel \/ UNCHANGED vars
  BY <1>7 DEF Cancel, vars
<1>8. CASE Crash
  <2>1. session' = Attempt("idle", {}) /\ UNCHANGED <<linked, orphaned, rows, privateKey>>
    BY <1>8 DEF Crash
  <2>2. session'.at = "idle"
    BY <2>1, NewAttempt
  <2> QED
    BY <2>1, <2>2
<1>9. CASE SealOrClock
  <2>1. UNCHANGED <<rows, linked, orphaned, session, privateKey>>
    BY <1>9 DEF SealOrClock, R!Seal, R!SetClock
  <2> QED
    BY <2>1
<1>10. ASSUME NEW c \in Capture, Prepare(c)
       PROVE  Unanalysed'
  <2>1. PICK ps \in {{}, {c}} :
          /\ session.at = "preparing" /\ c \in session.todo /\ GenOf[c] \in privateKey
          /\ session'.todo = session.todo \ {c} /\ session'.prepared = session.prepared \cup ps
          /\ UNCHANGED <<linked, orphaned>>
    BY <1>10, Prepares
  <2>2. UNCHANGED privateKey /\ rows \subseteq rows'
    BY <1>10 DEF Prepare, R!Ingest
  <2> QED
    BY <2>1, <2>2
<1>11. ASSUME NEW c \in Capture, Send(c)
       PROVE  Unanalysed'
  <2>1. /\ session.at = "send" /\ session'.todo = session.todo
        /\ session'.prepared = session.prepared
        /\ UNCHANGED <<linked, orphaned, rows, privateKey>>
    BY <1>11 DEF Send, Attempts
  <2> QED
    BY <2>1
<1>12. ASSUME NEW c \in Capture, NEW n \in 0..MaxAnswer, Answer(c, n)
       PROVE  Unanalysed'
  <2>1. UNCHANGED <<rows, privateKey>>
    BY <1>12 DEF Answer
  <2> QED
    BY <1>12, <2>1, Answers
<1> QED
  BY <1>1, <1>2, <1>3, <1>4, <1>5, <1>6, <1>7, <1>8, <1>9, <1>10, <1>11, <1>12
     DEF Next, SessionStep

-----------------------------------------------------------------------------
(* Retention strands nothing *)

(* One step of a pass inside a session. *)
LEMMA PassKeeps ==
  ASSUME IInv, RetentionStep
  PROVE  /\ session.at = "retaining" /\ session' = session
         /\ pass'.at \in {"scan", "reap", "unlink"} => session.todo \subseteq rows'
         /\ pass'.at = "scan" => \A c \in Kept : bundle'[c] = "whole"
         /\ pass'.at \in {"reap", "unlink"} => Kept \subseteq pass'.seen
         /\ pass'.at = "ok" => \A c \in Kept \cap rows' : bundle'[c] = "whole"
<1> USE DEF IInv, NotStranded, Types, R!env
<1>1. /\ session.at = "retaining" /\ session' = session
      /\ R!PassStep \/ R!Fault
  BY DEF RetentionStep, Session
<1>2. /\ pass \in RP!Passes /\ RP!Scanned
      /\ pass.at = "scan" => pass.seen \cup pass.todo \subseteq rows
  BY DEF RP!IInv, RP!TypeOK, RP!Scanned, RP!Finished
<1>3. Kept \subseteq session.todo
  BY DEF Kept
<1>4. CASE R!Plan
  <2>1. /\ pass.at = "scan" /\ pass.todo = {} /\ pass'.at = "reap" /\ pass'.seen = pass.seen
        /\ UNCHANGED <<bundle, rows>>
    BY <1>2, <1>4 DEF R!Plan, RP!Passes
  <2>2. Kept \subseteq pass.seen
    BY <1>1, <1>2, <1>3, <2>1 DEF RP!Scanned, RP!Finished
  <2> QED
    BY <1>1, <2>1, <2>2
<1>5. ASSUME NEW c \in Capture, R!ScanRow(c)
      PROVE  /\ pass.at = "scan" /\ pass'.at = "scan" /\ UNCHANGED <<bundle, rows>>
  BY <1>2, <1>5 DEF R!ScanRow, RP!Passes
<1>6. ASSUME NEW c \in Capture, R!UnlinkBegin(c) \/ R!UnlinkEnd(c)
      PROVE  /\ pass.at = "unlink" /\ pass'.at = "unlink" /\ pass'.seen = pass.seen
             /\ UNCHANGED rows
  BY <1>2, <1>6 DEF R!UnlinkBegin, R!UnlinkEnd, RP!Passes
<1>7. ASSUME NEW g \in Generation, R!DestroyKey(g)
      PROVE  /\ pass.at = "reap" /\ pass'.at = "unlink" /\ pass'.seen = pass.seen
             /\ UNCHANGED rows
  BY <1>2, <1>7 DEF R!DestroyKey, RP!Passes
<1>8. CASE R!Reaped \/ R!PassedOver
  <2>1. RP!Reaped \/ RP!PassedOver
    BY <1>8 DEF R!Reaped, RP!Reaped, R!PassedOver, RP!PassedOver, R!ToUnlink, RP!ToUnlink,
      RP!env
  <2>2. /\ pass.at = "unlink" /\ pass'.at = "reap" /\ pass'.seen = pass.seen
        /\ UNCHANGED rows
    BY <1>2, <2>1, Cascade, RP!ScanEnds DEF RP!env
  <2> QED
    BY <1>1, <2>2
<1>9. CASE R!DeleteRows
  <2>1. /\ pass.at = "reap" /\ rows' = rows \ pass.expired /\ UNCHANGED bundle
        /\ pass'.at = "ok"
    BY <1>9 DEF R!DeleteRows, R!Result
  <2>2. RP!DeleteRows
    BY <1>9 DEF R!DeleteRows, RP!DeleteRows, R!Result, RP!Result
  <2>3. \A c \in pass.seen \ pass.expired : bundle[c] = "whole"
    BY <2>2, Cascade, RP!PlanDone
  <2>4. Kept \subseteq pass.seen
    BY <1>1, <2>1
  <2> QED
    BY <1>1, <2>1, <2>3, <2>4
<1>10. (R!Stop \/ (\E g \in Generation : R!DestroyKeyFail(g))
         \/ \E c \in Capture : R!ScanIncomplete(c)) => pass'.at = "err"
  BY DEF R!Stop, R!DestroyKeyFail, R!ScanIncomplete, R!Result
<1> QED
  BY <1>1, <1>3, <1>4, <1>5, <1>6, <1>7, <1>8, <1>9, <1>10 DEF R!PassStep, R!Fault

(* At every stage the captures that were whole are where they should be. *)
LEMMA NotStrandedStep ==
  ASSUME IInv, [Next]_vars
  PROVE  NotStranded'
<1> USE DEF IInv, Types, NotStranded, Session, Goto, Err, Report, history, retention
<1>0. /\ ~RetentionStep => \A c \in Capture : bundle[c] = "whole" => bundle'[c] = "whole"
      /\ session.todo \subseteq Capture /\ session.listed \subseteq Capture
      /\ Kept \subseteq session.todo /\ Kept \subseteq Capture
  BY CascadeMoves DEF Attempts, Kept
<1>1. ASSUME NEW cs \in SUBSET Capture, Start(cs) \/ Retry(cs)
      PROVE  NotStranded'
  <2>1. /\ session' = Attempt("ingesting", cs \ linked) /\ UNCHANGED bundle
    BY <1>1 DEF Start, Retry, Begin
  <2>2. cs \ linked \in SUBSET Capture
    OBVIOUS
  <2>3. session'.at = "ingesting" /\ session'.listed = {c \in cs \ linked : bundle[c] = "whole"}
    BY <2>1, <2>2, NewAttempt
  <2> QED
    BY <2>1, <2>3 DEF Kept
<1>2. CASE \/ CancelledEarly \/ RetentionErr \/ CancelledInRunner \/ NothingPrepared
           \/ ProviderUnavailable \/ ProviderFailed \/ Decline \/ AttemptErr \/ Commit
           \/ \E c \in Capture : PrepareErr(c)
  BY <1>2, Ends
<1>3. CASE NotCancelledEarly \/ SkipRetention \/ RequestConsent \/ NextPayload
  <2>1. /\ SameWork /\ UNCHANGED bundle
        /\ \/ session.at = "ingesting" /\ session'.at = "storing"
           \/ session.at = "retained" /\ session'.at = "preparing"
           \/ session.at = "stored" /\ session'.at = "retained"
           \/ session'.at \in {"consent", "send"}
    BY <1>3, Stages DEF NotCancelledEarly, SkipRetention, RequestConsent, NextPayload
  <2> QED
    BY <2>1 DEF SameWork, Kept
<1>4. CASE StoreRows
  <2>1. SameWork /\ session.at = "storing" /\ session'.at = "stored"
    BY <1>4, Stages
  <2>2. UNCHANGED bundle /\ rows' = rows \cup session.todo
    BY <1>4 DEF StoreRows, R!Ingest
  <2> QED
    BY <2>1, <2>2 DEF SameWork, Kept
<1>5. CASE StartRetention
  <2>1. SameWork /\ session.at = "stored" /\ session'.at = "retaining"
    BY <1>5, Stages
  <2>2. UNCHANGED <<bundle, rows>> /\ pass'.at = "scan"
    BY <1>5 DEF StartRetention, R!Begin, R!env, R!Result
  <2> QED
    BY <2>1, <2>2 DEF SameWork, Kept
<1>6. CASE RetentionOk
  <2>1. /\ session.at = "retaining" /\ pass.at = "ok" /\ session'.at = "retained"
        /\ session'.todo = session.todo \cap rows /\ session'.listed = session.listed
        /\ UNCHANGED bundle
    BY <1>6 DEF RetentionOk, Attempts
  <2> QED
    BY <2>1 DEF Kept
<1>7. CASE RetentionStep
  BY <1>7, PassKeeps DEF Kept
<1>8. CASE Consent
  <2>1. session'.at = "next"
    BY <1>8 DEF Consent, Attempts
  <2> QED
    BY <2>1
<1>9. CASE Cancel \/ UNCHANGED vars
  BY <1>9 DEF Cancel, vars, Kept
<1>10. CASE Crash
  <2>1. session' = Attempt("idle", {})
    BY <1>10 DEF Crash
  <2>2. session'.at = "idle"
    BY <2>1, NewAttempt
  <2> QED
    BY <2>2
<1>11. CASE SealOrClock
  <2>1. UNCHANGED <<rows, session, pass>>
    BY <1>11 DEF SealOrClock, R!Seal, R!SetClock
  <2>2. \A c \in Capture : bundle[c] = "whole" => bundle'[c] = "whole"
    <3>1. ASSUME NEW d \in Capture, R!Seal(d), NEW c \in Capture, bundle[c] = "whole"
          PROVE  bundle'[c] = "whole"
      BY <3>1 DEF R!Seal, RP!IInv, RP!TypeOK
    <3>2. ASSUME NEW t \in R!Time, R!SetClock(t)
          PROVE  bundle' = bundle
      BY <3>2 DEF R!SetClock
    <3> QED
      BY <1>11, <3>1, <3>2 DEF SealOrClock
  <2>3. Kept' = Kept
    BY <2>1 DEF Kept
  <2> QED
    BY <1>0, <2>1, <2>2, <2>3
<1>12. ASSUME NEW c \in Capture, Prepare(c)
       PROVE  NotStranded'
  <2>1. /\ session.at = "preparing" /\ session'.at = "preparing"
        /\ session'.todo = session.todo \ {c} /\ session'.listed = session.listed
    BY <1>12, Prepares
  <2>2. UNCHANGED bundle
    BY <1>12 DEF Prepare, R!Ingest
  <2> QED
    BY <2>1, <2>2 DEF Kept
<1>13. ASSUME NEW c \in Capture, Send(c)
       PROVE  NotStranded'
  <2>1. session'.at = "answer"
    BY <1>13 DEF Send, Attempts
  <2> QED
    BY <2>1
<1>14. ASSUME NEW c \in Capture, NEW n \in 0..MaxAnswer, Answer(c, n)
       PROVE  NotStranded'
  BY <1>14, Answers
<1> QED
  BY <1>1, <1>2, <1>3, <1>4, <1>5, <1>6, <1>7, <1>8, <1>9, <1>10, <1>11, <1>12,
     <1>13, <1>14 DEF Next, SessionStep

-----------------------------------------------------------------------------
(* The theorems *)

(* The invariant holds in every session. *)
LEMMA Invariant == Spec => []IInv
<1>1. IInv /\ [Next]_vars => IInv'
  BY CascadeStep, ScopedStep, UnanalysedStep, NotStrandedStep DEF IInv
<1> QED
  BY InitInvariant, <1>1, PTL DEF Spec

(* The state of a session keeps its type, for any captures and limits. *)
THEOREM TypeCorrect == Spec => []Types
<1>1. IInv => Types
  BY DEF IInv
<1> QED
  BY <1>1, Invariant, PTL

(* Nothing leaves without the consent of this attempt, which covers what   *)
(* passed the privacy gate; after a cancellation one more at most is sent. *)
THEOREM SendingPermitted == Spec => []SendingIsPermitted
<1>1. IInv => SendingIsPermitted
  BY DEF IInv
<1> QED
  BY <1>1, Invariant, PTL

(* Retention never leaves an attempt with a bundle it has erased. *)
THEOREM RetentionStrands == Spec => []RetentionStrandsNothing
<1>1. IInv => RetentionStrandsNothing
  BY DEF IInv, NotStranded, RetentionStrandsNothing, Kept
<1> QED
  BY <1>1, Invariant, PTL

(* No session, retry or restart sends a capture that has an observation. *)
THEOREM NeverResent == Spec => AnalysedIsNeverResent
<1>1. IInv /\ [Next]_vars =>
        [ \A c \in Capture : Send(c) => c \notin linked \cup orphaned ]_vars
  <2> SUFFICES ASSUME IInv, NEW c \in Capture, Send(c)
               PROVE  c \notin linked \cup orphaned
    OBVIOUS
  <2>1. session.at = "send" /\ c \in session.todo
    BY DEF Send, Session
  <2>2. c \in session.prepared
    BY <2>1 DEF IInv, Scoped, Sending
  <2> QED
    BY <2>1, <2>2 DEF IInv, Unanalysed
<1> QED
  BY <1>1, Invariant, PTL DEF Spec, AnalysedIsNeverResent

(* Observations are committed for a whole attempt or not at all. *)
THEOREM CommitsAll == Spec => AllOrNothing
<1>1. IInv /\ [Next]_vars =>
        [ linked' \ linked # {} =>
            /\ session.sent = session.prepared
            /\ linked' \ linked \subseteq session.sent
            /\ session.at = "next" /\ session.todo = {} ]_vars
  <2> SUFFICES ASSUME IInv, [Next]_vars, linked' \ linked # {}
               PROVE  /\ session.sent = session.prepared
                      /\ linked' \ linked \subseteq session.sent
                      /\ session.at = "next" /\ session.todo = {}
    OBVIOUS
  <2>1. Commit
    <3>1. ASSUME NEW c \in Capture, Prepare(c) \/ PrepareErr(c) \/ Send(c)
          PROVE  linked' = linked
      BY <3>1 DEF Prepare, PrepareErr, Send, history
    <3>2. ASSUME NEW c \in Capture, NEW n \in 0..MaxAnswer, Answer(c, n)
          PROVE  linked' = linked
      BY <3>2 DEF Answer, history
    <3>3. ASSUME NEW cs \in SUBSET Capture, Start(cs) \/ Retry(cs)
          PROVE  linked' = linked
      BY <3>3 DEF Start, Retry, history
    <3>4. CASE RetentionStep
      BY <3>4 DEF RetentionStep
    <3>5. CASE \/ CancelledEarly \/ NotCancelledEarly \/ SkipRetention \/ RetentionOk
               \/ RetentionErr \/ CancelledInRunner \/ NothingPrepared
               \/ ProviderUnavailable \/ RequestConsent \/ NextPayload
               \/ ProviderFailed \/ AttemptErr \/ Consent \/ Decline
      BY <3>5 DEF CancelledEarly, NotCancelledEarly, SkipRetention, RetentionOk,
        RetentionErr, CancelledInRunner, NothingPrepared, ProviderUnavailable,
        RequestConsent, NextPayload, ProviderFailed, AttemptErr, Consent, Decline, history
    <3>6. CASE StoreRows \/ StartRetention \/ Cancel \/ Crash \/ SealOrClock \/ UNCHANGED vars
      BY <3>6 DEF StoreRows, StartRetention, Cancel, Crash, SealOrClock, vars, history
    <3> QED
      BY <3>1, <3>2, <3>3, <3>4, <3>5, <3>6 DEF Next, SessionStep
  <2>2. /\ session.at = "next" /\ session.todo = {} /\ linked' = linked \cup session.staged
    BY <2>1 DEF Commit, Session
  <2> QED
    BY <2>2 DEF IInv, Scoped, Sending
<1> QED
  BY <1>1, Invariant, PTL DEF Spec, AllOrNothing

(* A session's steps are the cascade's: what holds of it holds inside. *)
THEOREM SessionImplementsRetention == Spec => ImplementsRetention
<1>1. Init => R!Init
  BY DEF Init
<1>2. IInv /\ [Next]_vars => [R!Next]_(R!vars)
  BY SessionSimulates DEF IInv
<1> QED
  BY <1>1, <1>2, Invariant, PTL DEF Spec, ImplementsRetention, R!Spec

=============================================================================
