---------------------------- MODULE ReviewSession ----------------------------
(***************************************************************************)
(* crates/qaptr-workflow/src/session.rs and analyze.rs: one review.  The   *)
(* coordinator skips the captures that already have an observation, stores *)
(* the rows of the others, enforces retention, and hands what remains to   *)
(* the analysis runner, which opens and masks each capture, asks for       *)
(* consent once, sends the prepared captures to the provider one at a time *)
(* and commits the observations of all of them in one transaction.         *)
(*                                                                         *)
(* Meanwhile the helper seals captures, the clock moves, the user cancels, *)
(* and the process may die; the vault, the credential store and the        *)
(* history store survive, everything else is lost.  The retention cascade  *)
(* is the one of module Retention, step by step.                           *)
(***************************************************************************)
EXTENDS Integers

CONSTANTS
  Capture, Generation, GenOf, Hidden, Lifetime, MaxTime, NoGeneration,  \* as in Retention
  ObservationLimit,    \* AnalysisRunner::observation_limit
  MaxAnswer            \* bound: observations in one provider response

ASSUME SessionAssumption ==
  /\ ObservationLimit \in Nat \ {0}
  /\ MaxAnswer \in Nat \ {0}

VARIABLES
  bundle, capturedAt, privateKey, rows, now, pass,              \* as in Retention
  linked,       \* captures with an observation whose capture_id is their row
  orphaned,     \* captures with an observation whose capture_id was set to NULL
  cancelled,    \* the SessionCancellation flag, shared with the user interface
  session       \* the attempt under way

R == INSTANCE Retention

(* The captures and the clock are those of the cascade. *)
ASSUME CascadeAssumption == R!RetentionAssumption

retention == <<bundle, capturedAt, privateKey, rows, now, pass>>
vars == <<retention, linked, orphaned, cancelled, session>>

(***************************************************************************)
(* An attempt: where it stands; the captures it still has to prepare and,  *)
(* after consent, to send; those prepared and those sent; the captures     *)
(* with staged observations and how many more may be staged; whether       *)
(* consent was given; the progress shown last; and, as history, which of   *)
(* its captures were whole when it began and how many were sent although   *)
(* cancellation had been requested.                                        *)
(***************************************************************************)
Attempt(at, cs) ==
  [at |-> at, todo |-> cs, prepared |-> {}, sent |-> {}, staged |-> {},
   left |-> ObservationLimit, consented |-> FALSE, shown |-> "ingesting",
   listed |-> {c \in cs : bundle[c] = "whole"}, late |-> 0]

Session(at) == session.at = at
Goto(at)    == session' = [session EXCEPT !.at = at]
(* The attempt is over; Err keeps the last progress, no state is emitted. *)
Report(progress) == session' = [session EXCEPT !.at = "idle", !.shown = progress]
Err == Goto("idle")

history == <<linked, orphaned>>

-----------------------------------------------------------------------------
(* ReviewSessionCoordinator *)

(* Plausible bug: the completed captures are not dropped. *)
BeginAll(captures) ==
  /\ Session("idle")
  /\ \A c \in captures : bundle[c] # "none"
  /\ session' = Attempt("ingesting", captures)

(* The input is deduplicated and the captures with a durable observation   *)
(* are dropped.  A restarted app and a retry may list captures that were   *)
(* removed since.                                                          *)
Begin(captures) ==
  /\ Session("idle")
  /\ \A c \in captures : bundle[c] # "none"
  /\ session' = Attempt("ingesting", captures \ linked)

Start(captures) ==
  /\ Begin(captures)
  /\ UNCHANGED <<retention, history, cancelled>>

(* retry_with_captures clears the flag, and then starts as usual. *)
Retry(captures) ==
  /\ Begin(captures)
  /\ cancelled' = FALSE
  /\ UNCHANGED <<retention, history>>

(* The coordinator looks at the flag twice, before and after retention. *)
CancelledEarly ==
  /\ Session("ingesting") \/ Session("retained")
  /\ cancelled
  /\ Report("cancelled")
  /\ UNCHANGED <<retention, history, cancelled>>

NotCancelledEarly ==
  /\ ~cancelled
  /\ \/ Session("ingesting") /\ Goto("storing")
     \/ Session("retained") /\ session' = [session EXCEPT !.at = "preparing",
                                                          !.shown = "preparing"]
  /\ UNCHANGED <<retention, history, cancelled>>

(* Plausible bug: the rows of this session replace those of earlier ones. *)
StoreRowsAnew ==
  /\ Session("storing")
  /\ rows' = session.todo
  /\ Goto("stored")
  /\ UNCHANGED <<bundle, capturedAt, privateKey, now, pass, history, cancelled>>

StoreRows ==
  /\ Session("storing")
  /\ R!Ingest(session.todo)
  /\ Goto("stored")
  /\ UNCHANGED <<history, cancelled>>

(* Retention is optional. *)
SkipRetention ==
  /\ Session("stored")
  /\ Goto("retained")
  /\ UNCHANGED <<retention, history, cancelled>>

StartRetention ==
  /\ Session("stored")
  /\ R!Begin
  /\ Goto("retaining")
  /\ UNCHANGED <<history, cancelled>>

(* Deleting a row sets capture_id of its observations to NULL. *)
RetentionStep ==
  /\ Session("retaining")
  /\ R!PassStep \/ R!Fault
  /\ linked' = linked \cap rows'
  /\ orphaned' = orphaned \cup (linked \ rows')
  /\ UNCHANGED <<cancelled, session>>

(* Plausible bug: the captures that lost their row stay eligible. *)
RetentionOkUnfiltered ==
  /\ Session("retaining")
  /\ pass.at = "ok"
  /\ Goto("retained")
  /\ UNCHANGED <<retention, history, cancelled>>

(* Only the captures that still have a row remain eligible. *)
RetentionOk ==
  /\ Session("retaining")
  /\ pass.at = "ok"
  /\ session' = [session EXCEPT !.at = "retained", !.todo = @ \cap rows]
  /\ UNCHANGED <<retention, history, cancelled>>

RetentionErr ==
  /\ Session("retaining")
  /\ pass.at = "err"
  /\ Err
  /\ UNCHANGED <<retention, history, cancelled>>

-----------------------------------------------------------------------------
(* AnalysisRunner *)

(* The flag is looked at before each capture and once after the last. *)
CancelledInRunner ==
  /\ Session("preparing") \/ Session("next")
  /\ Session("next") => session.todo # {}
  /\ cancelled
  /\ Report("cancelled")
  /\ UNCHANGED <<retention, history, cancelled>>

(* put_capture, open, decode and the privacy gate, which may exclude it. *)
Prepare(c) ==
  /\ Session("preparing")
  /\ ~cancelled
  /\ c \in session.todo
  /\ R!Ingest({c})
  /\ bundle[c] = "whole" /\ GenOf[c] \in privateKey
  /\ \E ps \in {{}, {c}} :
       session' = [session EXCEPT !.todo = @ \ {c}, !.prepared = @ \cup ps]
  /\ UNCHANGED <<history, cancelled>>

(* The bundle cannot be opened or decoded: the whole attempt ends. *)
PrepareErr(c) ==
  /\ Session("preparing")
  /\ ~cancelled
  /\ c \in session.todo
  /\ R!Ingest({c})
  /\ Err
  /\ UNCHANGED <<history, cancelled>>

NothingPrepared ==
  /\ Session("preparing")
  /\ ~cancelled
  /\ session.todo = {} /\ session.prepared = {}
  /\ Report("completed")
  /\ UNCHANGED <<retention, history, cancelled>>

(* No provider is configured, or it fails its revalidation. *)
ProviderUnavailable ==
  /\ Session("preparing")
  /\ ~cancelled
  /\ session.todo = {} /\ session.prepared # {}
  /\ Report("failed")
  /\ UNCHANGED <<retention, history, cancelled>>

RequestConsent ==
  /\ Session("preparing")
  /\ ~cancelled
  /\ session.todo = {} /\ session.prepared # {}
  /\ Goto("consent")
  /\ UNCHANGED <<retention, history, cancelled>>

Consent ==
  /\ Session("consent")
  /\ session' = [session EXCEPT !.at = "next", !.consented = TRUE,
                                !.todo = session.prepared]
  /\ UNCHANGED <<retention, history, cancelled>>

Decline ==
  /\ Session("consent")
  /\ Report("completed")
  /\ UNCHANGED <<retention, history, cancelled>>

(* Plausible bug: the flag is not looked at between two captures. *)
NextPayloadUnchecked ==
  /\ Session("next")
  /\ session.todo # {}
  /\ Goto("send")
  /\ UNCHANGED <<retention, history, cancelled>>

(* The flag is clear: go on to invoke.  It may be set before the request   *)
(* leaves and while the provider works; neither is noticed.                *)
NextPayload ==
  /\ Session("next")
  /\ session.todo # {}
  /\ ~cancelled
  /\ Goto("send")
  /\ UNCHANGED <<retention, history, cancelled>>

Send(c) ==
  /\ Session("send")
  /\ c \in session.todo
  /\ session' = [session EXCEPT !.at = "answer", !.sent = @ \cup {c},
                                !.late = IF cancelled THEN @ + 1 ELSE @]
  /\ UNCHANGED <<retention, history, cancelled>>

(* The provider found n observations; no more than are left are staged.    *)
Answer(c, n) ==
  /\ Session("answer")
  /\ c \in session.todo \cap session.sent
  /\ LET kept == IF n <= session.left THEN n ELSE session.left
     IN session' = [session EXCEPT !.at = "next",
                                   !.todo = @ \ {c},
                                   !.staged = IF kept > 0 THEN @ \cup {c} ELSE @,
                                   !.left = @ - kept]
  /\ UNCHANGED <<retention, history, cancelled>>

(* Plausible bug: a failing call is tried again without end. *)
ProviderFailedRetries ==
  /\ Session("answer")
  /\ Goto("send")
  /\ UNCHANGED <<retention, history, cancelled>>

(* A failing or timed-out provider call fails the whole analysis. *)
ProviderFailed ==
  /\ Session("answer")
  /\ Report("failed")
  /\ UNCHANGED <<retention, history, cancelled>>

(* Plausible bug: observations are committed as they come. *)
CommitPartial ==
  /\ Session("next")
  /\ session.staged \subseteq rows
  /\ linked' = linked \cup session.staged
  /\ Report("completed")
  /\ UNCHANGED <<retention, orphaned, cancelled>>

(* One transaction; its foreign keys need every capture's row. *)
Commit ==
  /\ Session("next")
  /\ session.todo = {}
  /\ session.staged \subseteq rows
  /\ linked' = linked \cup session.staged
  /\ Report("completed")
  /\ UNCHANGED <<retention, orphaned, cancelled>>

(* The store, the clock or a conversion fails: the attempt ends with an    *)
(* error, and a transaction under way is rolled back.                      *)
AttemptErr ==
  /\ session.at \in {"ingesting", "storing", "retaining", "retained",
                     "preparing", "answer", "next"}
  /\ Session("retaining") => pass.at = "ok"
  /\ Err
  /\ UNCHANGED <<retention, history, cancelled>>

-----------------------------------------------------------------------------
(* The rest of the system *)

Cancel ==
  /\ cancelled' = TRUE
  /\ UNCHANGED <<retention, history, session>>

(* The process dies, and with it the attempt, the pass and the flag. *)
Crash ==
  /\ ~Session("idle")
  /\ session' = Attempt("idle", {})
  /\ cancelled' = FALSE
  /\ pass' = IF pass.at \in R!Finished THEN pass ELSE R!Result("err")
  /\ UNCHANGED <<bundle, capturedAt, privateKey, rows, now, history>>

SealOrClock ==
  /\ (\E c \in Capture : R!Seal(c)) \/ (\E t \in R!Time : R!SetClock(t))
  /\ UNCHANGED <<history, cancelled, session>>

Init ==
  /\ R!Init
  /\ linked = {} /\ orphaned = {}
  /\ cancelled = FALSE
  /\ session = Attempt("idle", {})

SessionStep ==
  \/ CancelledEarly \/ NotCancelledEarly \/ StoreRows
  \/ SkipRetention \/ StartRetention \/ RetentionStep \/ RetentionOk \/ RetentionErr
  \/ CancelledInRunner \/ NothingPrepared \/ ProviderUnavailable \/ RequestConsent
  \/ NextPayload \/ ProviderFailed \/ Commit \/ AttemptErr
  \/ \E c \in Capture : Prepare(c) \/ PrepareErr(c) \/ Send(c)
  \/ \E c \in Capture, n \in 0..MaxAnswer : Answer(c, n)

Next ==
  \/ \E cs \in SUBSET Capture : Start(cs) \/ Retry(cs)
  \/ SessionStep
  \/ Consent \/ Decline
  \/ Cancel \/ Crash \/ SealOrClock

Spec == Init /\ [][Next]_vars

(* The thread that runs the attempt is scheduled; a provider call returns, *)
(* if only by its timeout.  The user may leave the consent unanswered.     *)
FairSpec == Spec /\ WF_vars(SessionStep)

-----------------------------------------------------------------------------
(* Properties *)

(* A capture that has an observation is never sent to a provider again,    *)
(* not by a later session, a retry or a restarted app, also when retention *)
(* has cut the observation from its row: the bundle is erased by then.     *)
AnalysedIsNeverResent ==
  [][ \A c \in Capture : Send(c) => c \notin linked \cup orphaned ]_vars

(* Nothing leaves without a consent of this very attempt, which covers     *)
(* exactly the captures that passed the privacy gate; and once a           *)
(* cancellation is requested at most one more capture is sent, the one     *)
(* whose check of the flag came before.                                    *)
SendingIsPermitted ==
  /\ session.sent # {} => session.consented /\ session.sent \subseteq session.prepared
  /\ session.late <= 1

(* A capture that was whole when the session began is either dropped by     *)
(* the session's own retention pass or still whole when it is prepared:    *)
(* retention never makes the session stop at a bundle it has just erased.  *)
RetentionStrandsNothing ==
  session.at \in {"retained", "preparing"} =>
    \A c \in session.todo \cap session.listed : bundle[c] = "whole"

(* Observations appear all at once, when every prepared capture was sent   *)
(* and answered: a session that is cancelled, declined, fails or dies      *)
(* leaves none.                                                            *)
AllOrNothing ==
  [][ linked' \ linked # {} =>
        /\ session.sent = session.prepared
        /\ linked' \ linked \subseteq session.sent
        /\ session.at = "next" /\ session.todo = {} ]_vars

(* The session's steps are steps of the retention cascade as it is stated  *)
(* on its own, so what module Retention shows holds inside a session.      *)
ImplementsRetention == R!Spec

(* An attempt comes to its end, unless it waits for the user's consent. *)
AttemptEnds == ~Session("idle") ~> session.at \in {"idle", "consent"}

=============================================================================
