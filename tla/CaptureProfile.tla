---------------------------- MODULE CaptureProfile ----------------------------
(***************************************************************************)
(* The detailed capture profile of qaptr-policy (profile.rs): at most one  *)
(* window, granted by an explicit start and bounded once, against a wall   *)
(* clock that may be set in both directions.  A caller keeps the small     *)
(* state and restores it when the helper starts again.                     *)
(***************************************************************************)
EXTENDS Naturals

CONSTANTS
    LastInstant,   \* the last instant a SystemTime can hold
    Durations,     \* the durations a start may ask for
    MaxGrants      \* bound: windows granted in one behaviour

ASSUME ProfileAssumption ==
    /\ LastInstant \in Nat /\ Durations \subseteq Nat /\ MaxGrants \in Nat

VARIABLES
    clock,      \* Clock::now
    active,     \* CaptureProfileLifecycle.active
    persisted,  \* the copy a caller has kept
    grants,     \* windows granted so far; each profile is labelled with its grant
    ended,      \* history: grants this process has seen expire or has ended
    mode        \* what the last call answered
profileVars == <<clock, active, persisted, grants, ended, mode>>

Instant == 0 .. LastInstant
Profile == [grant : 1 .. MaxGrants, started_at : Instant, ends_at : Instant]
NoProfile == [grant |-> 0, started_at |-> 0, ends_at |-> 0]
Modes == {"interval", "detailed", "started", "ended", "not active", "already active",
          "invalid duration", "end overflow"}

IsExpired(profile) == clock >= profile.ends_at

(* reconcile, of start and of state: a window that has elapsed is cleared. *)
Reconcile ==
    IF active # NoProfile /\ IsExpired(active)
    THEN [kept |-> NoProfile, over |-> {active.grant}]
    ELSE [kept |-> active, over |-> {}]

(* start reads the clock twice: to reconcile, and, when no window is kept, *)
(* for the one it grants.  now is the second reading.                      *)
StartRefused(duration, now) ==
    /\ \/ Reconcile.kept # NoProfile /\ mode' = "already active" /\ now = clock
       \/ Reconcile.kept = NoProfile /\ duration = 0 /\ mode' = "invalid duration"
       \/ /\ Reconcile.kept = NoProfile /\ duration # 0
          /\ now + duration > LastInstant /\ mode' = "end overflow"
    /\ clock' = now /\ active' = Reconcile.kept /\ ended' = ended \cup Reconcile.over
    /\ UNCHANGED <<persisted, grants>>

Start(duration, now) ==
    /\ grants < MaxGrants
    /\ Reconcile.kept = NoProfile /\ duration # 0 /\ now + duration <= LastInstant
    /\ active' = [grant |-> grants + 1, started_at |-> now, ends_at |-> now + duration]
    /\ grants' = grants + 1 /\ ended' = ended \cup Reconcile.over /\ mode' = "started"
    /\ clock' = now /\ UNCHANGED persisted

End ==
    /\ active' = NoProfile
    /\ IF active # NoProfile
       THEN ended' = ended \cup {active.grant} /\ mode' = "ended"
       ELSE UNCHANGED ended /\ mode' = "not active"
    /\ UNCHANGED <<clock, persisted, grants>>

StateByComparing ==
    /\ mode' = IF Reconcile.kept = NoProfile THEN "interval" ELSE "detailed"
    /\ ended' = ended \cup Reconcile.over
    /\ UNCHANGED <<clock, active, persisted, grants>>
State ==
    /\ mode' = IF Reconcile.kept = NoProfile THEN "interval" ELSE "detailed"
    /\ active' = Reconcile.kept /\ ended' = ended \cup Reconcile.over
    /\ UNCHANGED <<clock, persisted, grants>>

(* active_profile reads no clock, so a copy may be of an elapsed window.   *)
Persist ==
    /\ persisted' = active
    /\ UNCHANGED <<clock, active, grants, ended, mode>>

(* from_active_profile, or new when nothing was kept.  What the process    *)
(* had seen is gone.                                                       *)
Restart ==
    /\ active' = persisted /\ ended' = {} /\ mode' = "interval"
    /\ UNCHANGED <<clock, persisted, grants>>

SetTime(now) ==
    /\ clock' = now
    /\ UNCHANGED <<active, persisted, grants, ended, mode>>

ProfileInit ==
    /\ clock = 0 /\ active = NoProfile /\ persisted = NoProfile
    /\ grants = 0 /\ ended = {} /\ mode = "interval"
ProfileNext ==
    \/ \E d \in Durations, now \in Instant : Start(d, now) \/ StartRefused(d, now)
    \/ End \/ State \/ Persist \/ Restart
    \/ \E now \in Instant : SetTime(now)
ProfileSpec == ProfileInit /\ [][ProfileNext]_profileVars

-----------------------------------------------------------------------------
ProfileTypeOK ==
    /\ clock \in Instant
    /\ active \in Profile \cup {NoProfile} /\ persisted \in Profile \cup {NoProfile}
    /\ grants \in 0 .. MaxGrants /\ ended \subseteq 1 .. MaxGrants
    /\ mode \in Modes

(* A window the process has once seen over, because its bound passed or    *)
(* because the user ended it, does not come back when the clock is set     *)
(* back: only a new start grants another (profile.rs:1-7, reconcile).      *)
OverStaysOver == active # NoProfile => active.grant \notin ended
=============================================================================
