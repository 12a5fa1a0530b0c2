------------------------------ MODULE LoginItem ------------------------------
(***************************************************************************)
(* The login item of qaptr-macos (login_item.rs) over SMAppService: every  *)
(* native call is a step of its own, because the user may change the item  *)
(* in the system settings between two of them.  A registration points at   *)
(* the present copy of the app, or, after an upgrade, at an older one.     *)
(***************************************************************************)
EXTENDS Naturals

VARIABLES
    item,      \* [status, copy]: what the system holds
    request,   \* [at, enabled]: the call of set_enabled_value under way
    touched,   \* history: the user has changed the item during the request
    answer     \* what the last request answered
loginVars == <<item, request, touched, answer>>

Status == {"notRegistered", "enabled", "requiresApproval", "notFound", "unknown"}
Registered == {"enabled", "requiresApproval"}

(* status_value, which fails on a status it does not know.                 *)
Reading ==
    CASE item.status = "enabled" -> "Enabled"
      [] item.status = "unknown" -> "error"
      [] OTHER                   -> "Disabled"
Desired == IF request.enabled THEN "Enabled" ELSE "Disabled"

NoRequest == [at |-> "idle", enabled |-> FALSE]
AtStep(step) == request.at = step
NextStep(step) == request' = [request EXCEPT !.at = step] /\ UNCHANGED <<touched, answer>>
Reply(said) == request' = [request EXCEPT !.at = "idle"] /\ answer' = said /\ UNCHANGED touched

SetEnabled(enabled) ==
    /\ AtStep("idle")
    /\ request' = [at |-> "read", enabled |-> enabled]
    /\ touched' = FALSE /\ answer' = "none" /\ UNCHANGED item

ReadCurrentPlain ==
    /\ AtStep("read")
    /\ IF Reading = "error" \/ (~request.enabled /\ Reading = "Disabled")
       THEN Reply(Reading) ELSE NextStep("change")
    /\ UNCHANGED item
ReadCurrent ==
    /\ AtStep("read")
    /\ CASE Reading = "error"                          -> Reply("error")
         [] ~request.enabled /\ Reading = "Disabled"   -> Reply("Disabled")
         [] request.enabled /\ Reading = "Enabled"     -> NextStep("replace")
         [] OTHER                                      -> NextStep("change")
    /\ UNCHANGED item

(* SMAppService: a call that fails may have changed the item all the same. *)
Unregister(yes, no) ==
    \/ /\ item.status \in Registered /\ item' = [item EXCEPT !.status = "notRegistered"]
       /\ yes \/ no
    \/ UNCHANGED item /\ no
Register(yes, no) ==
    \/ /\ item.status \in {"notRegistered", "notFound"}
       /\ \E status \in Registered : item' = [status |-> status, copy |-> "present"]
       /\ yes \/ no
    \/ UNCHANGED item /\ no

(* The stale registration goes first; when it cannot, only an item that is *)
(* disabled by now goes on.                                                *)
ReplaceStale ==
    AtStep("replace") /\ Unregister(NextStep("change"), NextStep("recheck"))
Recheck ==
    /\ AtStep("recheck")
    /\ IF Reading = "Disabled" THEN NextStep("change") ELSE Reply("error")
    /\ UNCHANGED item

Change ==
    /\ AtStep("change")
    /\ IF request.enabled THEN Register(NextStep("confirm"), NextStep("excuse"))
       ELSE Unregister(NextStep("confirm"), NextStep("excuse"))

(* After a failure only the desired state is a success.                    *)
Excuse ==
    /\ AtStep("excuse")
    /\ Reply(IF Reading = Desired THEN Reading ELSE "error")
    /\ UNCHANGED item
Confirm == AtStep("confirm") /\ Reply(Reading) /\ UNCHANGED item

(* The user approves, withdraws or removes the item; the system may report *)
(* a status of a later release.                                            *)
UserChanges ==
    /\ item.status \in Registered \cup {"unknown"}
    /\ \E status \in (Registered \cup {"notRegistered", "unknown"}) \ {item.status} :
          item' = [item EXCEPT !.status = status]
    /\ touched' = TRUE
    /\ UNCHANGED <<request, answer>>
Upgrade ==
    /\ AtStep("idle") /\ item.status \in Registered
    /\ item' = [item EXCEPT !.copy = "older"]
    /\ touched' = TRUE
    /\ UNCHANGED <<request, answer>>

LoginInit ==
    /\ item \in [status : Status, copy : {"older"}] \cup {[status |-> "notFound", copy |-> "present"]}
    /\ request = NoRequest /\ touched = FALSE /\ answer = "none"
LoginNext ==
    \/ \E enabled \in BOOLEAN : SetEnabled(enabled)
    \/ ReadCurrent \/ ReplaceStale \/ Recheck \/ Change \/ Excuse \/ Confirm
    \/ UserChanges \/ Upgrade
LoginSpec == LoginInit /\ [][LoginNext]_loginVars

-----------------------------------------------------------------------------
(* Unless the user interferes, an enable that answers Enabled has left a   *)
(* registration of the present copy, never a stale one, and every other    *)
(* answer but an error tells the state the system is in, whichever native  *)
(* calls failed and whether or not they changed the item before            *)
(* (login_item.rs:53-94).                                                  *)
EnabledIsCurrent ==
    AtStep("idle") /\ ~touched =>
        /\ answer = "Enabled" => item = [status |-> "enabled", copy |-> "present"]
        /\ answer = "Disabled" => item.status # "enabled"
=============================================================================
