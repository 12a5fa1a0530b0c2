---------------------------- MODULE CaptureHelper ----------------------------
(***************************************************************************)
(* The capture side of the app: the detailed profile, the login item that  *)
(* starts the helper, its C bridge and the sealing behind the exclusion    *)
(* rules.  They share no variable, so a behaviour of the four is one of    *)
(* each, interleaved in any way; here every behaviour is of one of them,   *)
(* and the others stand still.                                             *)
(***************************************************************************)
EXTENDS CaptureProfile, LoginItem, VaultBridge

VARIABLE part     \* the one that moves
vars == <<part, profileVars, loginVars, bridgeVars>>

Init ==
    /\ part \in {"profile", "login item", "bridge", "sealing"}
    /\ ProfileInit /\ LoginInit /\ BridgeInit
Next ==
    /\ UNCHANGED part
    /\ \/ part = "profile" /\ ProfileNext /\ UNCHANGED <<loginVars, bridgeVars>>
       \/ part = "login item" /\ LoginNext /\ UNCHANGED <<profileVars, bridgeVars>>
       \/ part = "bridge" /\ BridgeNext /\ UNCHANGED <<profileVars, loginVars>>
       \/ part = "sealing" /\ SealingNext /\ UNCHANGED <<profileVars, loginVars>>
Spec == Init /\ [][Next]_vars
=============================================================================
