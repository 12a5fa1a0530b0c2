---------------------------- MODULE CryptoErasure ----------------------------
(***************************************************************************)
(* What the encrypted vault promises its callers, with no files, locks,    *)
(* crashes or partial work in sight: a capture becomes readable at one     *)
(* instant, a single bundle may be deleted, and destroying a generation    *)
(* makes all of its bundles unreadable at one instant and for ever.        *)
(* BundleVault implements this specification.                              *)
(***************************************************************************)
CONSTANTS
  Capture,      \* capture ids
  Generation    \* retention cohorts, each protected by one private key

VARIABLES
  readable,     \* the <<capture, generation>> pairs a caller can open
  erased        \* the generations whose private key has been destroyed

vars == <<readable, erased>>

TypeOK ==
  /\ readable \subseteq Capture \X Generation
  /\ erased \subseteq Generation

Init == readable = {} /\ erased = {}

(* A sealed bundle appears whole, and only under a generation still alive. *)
Seal(c, g) ==
  /\ g \notin erased
  /\ \A h \in Generation : <<c, h>> \notin readable
  /\ readable' = readable \cup {<<c, g>>}
  /\ UNCHANGED erased

(* One bundle goes away; its generation stays. *)
Delete(c) ==
  /\ readable' = {b \in readable : b[1] # c}
  /\ UNCHANGED erased

(* Cryptographic erasure of a whole cohort. *)
DestroyGeneration(g) ==
  /\ g \notin erased
  /\ readable' = {b \in readable : b[2] # g}
  /\ erased' = erased \cup {g}

Next ==
  \/ \E c \in Capture, g \in Generation : Seal(c, g)
  \/ \E c \in Capture : Delete(c)
  \/ \E g \in Generation : DestroyGeneration(g)

Spec == Init /\ [][Next]_vars

=============================================================================
