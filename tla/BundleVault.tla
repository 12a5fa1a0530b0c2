----------------------------- MODULE BundleVault -----------------------------
(***************************************************************************)
(* crates/qaptr-vault: the filesystem-backed vault of encrypted capture    *)
(* bundles.  Several processes share one vault directory: the capture      *)
(* helper seals bundles, the review app opens them and destroys            *)
(* generations.  Every call below takes the advisory lock .vault.lock,     *)
(* does its work in several filesystem and credential operations, and      *)
(* releases the lock when the guard is dropped, or when its process dies.  *)
(* Any filesystem operation may fail and any process may die between two   *)
(* of them; what it had written to disk stays.                             *)
(***************************************************************************)
EXTENDS FiniteSets

CONSTANTS
  Helper,        \* processes that only seal (the capture helper, through FFI)
  App,           \* review-app threads or processes: every other call
  Capture,       \* capture ids: the names under bundles/
  Generation,    \* generation ids
  Payload,       \* the encrypted members: image.age, context.age, artifacts.age
  NoProcess, NoCapture, NoGeneration

Process == Helper \cup App

(* The two plaintext members that seal_into writes after the payload. *)
Manifest  == "manifest"
Committed == "COMMITTED"
Member    == Payload \cup {Manifest, Committed}

ASSUME VaultAssumption ==
  /\ NoProcess \notin Process
  /\ NoCapture \notin Capture
  /\ NoGeneration \notin Generation
  /\ Manifest \notin Payload
  /\ Committed \notin Payload

VARIABLES
  holder,     \* who holds .vault.lock
  op,         \* the call each process is executing
  exists,     \* captures with a directory bundles/<id>
  files,      \* the members inside that directory
  genOf,      \* the generation seal wrote into its manifest
  key,        \* a generation's private key in the credential store
  pubKey,     \* generations with a file generations/<g>.pub
  pubTemp     \* generations with a left-over generations/<g>.pub.tmp

disk == <<exists, files, genOf, key, pubKey, pubTemp>>
vars == <<holder, op, disk>>

(***************************************************************************)
(* A call: where it stands, its capture and generation, and a set of       *)
(* members (those already written to the temporary directory by seal,      *)
(* those still to be decrypted by open).                                   *)
(***************************************************************************)
Call(at, c, g, ms) == [at |-> at, cap |-> c, gen |-> g, members |-> ms]
Idle == Call("idle", NoCapture, NoGeneration, {})

Waiting == {"seal", "open", "destroy", "delete", "register"}
Locked  == {"seal.write", "open.key", "open.decrypt", "destroy.unlink",
            "destroy.remove", "delete.remove", "register.write"}

Enter(p, call) == op' = [op EXCEPT ![p] = call]
At(p, where)   == op[p].at = where

Lock(p)   == holder = NoProcess /\ holder' = p
(* Dropping FileLock, on every return path. *)
Return(p) == holder' = NoProcess /\ Enter(p, Idle)
(* A call that takes the lock and returns without leaving a trace. *)
ReturnAtOnce(p) == holder = NoProcess /\ Return(p) /\ UNCHANGED disk

(* read_metadata succeeds: the directory, the marker and every member are there. *)
IsCommitted(c) == c \in exists /\ files[c] = Member

(* list_committed_bundles, and the bundles of g that destroy_generation may unlink. *)
CommittedBundles == {c \in Capture : IsCommitted(c)}
Doomed(g) == {c \in CommittedBundles : genOf[c] = g}

-----------------------------------------------------------------------------
(* seal *)

(* public_key is read before the call and without the lock. *)
CallSeal(p, c, g) ==
  /\ At(p, "idle")
  /\ g \in pubKey
  /\ Enter(p, Call("seal", c, g, {}))
  /\ UNCHANGED <<holder, disk>>

(* BundleExists, or the temporary directory could not be created. *)
SealRefused(p) == At(p, "seal") /\ ReturnAtOnce(p)

(* Plausible bug: an existing directory is not looked for. *)
SealStartOverwrites(p) ==
  /\ At(p, "seal")
  /\ Lock(p)
  /\ Enter(p, [op[p] EXCEPT !.at = "seal.write"])
  /\ UNCHANGED disk

SealStart(p) ==
  /\ At(p, "seal")
  /\ op[p].cap \notin exists
  /\ Lock(p)
  /\ Enter(p, [op[p] EXCEPT !.at = "seal.write"])
  /\ UNCHANGED disk

(* seal_into: the encrypted members, then the manifest, then the marker.   *)
(* The order among the encrypted members is not kept.                      *)
NextMembers(written) ==
  IF ~(Payload \subseteq written) THEN Payload \ written
  ELSE IF Manifest \notin written THEN {Manifest}
  ELSE {Committed} \ written

SealWrite(p) ==
  /\ At(p, "seal.write")
  /\ \E m \in NextMembers(op[p].members) :
       Enter(p, [op[p] EXCEPT !.members = @ \cup {m}])
  /\ UNCHANGED <<holder, disk>>

(* A member, the exclusion attributes, the sync or the rename failed.  The *)
(* hidden temporary directory may stay behind, here and in a crash: every  *)
(* scan skips names that start with a dot and no later seal reuses the     *)
(* name, so left-over ones are not part of the state.                      *)
SealFail(p) ==
  /\ At(p, "seal.write")
  /\ Return(p)
  /\ UNCHANGED disk

(* Plausible bug: the rename does not wait for the marker. *)
SealCommitEarly(p) ==
  /\ At(p, "seal.write")
  /\ exists' = exists \cup {op[p].cap}
  /\ files' = [files EXCEPT ![op[p].cap] = op[p].members]
  /\ genOf' = [genOf EXCEPT ![op[p].cap] = op[p].gen]
  /\ Return(p)
  /\ UNCHANGED <<key, pubKey, pubTemp>>

(* The rename makes the bundle visible; the sync that follows may still     *)
(* fail, which changes what seal returns and nothing on disk.               *)
SealCommit(p) ==
  /\ At(p, "seal.write")
  /\ NextMembers(op[p].members) = {}
  /\ exists' = exists \cup {op[p].cap}
  /\ files' = [files EXCEPT ![op[p].cap] = op[p].members]
  /\ genOf' = [genOf EXCEPT ![op[p].cap] = op[p].gen]
  /\ Return(p)
  /\ UNCHANGED <<key, pubKey, pubTemp>>

-----------------------------------------------------------------------------
(* open *)

CallOpen(p, c) ==
  /\ At(p, "idle")
  /\ Enter(p, Call("open", c, NoGeneration, {}))
  /\ UNCHANGED <<holder, disk>>

(* BundleNotFound, IncompleteBundle, or the manifest could not be read. *)
OpenRefused(p) == At(p, "open") /\ ReturnAtOnce(p)

OpenStart(p) ==
  /\ At(p, "open")
  /\ IsCommitted(op[p].cap)
  /\ Lock(p)
  /\ Enter(p, Call("open.key", op[p].cap, genOf[op[p].cap], {}))
  /\ UNCHANGED disk

(* credentials.read: an error, a partial result or no key ends the call. *)
OpenKey(p) ==
  /\ At(p, "open.key")
  /\ \/ /\ key[op[p].gen] = "held"
        /\ Enter(p, Call("open.decrypt", op[p].cap, op[p].gen, Payload))
        /\ UNCHANGED holder
     \/ Return(p)
  /\ UNCHANGED disk

OpenDecrypt(p) ==
  /\ At(p, "open.decrypt")
  /\ \E m \in op[p].members \cap files[op[p].cap] :
       Enter(p, [op[p] EXCEPT !.members = @ \ {m}])
  /\ UNCHANGED <<holder, disk>>

(* Everything was decrypted, or a member was missing or did not authenticate. *)
OpenReturn(p) ==
  /\ At(p, "open.decrypt")
  /\ Return(p)
  /\ UNCHANGED disk

-----------------------------------------------------------------------------
(* destroy_generation and delete *)

CallDestroy(p, g) ==
  /\ At(p, "idle")
  /\ Enter(p, Call("destroy", NoCapture, g, {}))
  /\ UNCHANGED <<holder, disk>>

(* Deleting an absent credential succeeds, as the Keychain adapter does. *)
KeyDeleted(g) == [key EXCEPT ![g] = IF @ = "held" THEN "gone" ELSE @]

(* Plausible bug: the key is left for last. *)
DestroyKeyLast(p) ==
  /\ At(p, "destroy")
  /\ Lock(p)
  /\ Enter(p, [op[p] EXCEPT !.at = "destroy.unlink"])
  /\ UNCHANGED disk

(* credentials.delete comes before any file is touched. *)
DestroyKey(p) ==
  /\ At(p, "destroy")
  /\ Lock(p)
  /\ key' = KeyDeleted(op[p].gen)
  /\ Enter(p, [op[p] EXCEPT !.at = "destroy.unlink"])
  /\ UNCHANGED <<exists, files, genOf, pubKey, pubTemp>>

(* An error or a partial deletion: the key may or may not be gone. *)
DestroyKeyFail(p) ==
  /\ At(p, "destroy")
  /\ holder = NoProcess
  /\ Return(p)
  /\ key' \in {key, KeyDeleted(op[p].gen)}
  /\ UNCHANGED <<exists, files, genOf, pubKey, pubTemp>>

DestroyPick(p) ==
  /\ At(p, "destroy.unlink")
  /\ \E c \in Doomed(op[p].gen) :
       Enter(p, Call("destroy.remove", c, op[p].gen, {}))
  /\ UNCHANGED <<holder, disk>>

(* The scan is through.  It has passed over what it took for another       *)
(* generation's: a directory whose metadata it could not read, or one      *)
(* whose name begins with a dot.                                           *)
DestroyDone(p) ==
  /\ At(p, "destroy.unlink")
  /\ Return(p)
  /\ UNCHANGED disk

CallDelete(p, c) ==
  /\ At(p, "idle")
  /\ Enter(p, Call("delete", c, NoGeneration, {}))
  /\ UNCHANGED <<holder, disk>>

(* No such directory: Ok(false). *)
DeleteAbsent(p) ==
  /\ At(p, "delete")
  /\ op[p].cap \notin exists
  /\ ReturnAtOnce(p)

(* Plausible bug: delete does not take the lock. *)
DeleteStartUnlocked(p) ==
  /\ At(p, "delete")
  /\ op[p].cap \in exists
  /\ Enter(p, [op[p] EXCEPT !.at = "delete.remove"])
  /\ UNCHANGED <<holder, disk>>

(* A directory is deleted whatever it holds, also one left half removed. *)
DeleteStart(p) ==
  /\ At(p, "delete")
  /\ op[p].cap \in exists
  /\ Lock(p)
  /\ Enter(p, [op[p] EXCEPT !.at = "delete.remove"])
  /\ UNCHANGED disk

Removing(p) == At(p, "destroy.remove") \/ At(p, "delete.remove")

(* remove_dir_all unlinks the members in directory order, which is any order, *)
RemoveMember(p) ==
  /\ Removing(p)
  /\ \E m \in files[op[p].cap] :
       files' = [files EXCEPT ![op[p].cap] = @ \ {m}]
  /\ UNCHANGED <<holder, op, exists, genOf, key, pubKey, pubTemp>>

(* then the directory itself. *)
RemoveDir(p) ==
  /\ Removing(p)
  /\ files[op[p].cap] = {}
  /\ exists' = exists \ {op[p].cap}
  /\ genOf' = [genOf EXCEPT ![op[p].cap] = NoGeneration]
  /\ \/ /\ At(p, "destroy.remove")
        /\ Enter(p, Call("destroy.unlink", NoCapture, op[p].gen, {}))
        /\ UNCHANGED holder
     \/ At(p, "delete.remove") /\ Return(p)
  /\ UNCHANGED <<files, key, pubKey, pubTemp>>

(* Plausible bug: the error path keeps the lock. *)
RemoveFailKeepsLock(p) ==
  /\ Removing(p) \/ At(p, "destroy.unlink")
  /\ Enter(p, Idle)
  /\ UNCHANGED <<holder, disk>>

(* A failing filesystem call ends the scan or the removal where it stands. *)
RemoveFail(p) ==
  /\ Removing(p) \/ At(p, "destroy.unlink")
  /\ Return(p)
  /\ UNCHANGED disk

-----------------------------------------------------------------------------
(* Generation keys *)

(* External: a key pair is generated and its private half stored. *)
CreateGeneration(g) ==
  /\ key[g] = "none"
  /\ key' = [key EXCEPT ![g] = "held"]
  /\ UNCHANGED <<holder, op, exists, files, genOf, pubKey, pubTemp>>

CallRegister(p, g) ==
  /\ At(p, "idle")
  /\ key[g] # "none"
  /\ Enter(p, Call("register", NoCapture, g, {}))
  /\ UNCHANGED <<holder, disk>>

(* atomic_write cannot create its temporary file when one was left behind; *)
(* its error path then removes that file, so the next attempt succeeds.    *)
RegisterRefused(p) ==
  /\ At(p, "register")
  /\ op[p].gen \in pubTemp
  /\ holder = NoProcess
  /\ Return(p)
  /\ pubTemp' \in {pubTemp, pubTemp \ {op[p].gen}}
  /\ UNCHANGED <<exists, files, genOf, key, pubKey>>

RegisterStart(p) ==
  /\ At(p, "register")
  /\ op[p].gen \notin pubTemp
  /\ Lock(p)
  /\ Enter(p, [op[p] EXCEPT !.at = "register.write"])
  /\ pubTemp' = pubTemp \cup {op[p].gen}
  /\ UNCHANGED <<exists, files, genOf, key, pubKey>>

RegisterCommit(p) ==
  /\ At(p, "register.write")
  /\ pubKey' = pubKey \cup {op[p].gen}
  /\ pubTemp' = pubTemp \ {op[p].gen}
  /\ Return(p)
  /\ UNCHANGED <<exists, files, genOf, key>>

RegisterFail(p) ==
  /\ At(p, "register.write")
  /\ pubTemp' \in {pubTemp, pubTemp \ {op[p].gen}}
  /\ Return(p)
  /\ UNCHANGED <<exists, files, genOf, key, pubKey>>

-----------------------------------------------------------------------------
(* A process dies: its call is forgotten, the kernel drops its lock, and   *)
(* the disk stays as the last completed operation left it.                 *)
Crash(p) ==
  /\ ~At(p, "idle")
  /\ Enter(p, Idle)
  /\ holder' = IF holder = p THEN NoProcess ELSE holder
  /\ UNCHANGED disk

Init ==
  /\ holder = NoProcess
  /\ op = [p \in Process |-> Idle]
  /\ exists = {}
  /\ files = [c \in Capture |-> {}]
  /\ genOf = [c \in Capture |-> NoGeneration]
  /\ key = [g \in Generation |-> "none"]
  /\ pubKey = {}
  /\ pubTemp = {}

(* The steps of a call under way, once it has the lock. *)
LockedStep(p) ==
  \/ SealWrite(p) \/ SealFail(p) \/ SealCommit(p)
  \/ OpenKey(p) \/ OpenDecrypt(p) \/ OpenReturn(p)
  \/ DestroyPick(p) \/ DestroyDone(p)
  \/ RemoveMember(p) \/ RemoveDir(p) \/ RemoveFail(p)
  \/ RegisterCommit(p) \/ RegisterFail(p)

(* A call that waits for the lock gets it, and works or returns. *)
FirstStep(p) ==
  \/ SealRefused(p) \/ SealStart(p)
  \/ OpenRefused(p) \/ OpenStart(p)
  \/ DestroyKey(p) \/ DestroyKeyFail(p)
  \/ DeleteAbsent(p) \/ DeleteStart(p)
  \/ RegisterRefused(p) \/ RegisterStart(p)

Next ==
  \/ \E p \in Helper, c \in Capture, g \in Generation : CallSeal(p, c, g)
  \/ \E p \in App, c \in Capture : CallOpen(p, c) \/ CallDelete(p, c)
  \/ \E p \in App, g \in Generation : CallDestroy(p, g) \/ CallRegister(p, g)
  \/ \E g \in Generation : CreateGeneration(g)
  \/ \E p \in Process : FirstStep(p) \/ LockedStep(p) \/ Crash(p)

Spec == Init /\ [][Next]_vars

-----------------------------------------------------------------------------
(* Properties *)

Calls == [at : {"idle"} \cup Waiting \cup Locked,
          cap : Capture \cup {NoCapture},
          gen : Generation \cup {NoGeneration},
          members : SUBSET Member]

TypeOK ==
  /\ holder \in Process \cup {NoProcess}
  /\ op \in [Process -> Calls]
  /\ exists \subseteq Capture
  /\ files \in [Capture -> SUBSET Member]
  /\ genOf \in [Capture -> Generation \cup {NoGeneration}]
  /\ key \in [Generation -> {"none", "held", "gone"}]
  /\ pubKey \subseteq Generation
  /\ pubTemp \subseteq Generation

(* Every call works on the vault alone, and the lock is never held by a    *)
(* process that is not inside a call: each return path and each crash      *)
(* releases it (FileLock in lib.rs).                                       *)
OneCallInside == \A p \in Process : op[p].at \in Locked <=> holder = p

(* While open decrypts, the bundle it checked stays whole and stays the    *)
(* one whose generation key it fetched: no concurrent seal, delete or      *)
(* destroy_generation tears it.                                            *)
OpenIsNeverTorn ==
  \A p \in Process :
    At(p, "open.decrypt") =>
      /\ IsCommitted(op[p].cap)
      /\ genOf[op[p].cap] = op[p].gen
      /\ key[op[p].gen] = "held"

(* Wherever destroy_generation is interrupted, a bundle it has begun to    *)
(* unlink, and each one it has yet to unlink, is already unreadable.       *)
KeyGoneBeforeUnlink ==
  \A p \in Process :
    op[p].at \in {"destroy.unlink", "destroy.remove"} =>
      \A c \in exists : genOf[c] = op[p].gen => key[op[p].gen] # "held"

(* A directory under bundles/ that is neither whole nor being removed is   *)
(* the trace of an interrupted removal, never of an interrupted seal: a    *)
(* bundle appears with all its members and never gains or swaps one.       *)
CommittedAtomically ==
  [][ \A c \in Capture :
        /\ c \in exists' \ exists => files'[c] = Member
        /\ c \in exists' \cap exists =>
             files'[c] \subseteq files[c] /\ genOf'[c] = genOf[c] ]_vars

(* What the callers may rely on: the abstract vault. *)
Readable == {<<c, genOf[c]>> : c \in {d \in CommittedBundles : key[genOf[d]] = "held"}}
Abstract == INSTANCE CryptoErasure WITH
              readable <- Readable,
              erased <- {g \in Generation : key[g] = "gone"}
ImplementsErasure == Abstract!Spec

=============================================================================
