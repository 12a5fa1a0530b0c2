------------------------- MODULE BundleVault_proofs -------------------------
(***************************************************************************)
(* What holds of the vault for any processes, captures, generations and    *)
(* payload members.  The inductive invariant adds to the properties what   *)
(* each call knows at each of its steps, and that generations are created  *)
(* before anything is sealed to them.                                      *)
(***************************************************************************)
EXTENDS BundleVault, TLAPS

(* The arguments of each call, and what the caller knew when it made it. *)
CallArguments ==
  \A p \in Process :
    /\ op[p].at \in {"seal", "seal.write"} => op[p].cap \in Capture /\ op[p].gen \in pubKey
    /\ op[p].at \in {"open", "delete"} => op[p].cap \in Capture
    /\ op[p].at \in {"destroy", "destroy.unlink"} => op[p].gen \in Generation
    /\ op[p].at \in {"register", "register.write"} =>
         op[p].gen \in Generation /\ key[op[p].gen] # "none"

(* What a call that holds the lock has established and nobody can undo. *)
Established ==
  \A p \in Process :
    /\ At(p, "seal.write") => op[p].cap \notin exists
    /\ op[p].at \in {"open.key", "open.decrypt"} =>
         IsCommitted(op[p].cap) /\ genOf[op[p].cap] = op[p].gen
    /\ At(p, "open.decrypt") => key[op[p].gen] = "held"
    /\ op[p].at \in {"destroy.unlink", "destroy.remove"} =>
         \A c \in exists : genOf[c] = op[p].gen => key[op[p].gen] # "held"
    /\ At(p, "destroy.remove") => op[p].cap \in exists /\ genOf[op[p].cap] = op[p].gen
    /\ At(p, "delete.remove") => op[p].cap \in exists

(* Every bundle and every public key belongs to a generation created once. *)
GenerationsCreated ==
  /\ \A c \in exists : genOf[c] \in Generation /\ key[genOf[c]] # "none"
  /\ \A g \in pubKey : key[g] # "none"

IInv == TypeOK /\ OneCallInside /\ CallArguments /\ Established /\ GenerationsCreated

-----------------------------------------------------------------------------
(* Calls and how a step changes them *)

(* A step of process p changes the call of p and of nobody else. *)
LEMMA EnterFacts ==
  ASSUME NEW p \in Process, NEW call, op \in [Process -> Calls], Enter(p, call)
  PROVE  /\ op'[p] = call
         /\ \A q \in Process : q # p => op'[q] = op[q]
         /\ call \in Calls => op' \in [Process -> Calls]
BY DEF Enter

(* A process that returns is idle. *)
LEMMA IdleFacts == Idle \in Calls /\ Idle.at = "idle"
BY DEF Idle, Call, Calls

(* A call is well formed when it begins and when it gets the lock. *)
LEMMA CallType ==
  ASSUME NEW where \in Waiting \cup Locked, NEW c \in Capture \cup {NoCapture},
         NEW g \in Generation \cup {NoGeneration}, NEW ms \in SUBSET Member
  PROVE  Call(where, c, g, ms) \in Calls
BY DEF Calls, Call

(* A call that moves on inside the lock stays well formed, *)
LEMMA MoveType ==
  ASSUME NEW call \in Calls, NEW where \in Locked
  PROVE  [call EXCEPT !.at = where] \in Calls
BY DEF Calls

(* also when it has dealt with a member. *)
LEMMA MembersType ==
  ASSUME NEW call \in Calls, NEW ms \in SUBSET Member
  PROVE  [call EXCEPT !.members = ms] \in Calls
BY DEF Calls

(* The fields of a call. *)
LEMMA CallFields ==
  ASSUME NEW call \in Calls
  PROVE  /\ call.cap \in Capture \cup {NoCapture}
         /\ call.gen \in Generation \cup {NoGeneration}
         /\ call.members \subseteq Member
BY DEF Calls

(* What seal_into writes next is a member. *)
LEMMA NextMembersType ==
  ASSUME NEW written
  PROVE  NextMembers(written) \subseteq Member
BY DEF NextMembers, Member

-----------------------------------------------------------------------------
(* Each part of the invariant is preserved *)

(* The calls and the disk keep their types. *)
LEMMA TypeOKStep == IInv /\ [Next]_vars => TypeOK'
<1> SUFFICES ASSUME IInv, [Next]_vars PROVE TypeOK'
  OBVIOUS
<1> USE VaultAssumption, EnterFacts, IdleFacts DEF IInv, TypeOK, disk, At, Return, ReturnAtOnce, Lock
<1>1. ASSUME NEW p \in Process, NEW c \in Capture, NEW g \in Generation, CallSeal(p, c, g)
      PROVE  TypeOK'
  <2>1. Call("seal", c, g, {}) \in Calls
    BY CallType DEF Waiting
  <2> QED
    BY <1>1, <2>1 DEF CallSeal
<1>2. ASSUME NEW p \in Process, NEW c \in Capture, CallOpen(p, c)
      PROVE  TypeOK'
  <2>1. Call("open", c, NoGeneration, {}) \in Calls
    BY CallType DEF Waiting
  <2> QED
    BY <1>2, <2>1 DEF CallOpen
<1>3. ASSUME NEW p \in Process, NEW c \in Capture, CallDelete(p, c)
      PROVE  TypeOK'
  <2>1. Call("delete", c, NoGeneration, {}) \in Calls
    BY CallType DEF Waiting
  <2> QED
    BY <1>3, <2>1 DEF CallDelete
<1>4. ASSUME NEW p \in Process, NEW g \in Generation, CallDestroy(p, g)
      PROVE  TypeOK'
  <2>1. Call("destroy", NoCapture, g, {}) \in Calls
    BY CallType DEF Waiting
  <2> QED
    BY <1>4, <2>1 DEF CallDestroy
<1>5. ASSUME NEW p \in Process, NEW g \in Generation, CallRegister(p, g)
      PROVE  TypeOK'
  <2>1. Call("register", NoCapture, g, {}) \in Calls
    BY CallType DEF Waiting
  <2> QED
    BY <1>5, <2>1 DEF CallRegister
<1>6. ASSUME NEW g \in Generation, CreateGeneration(g)
      PROVE  TypeOK'
  BY <1>6 DEF CreateGeneration
<1>7. ASSUME NEW p \in Process, SealRefused(p)
      PROVE  TypeOK'
  BY <1>7 DEF SealRefused
<1>8. ASSUME NEW p \in Process, SealStart(p)
      PROVE  TypeOK'
  <2>1. [op[p] EXCEPT !.at = "seal.write"] \in Calls
    BY MoveType DEF Locked
  <2> QED
    BY <1>8, <2>1 DEF SealStart
<1>9. ASSUME NEW p \in Process, OpenRefused(p)
      PROVE  TypeOK'
  BY <1>9 DEF OpenRefused
<1>10. ASSUME NEW p \in Process, OpenStart(p)
      PROVE  TypeOK'
  <2>1. Call("open.key", op[p].cap, genOf[op[p].cap], {}) \in Calls
    BY <1>10, CallType DEF OpenStart, CallArguments, Locked
  <2> QED
    BY <1>10, <2>1 DEF OpenStart
<1>11. ASSUME NEW p \in Process, DestroyKey(p)
      PROVE  TypeOK'
  <2>1. [op[p] EXCEPT !.at = "destroy.unlink"] \in Calls
    BY MoveType DEF Locked
  <2> QED
    BY <1>11, <2>1 DEF DestroyKey, KeyDeleted
<1>12. ASSUME NEW p \in Process, DestroyKeyFail(p)
      PROVE  TypeOK'
  BY <1>12 DEF DestroyKeyFail, KeyDeleted
<1>13. ASSUME NEW p \in Process, DeleteAbsent(p)
      PROVE  TypeOK'
  BY <1>13 DEF DeleteAbsent
<1>14. ASSUME NEW p \in Process, DeleteStart(p)
      PROVE  TypeOK'
  <2>1. [op[p] EXCEPT !.at = "delete.remove"] \in Calls
    BY MoveType DEF Locked
  <2> QED
    BY <1>14, <2>1 DEF DeleteStart
<1>15. ASSUME NEW p \in Process, RegisterRefused(p)
      PROVE  TypeOK'
  BY <1>15 DEF RegisterRefused
<1>16. ASSUME NEW p \in Process, RegisterStart(p)
      PROVE  TypeOK'
  <2>1. [op[p] EXCEPT !.at = "register.write"] \in Calls
    BY MoveType DEF Locked
  <2> QED
    BY <1>16, <2>1 DEF RegisterStart, CallArguments
<1>17. ASSUME NEW p \in Process, SealWrite(p)
      PROVE  TypeOK'
  <2>1. \A m \in NextMembers(op[p].members) : op[p].members \cup {m} \in SUBSET Member
    BY CallFields, NextMembersType
  <2>2. \A m \in NextMembers(op[p].members) :
          [op[p] EXCEPT !.members = op[p].members \cup {m}] \in Calls
    BY <2>1, MembersType
  <2> QED
    BY <1>17, <2>2 DEF SealWrite
<1>18. ASSUME NEW p \in Process, SealFail(p)
      PROVE  TypeOK'
  BY <1>18 DEF SealFail
<1>19. ASSUME NEW p \in Process, SealCommit(p)
      PROVE  TypeOK'
  <2>1. op[p].cap \in Capture /\ op[p].gen \in Generation
    BY <1>19 DEF SealCommit, CallArguments
  <2>2. files' \in [Capture -> SUBSET Member]
    BY <1>19, CallFields DEF SealCommit
  <2>3. genOf' \in [Capture -> Generation \cup {NoGeneration}]
    BY <1>19, <2>1 DEF SealCommit
  <2> QED
    BY <1>19, <2>1, <2>2, <2>3 DEF SealCommit
<1>20. ASSUME NEW p \in Process, OpenKey(p)
      PROVE  TypeOK'
  <2>1. Call("open.decrypt", op[p].cap, op[p].gen, Payload) \in Calls
    BY CallType, CallFields DEF Locked, Member
  <2> QED
    BY <1>20, <2>1 DEF OpenKey
<1>21. ASSUME NEW p \in Process, OpenDecrypt(p)
      PROVE  TypeOK'
  <2>1. \A m : op[p].members \ {m} \in SUBSET Member
    BY CallFields
  <2>2. \A m : [op[p] EXCEPT !.members = op[p].members \ {m}] \in Calls
    BY <2>1, MembersType
  <2> QED
    BY <1>21, <2>2 DEF OpenDecrypt
<1>22. ASSUME NEW p \in Process, OpenReturn(p)
      PROVE  TypeOK'
  BY <1>22 DEF OpenReturn
<1>23. ASSUME NEW p \in Process, DestroyPick(p)
      PROVE  TypeOK'
  <2>1. \A c \in Capture : Call("destroy.remove", c, op[p].gen, {}) \in Calls
    BY CallType, CallFields DEF Locked
  <2> QED
    BY <1>23, <2>1 DEF DestroyPick, Doomed, CommittedBundles
<1>24. ASSUME NEW p \in Process, DestroyDone(p)
      PROVE  TypeOK'
  BY <1>24 DEF DestroyDone
<1>25. ASSUME NEW p \in Process, RemoveMember(p)
      PROVE  TypeOK'
  BY <1>25 DEF RemoveMember
<1>26. ASSUME NEW p \in Process, RemoveDir(p)
      PROVE  TypeOK'
  <2>1. Call("destroy.unlink", NoCapture, op[p].gen, {}) \in Calls
    BY CallType, CallFields DEF Locked
  <2> QED
    BY <1>26, <2>1 DEF RemoveDir, Removing, Established
<1>27. ASSUME NEW p \in Process, RemoveFail(p)
      PROVE  TypeOK'
  BY <1>27 DEF RemoveFail
<1>28. ASSUME NEW p \in Process, RegisterCommit(p)
      PROVE  TypeOK'
  BY <1>28 DEF RegisterCommit, CallArguments
<1>29. ASSUME NEW p \in Process, RegisterFail(p)
      PROVE  TypeOK'
  BY <1>29 DEF RegisterFail
<1>30. ASSUME NEW p \in Process, Crash(p)
      PROVE  TypeOK'
  BY <1>30 DEF Crash
<1>31. CASE UNCHANGED vars
  BY <1>31 DEF vars
<1> HIDE DEF TypeOK
<1> QED
  BY <1>1, <1>2, <1>3, <1>4, <1>5, <1>6, <1>7, <1>8, <1>9, <1>10, <1>11,
     <1>12, <1>13, <1>14, <1>15, <1>16, <1>17, <1>18, <1>19, <1>20, <1>21,
     <1>22, <1>23, <1>24, <1>25, <1>26, <1>27, <1>28, <1>29, <1>30, <1>31
  DEF Next, FirstStep, LockedStep, Process

(* A call enters only while nobody is inside, and leaves the lock free. *)
LEMMA OneCallInsideStep == IInv /\ [Next]_vars => OneCallInside'
<1> SUFFICES ASSUME IInv, [Next]_vars PROVE OneCallInside'
  OBVIOUS
<1> USE VaultAssumption, EnterFacts, IdleFacts
    DEF IInv, TypeOK, disk, At, Return, ReturnAtOnce, Lock, Call, Calls,
        OneCallInside, Locked
<1>1. ASSUME NEW p \in Process, NEW c \in Capture, NEW g \in Generation, CallSeal(p, c, g)
      PROVE  OneCallInside'
  BY <1>1 DEF CallSeal
<1>2. ASSUME NEW p \in Process, NEW c \in Capture, CallOpen(p, c)
      PROVE  OneCallInside'
  BY <1>2 DEF CallOpen
<1>3. ASSUME NEW p \in Process, NEW c \in Capture, CallDelete(p, c)
      PROVE  OneCallInside'
  BY <1>3 DEF CallDelete
<1>4. ASSUME NEW p \in Process, NEW g \in Generation, CallDestroy(p, g)
      PROVE  OneCallInside'
  BY <1>4 DEF CallDestroy
<1>5. ASSUME NEW p \in Process, NEW g \in Generation, CallRegister(p, g)
      PROVE  OneCallInside'
  BY <1>5 DEF CallRegister
<1>6. ASSUME NEW g \in Generation, CreateGeneration(g)
      PROVE  OneCallInside'
  BY <1>6 DEF CreateGeneration
<1>7. ASSUME NEW p \in Process, SealRefused(p)
      PROVE  OneCallInside'
  BY <1>7 DEF SealRefused
<1>8. ASSUME NEW p \in Process, SealStart(p)
      PROVE  OneCallInside'
  BY <1>8 DEF SealStart
<1>9. ASSUME NEW p \in Process, OpenRefused(p)
      PROVE  OneCallInside'
  BY <1>9 DEF OpenRefused
<1>10. ASSUME NEW p \in Process, OpenStart(p)
      PROVE  OneCallInside'
  BY <1>10 DEF OpenStart
<1>11. ASSUME NEW p \in Process, DestroyKey(p)
      PROVE  OneCallInside'
  BY <1>11 DEF DestroyKey, KeyDeleted
<1>12. ASSUME NEW p \in Process, DestroyKeyFail(p)
      PROVE  OneCallInside'
  BY <1>12 DEF DestroyKeyFail, KeyDeleted
<1>13. ASSUME NEW p \in Process, DeleteAbsent(p)
      PROVE  OneCallInside'
  BY <1>13 DEF DeleteAbsent
<1>14. ASSUME NEW p \in Process, DeleteStart(p)
      PROVE  OneCallInside'
  BY <1>14 DEF DeleteStart
<1>15. ASSUME NEW p \in Process, RegisterRefused(p)
      PROVE  OneCallInside'
  BY <1>15 DEF RegisterRefused
<1>16. ASSUME NEW p \in Process, RegisterStart(p)
      PROVE  OneCallInside'
  BY <1>16 DEF RegisterStart
<1>17. ASSUME NEW p \in Process, SealWrite(p)
      PROVE  OneCallInside'
  BY <1>17 DEF SealWrite
<1>18. ASSUME NEW p \in Process, SealFail(p)
      PROVE  OneCallInside'
  BY <1>18 DEF SealFail
<1>19. ASSUME NEW p \in Process, SealCommit(p)
      PROVE  OneCallInside'
  BY <1>19 DEF SealCommit
<1>20. ASSUME NEW p \in Process, OpenKey(p)
      PROVE  OneCallInside'
  BY <1>20 DEF OpenKey
<1>21. ASSUME NEW p \in Process, OpenDecrypt(p)
      PROVE  OneCallInside'
  BY <1>21 DEF OpenDecrypt
<1>22. ASSUME NEW p \in Process, OpenReturn(p)
      PROVE  OneCallInside'
  BY <1>22 DEF OpenReturn
<1>23. ASSUME NEW p \in Process, DestroyPick(p)
      PROVE  OneCallInside'
  BY <1>23 DEF DestroyPick, Doomed, CommittedBundles
<1>24. ASSUME NEW p \in Process, DestroyDone(p)
      PROVE  OneCallInside'
  BY <1>24 DEF DestroyDone
<1>25. ASSUME NEW p \in Process, RemoveMember(p)
      PROVE  OneCallInside'
  BY <1>25 DEF RemoveMember, Removing
<1>26. ASSUME NEW p \in Process, RemoveDir(p)
      PROVE  OneCallInside'
  BY <1>26 DEF RemoveDir, Removing
<1>27. ASSUME NEW p \in Process, RemoveFail(p)
      PROVE  OneCallInside'
  BY <1>27 DEF RemoveFail, Removing
<1>28. ASSUME NEW p \in Process, RegisterCommit(p)
      PROVE  OneCallInside'
  BY <1>28 DEF RegisterCommit
<1>29. ASSUME NEW p \in Process, RegisterFail(p)
      PROVE  OneCallInside'
  BY <1>29 DEF RegisterFail
<1>30. ASSUME NEW p \in Process, Crash(p)
      PROVE  OneCallInside'
  BY <1>30 DEF Crash
<1>31. CASE UNCHANGED vars
  BY <1>31 DEF vars
<1> HIDE DEF OneCallInside, Locked
<1> QED
  BY <1>1, <1>2, <1>3, <1>4, <1>5, <1>6, <1>7, <1>8, <1>9, <1>10, <1>11,
     <1>12, <1>13, <1>14, <1>15, <1>16, <1>17, <1>18, <1>19, <1>20, <1>21,
     <1>22, <1>23, <1>24, <1>25, <1>26, <1>27, <1>28, <1>29, <1>30, <1>31
  DEF Next, FirstStep, LockedStep, Process

(* A public key, once registered, stays registered, and so does a created *)
(* generation: the arguments of a call remain valid while it waits.        *)
LEMMA CallArgumentsStep == IInv /\ [Next]_vars => CallArguments'
<1> SUFFICES ASSUME IInv, [Next]_vars PROVE CallArguments'
  OBVIOUS
<1> USE VaultAssumption, EnterFacts, IdleFacts
    DEF IInv, TypeOK, disk, At, Return, ReturnAtOnce, Lock, Call, Calls,
        CallArguments
<1>1. ASSUME NEW p \in Process, NEW c \in Capture, NEW g \in Generation, CallSeal(p, c, g)
      PROVE  CallArguments'
  BY <1>1 DEF CallSeal
<1>2. ASSUME NEW p \in Process, NEW c \in Capture, CallOpen(p, c)
      PROVE  CallArguments'
  BY <1>2 DEF CallOpen
<1>3. ASSUME NEW p \in Process, NEW c \in Capture, CallDelete(p, c)
      PROVE  CallArguments'
  BY <1>3 DEF CallDelete
<1>4. ASSUME NEW p \in Process, NEW g \in Generation, CallDestroy(p, g)
      PROVE  CallArguments'
  BY <1>4 DEF CallDestroy
<1>5. ASSUME NEW p \in Process, NEW g \in Generation, CallRegister(p, g)
      PROVE  CallArguments'
  BY <1>5 DEF CallRegister
<1>6. ASSUME NEW g \in Generation, CreateGeneration(g)
      PROVE  CallArguments'
  BY <1>6 DEF CreateGeneration
<1>7. ASSUME NEW p \in Process, SealRefused(p)
      PROVE  CallArguments'
  BY <1>7 DEF SealRefused
<1>8. ASSUME NEW p \in Process, SealStart(p)
      PROVE  CallArguments'
  BY <1>8 DEF SealStart
<1>9. ASSUME NEW p \in Process, OpenRefused(p)
      PROVE  CallArguments'
  BY <1>9 DEF OpenRefused
<1>10. ASSUME NEW p \in Process, OpenStart(p)
      PROVE  CallArguments'
  BY <1>10 DEF OpenStart
<1>11. ASSUME NEW p \in Process, DestroyKey(p)
      PROVE  CallArguments'
  BY <1>11 DEF DestroyKey, KeyDeleted
<1>12. ASSUME NEW p \in Process, DestroyKeyFail(p)
      PROVE  CallArguments'
  BY <1>12 DEF DestroyKeyFail, KeyDeleted
<1>13. ASSUME NEW p \in Process, DeleteAbsent(p)
      PROVE  CallArguments'
  BY <1>13 DEF DeleteAbsent
<1>14. ASSUME NEW p \in Process, DeleteStart(p)
      PROVE  CallArguments'
  BY <1>14 DEF DeleteStart
<1>15. ASSUME NEW p \in Process, RegisterRefused(p)
      PROVE  CallArguments'
  BY <1>15 DEF RegisterRefused
<1>16. ASSUME NEW p \in Process, RegisterStart(p)
      PROVE  CallArguments'
  BY <1>16 DEF RegisterStart
<1>17. ASSUME NEW p \in Process, SealWrite(p)
      PROVE  CallArguments'
  BY <1>17 DEF SealWrite
<1>18. ASSUME NEW p \in Process, SealFail(p)
      PROVE  CallArguments'
  BY <1>18 DEF SealFail
<1>19. ASSUME NEW p \in Process, SealCommit(p)
      PROVE  CallArguments'
  BY <1>19 DEF SealCommit
<1>20. ASSUME NEW p \in Process, OpenKey(p)
      PROVE  CallArguments'
  BY <1>20 DEF OpenKey
<1>21. ASSUME NEW p \in Process, OpenDecrypt(p)
      PROVE  CallArguments'
  BY <1>21 DEF OpenDecrypt
<1>22. ASSUME NEW p \in Process, OpenReturn(p)
      PROVE  CallArguments'
  BY <1>22 DEF OpenReturn
<1>23. ASSUME NEW p \in Process, DestroyPick(p)
      PROVE  CallArguments'
  BY <1>23 DEF DestroyPick, Doomed, CommittedBundles
<1>24. ASSUME NEW p \in Process, DestroyDone(p)
      PROVE  CallArguments'
  BY <1>24 DEF DestroyDone
<1>25. ASSUME NEW p \in Process, RemoveMember(p)
      PROVE  CallArguments'
  BY <1>25 DEF RemoveMember, Removing
<1>26. ASSUME NEW p \in Process, RemoveDir(p)
      PROVE  CallArguments'
  <2>1. CASE At(p, "destroy.remove")
    <3>1. op[p].gen \in Generation
      BY <2>1 DEF Established, GenerationsCreated
    <3> QED
      BY <1>26, <2>1, <3>1 DEF RemoveDir
  <2>2. CASE At(p, "delete.remove")
    BY <1>26, <2>2 DEF RemoveDir
  <2> QED
    BY <1>26, <2>1, <2>2 DEF RemoveDir, Removing
<1>27. ASSUME NEW p \in Process, RemoveFail(p)
      PROVE  CallArguments'
  BY <1>27 DEF RemoveFail, Removing
<1>28. ASSUME NEW p \in Process, RegisterCommit(p)
      PROVE  CallArguments'
  BY <1>28 DEF RegisterCommit
<1>29. ASSUME NEW p \in Process, RegisterFail(p)
      PROVE  CallArguments'
  BY <1>29 DEF RegisterFail
<1>30. ASSUME NEW p \in Process, Crash(p)
      PROVE  CallArguments'
  BY <1>30 DEF Crash
<1>31. CASE UNCHANGED vars
  BY <1>31 DEF vars
<1> HIDE DEF CallArguments
<1> QED
  BY <1>1, <1>2, <1>3, <1>4, <1>5, <1>6, <1>7, <1>8, <1>9, <1>10, <1>11,
     <1>12, <1>13, <1>14, <1>15, <1>16, <1>17, <1>18, <1>19, <1>20, <1>21,
     <1>22, <1>23, <1>24, <1>25, <1>26, <1>27, <1>28, <1>29, <1>30, <1>31
  DEF Next, FirstStep, LockedStep, Process

(* Only the holder of the lock changes a bundle or a key that is in use. *)
LEMMA EstablishedStep == IInv /\ [Next]_vars => Established'
<1> SUFFICES ASSUME IInv, [Next]_vars PROVE Established'
  OBVIOUS
<1> USE VaultAssumption, EnterFacts, IdleFacts
    DEF IInv, TypeOK, disk, At, Return, ReturnAtOnce, Lock, Call, Calls,
        Established, OneCallInside, Locked, CallArguments
<1>1. ASSUME NEW p \in Process, NEW c \in Capture, NEW g \in Generation, CallSeal(p, c, g)
      PROVE  Established'
  BY <1>1 DEF CallSeal, IsCommitted
<1>2. ASSUME NEW p \in Process, NEW c \in Capture, CallOpen(p, c)
      PROVE  Established'
  BY <1>2 DEF CallOpen, IsCommitted
<1>3. ASSUME NEW p \in Process, NEW c \in Capture, CallDelete(p, c)
      PROVE  Established'
  BY <1>3 DEF CallDelete, IsCommitted
<1>4. ASSUME NEW p \in Process, NEW g \in Generation, CallDestroy(p, g)
      PROVE  Established'
  BY <1>4 DEF CallDestroy, IsCommitted
<1>5. ASSUME NEW p \in Process, NEW g \in Generation, CallRegister(p, g)
      PROVE  Established'
  BY <1>5 DEF CallRegister, IsCommitted
<1>6. ASSUME NEW g \in Generation, CreateGeneration(g)
      PROVE  Established'
  <2>1. \A h \in Generation : key[h] # "none" => key'[h] = key[h]
    BY <1>6 DEF CreateGeneration
  <2>2. \A c \in exists : key'[genOf[c]] = key[genOf[c]]
    BY <2>1 DEF GenerationsCreated
  <2>3. \A q \in Process : IsCommitted(op[q].cap) => IsCommitted(op[q].cap)'
    BY <1>6 DEF CreateGeneration, IsCommitted
  <2>4. \A q \in Process : At(q, "open.decrypt") => key'[op[q].gen] = key[op[q].gen]
    BY <2>2 DEF IsCommitted
  <2> QED
    BY <1>6, <2>2, <2>3, <2>4 DEF CreateGeneration
<1>7. ASSUME NEW p \in Process, SealRefused(p)
      PROVE  Established'
  BY <1>7 DEF SealRefused, IsCommitted
<1>8. ASSUME NEW p \in Process, SealStart(p)
      PROVE  Established'
  BY <1>8 DEF SealStart, IsCommitted
<1>9. ASSUME NEW p \in Process, OpenRefused(p)
      PROVE  Established'
  BY <1>9 DEF OpenRefused, IsCommitted
<1>10. ASSUME NEW p \in Process, OpenStart(p)
      PROVE  Established'
  BY <1>10 DEF OpenStart, IsCommitted
<1>11. ASSUME NEW p \in Process, DestroyKey(p)
      PROVE  Established'
  BY <1>11 DEF DestroyKey, KeyDeleted, IsCommitted
<1>12. ASSUME NEW p \in Process, DestroyKeyFail(p)
      PROVE  Established'
  BY <1>12 DEF DestroyKeyFail, KeyDeleted, IsCommitted
<1>13. ASSUME NEW p \in Process, DeleteAbsent(p)
      PROVE  Established'
  BY <1>13 DEF DeleteAbsent, IsCommitted
<1>14. ASSUME NEW p \in Process, DeleteStart(p)
      PROVE  Established'
  BY <1>14 DEF DeleteStart, IsCommitted
<1>15. ASSUME NEW p \in Process, RegisterRefused(p)
      PROVE  Established'
  BY <1>15 DEF RegisterRefused, IsCommitted
<1>16. ASSUME NEW p \in Process, RegisterStart(p)
      PROVE  Established'
  BY <1>16 DEF RegisterStart, IsCommitted
<1>17. ASSUME NEW p \in Process, SealWrite(p)
      PROVE  Established'
  BY <1>17 DEF SealWrite, IsCommitted
<1>18. ASSUME NEW p \in Process, SealFail(p)
      PROVE  Established'
  BY <1>18 DEF SealFail, IsCommitted
<1>19. ASSUME NEW p \in Process, SealCommit(p)
      PROVE  Established'
  BY <1>19 DEF SealCommit, IsCommitted
<1>20. ASSUME NEW p \in Process, OpenKey(p)
      PROVE  Established'
  BY <1>20 DEF OpenKey, IsCommitted
<1>21. ASSUME NEW p \in Process, OpenDecrypt(p)
      PROVE  Established'
  BY <1>21 DEF OpenDecrypt, IsCommitted
<1>22. ASSUME NEW p \in Process, OpenReturn(p)
      PROVE  Established'
  BY <1>22 DEF OpenReturn, IsCommitted
<1>23. ASSUME NEW p \in Process, DestroyPick(p)
      PROVE  Established'
  BY <1>23 DEF DestroyPick, Doomed, CommittedBundles, IsCommitted
<1>24. ASSUME NEW p \in Process, DestroyDone(p)
      PROVE  Established'
  BY <1>24 DEF DestroyDone, IsCommitted
<1>25. ASSUME NEW p \in Process, RemoveMember(p)
      PROVE  Established'
  BY <1>25 DEF RemoveMember, Removing, IsCommitted
<1>26. ASSUME NEW p \in Process, RemoveDir(p)
      PROVE  Established'
  BY <1>26 DEF RemoveDir, Removing, IsCommitted
<1>27. ASSUME NEW p \in Process, RemoveFail(p)
      PROVE  Established'
  BY <1>27 DEF RemoveFail, Removing, IsCommitted
<1>28. ASSUME NEW p \in Process, RegisterCommit(p)
      PROVE  Established'
  BY <1>28 DEF RegisterCommit, IsCommitted
<1>29. ASSUME NEW p \in Process, RegisterFail(p)
      PROVE  Established'
  BY <1>29 DEF RegisterFail, IsCommitted
<1>30. ASSUME NEW p \in Process, Crash(p)
      PROVE  Established'
  BY <1>30 DEF Crash, IsCommitted
<1>31. CASE UNCHANGED vars
  BY <1>31 DEF vars, IsCommitted
<1> HIDE DEF Established, OneCallInside, Locked, CallArguments
<1> QED
  BY <1>1, <1>2, <1>3, <1>4, <1>5, <1>6, <1>7, <1>8, <1>9, <1>10, <1>11,
     <1>12, <1>13, <1>14, <1>15, <1>16, <1>17, <1>18, <1>19, <1>20, <1>21,
     <1>22, <1>23, <1>24, <1>25, <1>26, <1>27, <1>28, <1>29, <1>30, <1>31
  DEF Next, FirstStep, LockedStep, Process

(* A bundle is sealed, and a public key registered, for created generations. *)
LEMMA GenerationsCreatedStep == IInv /\ [Next]_vars => GenerationsCreated'
<1> SUFFICES ASSUME IInv, [Next]_vars PROVE GenerationsCreated'
  OBVIOUS
<1> USE VaultAssumption, EnterFacts, IdleFacts
    DEF IInv, TypeOK, disk, At, Return, ReturnAtOnce, Lock, Call, Calls,
        GenerationsCreated, CallArguments, Established
<1>1. ASSUME NEW p \in Process, NEW c \in Capture, NEW g \in Generation, CallSeal(p, c, g)
      PROVE  GenerationsCreated'
  BY <1>1 DEF CallSeal
<1>2. ASSUME NEW p \in Process, NEW c \in Capture, CallOpen(p, c)
      PROVE  GenerationsCreated'
  BY <1>2 DEF CallOpen
<1>3. ASSUME NEW p \in Process, NEW c \in Capture, CallDelete(p, c)
      PROVE  GenerationsCreated'
  BY <1>3 DEF CallDelete
<1>4. ASSUME NEW p \in Process, NEW g \in Generation, CallDestroy(p, g)
      PROVE  GenerationsCreated'
  BY <1>4 DEF CallDestroy
<1>5. ASSUME NEW p \in Process, NEW g \in Generation, CallRegister(p, g)
      PROVE  GenerationsCreated'
  BY <1>5 DEF CallRegister
<1>6. ASSUME NEW g \in Generation, CreateGeneration(g)
      PROVE  GenerationsCreated'
  BY <1>6 DEF CreateGeneration
<1>7. ASSUME NEW p \in Process, SealRefused(p)
      PROVE  GenerationsCreated'
  BY <1>7 DEF SealRefused
<1>8. ASSUME NEW p \in Process, SealStart(p)
      PROVE  GenerationsCreated'
  BY <1>8 DEF SealStart
<1>9. ASSUME NEW p \in Process, OpenRefused(p)
      PROVE  GenerationsCreated'
  BY <1>9 DEF OpenRefused
<1>10. ASSUME NEW p \in Process, OpenStart(p)
      PROVE  GenerationsCreated'
  BY <1>10 DEF OpenStart
<1>11. ASSUME NEW p \in Process, DestroyKey(p)
      PROVE  GenerationsCreated'
  BY <1>11 DEF DestroyKey, KeyDeleted
<1>12. ASSUME NEW p \in Process, DestroyKeyFail(p)
      PROVE  GenerationsCreated'
  BY <1>12 DEF DestroyKeyFail, KeyDeleted
<1>13. ASSUME NEW p \in Process, DeleteAbsent(p)
      PROVE  GenerationsCreated'
  BY <1>13 DEF DeleteAbsent
<1>14. ASSUME NEW p \in Process, DeleteStart(p)
      PROVE  GenerationsCreated'
  BY <1>14 DEF DeleteStart
<1>15. ASSUME NEW p \in Process, RegisterRefused(p)
      PROVE  GenerationsCreated'
  BY <1>15 DEF RegisterRefused
<1>16. ASSUME NEW p \in Process, RegisterStart(p)
      PROVE  GenerationsCreated'
  BY <1>16 DEF RegisterStart
<1>17. ASSUME NEW p \in Process, SealWrite(p)
      PROVE  GenerationsCreated'
  BY <1>17 DEF SealWrite
<1>18. ASSUME NEW p \in Process, SealFail(p)
      PROVE  GenerationsCreated'
  BY <1>18 DEF SealFail
<1>19. ASSUME NEW p \in Process, SealCommit(p)
      PROVE  GenerationsCreated'
  BY <1>19 DEF SealCommit
<1>20. ASSUME NEW p \in Process, OpenKey(p)
      PROVE  GenerationsCreated'
  BY <1>20 DEF OpenKey
<1>21. ASSUME NEW p \in Process, OpenDecrypt(p)
      PROVE  GenerationsCreated'
  BY <1>21 DEF OpenDecrypt
<1>22. ASSUME NEW p \in Process, OpenReturn(p)
      PROVE  GenerationsCreated'
  BY <1>22 DEF OpenReturn
<1>23. ASSUME NEW p \in Process, DestroyPick(p)
      PROVE  GenerationsCreated'
  BY <1>23 DEF DestroyPick, Doomed, CommittedBundles
<1>24. ASSUME NEW p \in Process, DestroyDone(p)
      PROVE  GenerationsCreated'
  BY <1>24 DEF DestroyDone
<1>25. ASSUME NEW p \in Process, RemoveMember(p)
      PROVE  GenerationsCreated'
  BY <1>25 DEF RemoveMember, Removing
<1>26. ASSUME NEW p \in Process, RemoveDir(p)
      PROVE  GenerationsCreated'
  BY <1>26 DEF RemoveDir, Removing
<1>27. ASSUME NEW p \in Process, RemoveFail(p)
      PROVE  GenerationsCreated'
  BY <1>27 DEF RemoveFail, Removing
<1>28. ASSUME NEW p \in Process, RegisterCommit(p)
      PROVE  GenerationsCreated'
  BY <1>28 DEF RegisterCommit
<1>29. ASSUME NEW p \in Process, RegisterFail(p)
      PROVE  GenerationsCreated'
  BY <1>29 DEF RegisterFail
<1>30. ASSUME NEW p \in Process, Crash(p)
      PROVE  GenerationsCreated'
  BY <1>30 DEF Crash
<1>31. CASE UNCHANGED vars
  BY <1>31 DEF vars
<1> HIDE DEF GenerationsCreated, CallArguments, Established
<1> QED
  BY <1>1, <1>2, <1>3, <1>4, <1>5, <1>6, <1>7, <1>8, <1>9, <1>10, <1>11,
     <1>12, <1>13, <1>14, <1>15, <1>16, <1>17, <1>18, <1>19, <1>20, <1>21,
     <1>22, <1>23, <1>24, <1>25, <1>26, <1>27, <1>28, <1>29, <1>30, <1>31
  DEF Next, FirstStep, LockedStep, Process

-----------------------------------------------------------------------------
(* The theorems *)

(* An empty vault with idle processes satisfies the invariant, *)
LEMMA IInvInit == Init => IInv
<1> SUFFICES ASSUME Init PROVE IInv
  OBVIOUS
<1>1. \A p \in Process : op[p] = Idle
  BY DEF Init
<1>2. TypeOK
  BY IdleFacts DEF Init, TypeOK
<1> QED
  BY <1>1, <1>2, IdleFacts, VaultAssumption
  DEF Init, IInv, OneCallInside, Locked, CallArguments, Established, At, GenerationsCreated

(* every step preserves it, *)
LEMMA IInvStep == IInv /\ [Next]_vars => IInv'
BY TypeOKStep, OneCallInsideStep, CallArgumentsStep, EstablishedStep, GenerationsCreatedStep
   DEF IInv

(* and so it always holds. *)
THEOREM Invariance == Spec => []IInv
BY IInvInit, IInvStep, PTL DEF Spec

(* The state of the vault keeps its type, with any number of processes,     *)
(* captures and generations.                                               *)
THEOREM TypeCorrect == Spec => []TypeOK
<1>1. IInv => TypeOK
  BY DEF IInv
<1> QED
  BY <1>1, Invariance, PTL

(* At every moment at most one call works inside the vault directory, and  *)
(* no return path, error or crash leaves .vault.lock behind.               *)
THEOREM MutualExclusion == Spec => []OneCallInside
<1>1. IInv => OneCallInside
  BY DEF IInv
<1> QED
  BY <1>1, Invariance, PTL

(* A bundle stays whole, and under the key that was fetched, for as long   *)
(* as open decrypts it.                                                    *)
THEOREM OpenSafety == Spec => []OpenIsNeverTorn
<1>1. IInv => OpenIsNeverTorn
  BY DEF IInv, Established, OpenIsNeverTorn, At
<1> QED
  BY <1>1, Invariance, PTL

(* destroy_generation unlinks a bundle only when its key is gone. *)
THEOREM ErasureOrder == Spec => []KeyGoneBeforeUnlink
<1>1. IInv => KeyGoneBeforeUnlink
  BY DEF IInv, Established, KeyGoneBeforeUnlink
<1> QED
  BY <1>1, Invariance, PTL

-----------------------------------------------------------------------------
(* What a step may do to the bundles *)

(* Only four operations touch a bundle or a key that exists. *)
LEMMA DiskSteps ==
  ASSUME IInv, [Next]_vars
  PROVE  \/ UNCHANGED <<exists, files, genOf, key>>
         \/ \E p \in Process : SealCommit(p) \/ RemoveMember(p) \/ RemoveDir(p)
                               \/ DestroyKey(p) \/ DestroyKeyFail(p)
         \/ \E g \in Generation : CreateGeneration(g)
<1> USE DEF disk, ReturnAtOnce
<1>1. CASE UNCHANGED vars
  BY <1>1 DEF vars
<1>2. ASSUME NEW p \in Process, LockedStep(p) \/ FirstStep(p),
             ~(SealCommit(p) \/ RemoveMember(p) \/ RemoveDir(p)
               \/ DestroyKey(p) \/ DestroyKeyFail(p))
      PROVE  UNCHANGED <<exists, files, genOf, key>>
  BY <1>2 DEF LockedStep, FirstStep, SealWrite, SealFail, OpenKey, OpenDecrypt, OpenReturn,
       DestroyPick, DestroyDone, RemoveFail, RegisterCommit, RegisterFail, SealRefused,
       SealStart, OpenRefused, OpenStart, DeleteAbsent, DeleteStart, RegisterRefused,
       RegisterStart
<1>3. ASSUME NEW p \in Process, Crash(p)
      PROVE  UNCHANGED <<exists, files, genOf, key>>
  BY <1>3 DEF Crash
<1>4. ASSUME NEW p \in Process, NEW c \in Capture, NEW g \in Generation,
             CallSeal(p, c, g) \/ CallOpen(p, c) \/ CallDelete(p, c)
               \/ CallDestroy(p, g) \/ CallRegister(p, g)
      PROVE  UNCHANGED <<exists, files, genOf, key>>
  BY <1>4 DEF CallSeal, CallOpen, CallDelete, CallDestroy, CallRegister
<1>5. ASSUME NEW p \in App, NEW c \in Capture, CallOpen(p, c) \/ CallDelete(p, c)
      PROVE  UNCHANGED <<exists, files, genOf, key>>
  BY <1>5 DEF CallOpen, CallDelete
<1>6. ASSUME NEW p \in App, NEW g \in Generation, CallDestroy(p, g) \/ CallRegister(p, g)
      PROVE  UNCHANGED <<exists, files, genOf, key>>
  BY <1>6 DEF CallDestroy, CallRegister
<1> QED
  BY <1>1, <1>2, <1>3, <1>4, <1>5, <1>6 DEF Next, Process

(* The rename moves a complete set of members into place. *)
LEMMA SealedWhole ==
  ASSUME IInv, NEW p \in Process, SealCommit(p)
  PROVE  /\ op[p].cap \in Capture \ exists
         /\ op[p].gen \in Generation
         /\ op[p].members = Member
         /\ exists' = exists \cup {op[p].cap}
         /\ files'[op[p].cap] = Member
         /\ genOf'[op[p].cap] = op[p].gen
         /\ \A c \in exists : files'[c] = files[c] /\ genOf'[c] = genOf[c]
<1>1. op[p].cap \in Capture \ exists /\ op[p].gen \in Generation
  BY DEF SealCommit, IInv, TypeOK, CallArguments, Established, At
<1>2. op[p].members = Member
  <2>1. op[p].members \subseteq Member
    BY CallFields DEF IInv, TypeOK
  <2>2. Member \subseteq op[p].members
    BY DEF SealCommit, NextMembers, Member
  <2> QED
    BY <2>1, <2>2
<1> QED
  BY <1>1, <1>2 DEF SealCommit, IInv, TypeOK

(* A bundle appears with all its members, and later only loses some. *)
LEMMA CommitStep ==
  ASSUME IInv, [Next]_vars, NEW c \in Capture
  PROVE  /\ c \in exists' \ exists => files'[c] = Member
         /\ c \in exists' \cap exists => files'[c] \subseteq files[c] /\ genOf'[c] = genOf[c]
<1>1. CASE UNCHANGED <<exists, files, genOf, key>>
  BY <1>1
<1>2. ASSUME NEW p \in Process, SealCommit(p)
      PROVE  /\ c \in exists' \ exists => files'[c] = Member
             /\ c \in exists' \cap exists => files'[c] \subseteq files[c] /\ genOf'[c] = genOf[c]
  BY <1>2, SealedWhole
<1>3. ASSUME NEW p \in Process, RemoveMember(p) \/ RemoveDir(p)
      PROVE  /\ c \in exists' \ exists => files'[c] = Member
             /\ c \in exists' \cap exists => files'[c] \subseteq files[c] /\ genOf'[c] = genOf[c]
  BY <1>3 DEF RemoveMember, RemoveDir, IInv, TypeOK
<1>4. ASSUME NEW p \in Process, DestroyKey(p) \/ DestroyKeyFail(p)
      PROVE  UNCHANGED <<exists, files, genOf>>
  BY <1>4 DEF DestroyKey, DestroyKeyFail
<1>5. ASSUME NEW g \in Generation, CreateGeneration(g)
      PROVE  UNCHANGED <<exists, files, genOf>>
  BY <1>5 DEF CreateGeneration
<1> QED
  BY <1>1, <1>2, <1>3, <1>4, <1>5, DiskSteps

(* Whatever fails or dies in the middle of seal or remove_dir_all, a bundle *)
(* becomes visible with all its members and never gains or swaps one.      *)
THEOREM AtomicCommit == Spec => CommittedAtomically
<1>1. IInv /\ [Next]_vars =>
        [ \A c \in Capture :
            /\ c \in exists' \ exists => files'[c] = Member
            /\ c \in exists' \cap exists =>
                 files'[c] \subseteq files[c] /\ genOf'[c] = genOf[c] ]_vars
  BY CommitStep
<1> QED
  BY <1>1, Invariance, PTL DEF Spec, CommittedAtomically

-----------------------------------------------------------------------------
(* The vault implements cryptographic erasure *)

(* The bundles a caller can open. *)
LEMMA ReadableFacts ==
  \A c, g : <<c, g>> \in Readable <=>
              c \in Capture /\ IsCommitted(c) /\ genOf[c] = g /\ key[g] = "held"
BY DEF Readable, CommittedBundles

(* The generations erased, as the abstract vault sees them. *)
Erased == {g \in Generation : key[g] = "gone"}

(* Sealing is one abstract step, or none if the key was destroyed already. *)
LEMMA SealImplements ==
  ASSUME IInv, NEW p \in Process, SealCommit(p)
  PROVE  \/ Abstract!Seal(op[p].cap, op[p].gen)
         \/ UNCHANGED <<Readable, Erased>>
<1>1. key' = key /\ Erased' = Erased
  BY DEF SealCommit, Erased
<1>2. \A c \in Capture : IsCommitted(c)' <=> IsCommitted(c) \/ c = op[p].cap
  BY SealedWhole DEF IsCommitted
<1>3. \A g \in Generation : <<op[p].cap, g>> \notin Readable
  BY SealedWhole, ReadableFacts DEF IsCommitted
<1>4. CASE key[op[p].gen] = "held"
  <2>1. Readable' = Readable \cup {<<op[p].cap, op[p].gen>>}
    BY <1>1, <1>2, <1>4, SealedWhole DEF Readable, CommittedBundles, IsCommitted
  <2>2. op[p].gen \notin Erased
    BY <1>4 DEF Erased
  <2> QED
    BY <1>1, <1>3, <2>1, <2>2 DEF Abstract!Seal, Erased
<1>5. CASE key[op[p].gen] # "held"
  <2>1. Readable' = Readable
    BY <1>1, <1>2, <1>5, SealedWhole DEF Readable, CommittedBundles, IsCommitted
  <2> QED
    BY <1>1, <2>1
<1> QED
  BY <1>4, <1>5

(* The private key goes at one instant, and with it every bundle. *)
LEMMA DestroyImplements ==
  ASSUME IInv, NEW p \in Process, DestroyKey(p) \/ DestroyKeyFail(p)
  PROVE  \/ \E g \in Generation : Abstract!DestroyGeneration(g)
         \/ UNCHANGED <<Readable, Erased>>
<1>1. op[p].gen \in Generation /\ UNCHANGED <<exists, files, genOf>>
  BY DEF DestroyKey, DestroyKeyFail, IInv, CallArguments, At
<1>2. key' = key \/ key' = KeyDeleted(op[p].gen)
  BY DEF DestroyKey, DestroyKeyFail
<1>3. CASE key' = key
  BY <1>1, <1>3 DEF Readable, CommittedBundles, IsCommitted, Erased
<1>4. CASE key' = KeyDeleted(op[p].gen) /\ key[op[p].gen] # "held"
  <2>1. key' = key
    BY <1>4 DEF KeyDeleted, IInv, TypeOK
  <2> QED
    BY <1>3, <2>1
<1>5. CASE key' = KeyDeleted(op[p].gen) /\ key[op[p].gen] = "held"
  <2>1. /\ key'[op[p].gen] = "gone"
        /\ \A h \in Generation : h # op[p].gen => key'[h] = key[h]
    BY <1>1, <1>5 DEF KeyDeleted, IInv, TypeOK
  <2>2. Erased' = Erased \cup {op[p].gen} /\ op[p].gen \notin Erased
    BY <1>1, <1>5, <2>1 DEF Erased
  <2>3. Readable' = {b \in Readable : b[2] # op[p].gen}
    BY <1>1, <2>1 DEF Readable, CommittedBundles, IsCommitted, IInv, GenerationsCreated
  <2> QED
    BY <1>1, <2>2, <2>3 DEF Abstract!DestroyGeneration, Erased
<1> QED
  BY <1>2, <1>3, <1>4, <1>5

(* The first member that delete unlinks makes its bundle unreadable; the   *)
(* bundles that destroy_generation unlinks have been so since their key    *)
(* went.                                                                   *)
LEMMA RemoveImplements ==
  ASSUME IInv, NEW p \in Process, RemoveMember(p)
  PROVE  Abstract!Delete(op[p].cap) /\ op[p].cap \in Capture
<1>1. op[p].cap \in exists /\ op[p].cap \in Capture
  BY DEF RemoveMember, Removing, IInv, TypeOK, Established
<1>2. UNCHANGED <<exists, genOf, key>> /\ Erased' = Erased
  BY DEF RemoveMember, Erased
<1>3. \A c \in Capture : c # op[p].cap => files'[c] = files[c]
  BY DEF RemoveMember, IInv, TypeOK
<1>4. files'[op[p].cap] # Member
  BY <1>1 DEF RemoveMember, IInv, TypeOK
<1>5. Readable' = {b \in Readable : b[1] # op[p].cap}
  BY <1>2, <1>3, <1>4 DEF Readable, CommittedBundles, IsCommitted
<1> QED
  BY <1>1, <1>2, <1>5 DEF Abstract!Delete, Erased

(* Directories that are removed are empty; generations that are created    *)
(* have no bundle yet.                                                     *)
LEMMA NothingReadableChanges ==
  ASSUME IInv, \/ \E p \in Process : RemoveDir(p)
               \/ \E g \in Generation : CreateGeneration(g)
  PROVE  UNCHANGED <<Readable, Erased>>
<1>1. ASSUME NEW p \in Process, RemoveDir(p)
      PROVE  UNCHANGED <<Readable, Erased>>
  <2> DEFINE d == op[p].cap
  <2>1. files[d] = {} /\ files' = files /\ d \notin exists'
    BY <1>1 DEF RemoveDir
  <2>2. Member # {}
    BY DEF Member
  <2>3. ~IsCommitted(d)
    BY <2>1, <2>2 DEF IsCommitted
  <2>4. \A c \in exists' : c \in exists /\ genOf'[c] = genOf[c] /\ files'[c] = files[c]
    BY <1>1, <2>1 DEF RemoveDir, IInv, TypeOK
  <2>5. \A c \in exists : c # d => c \in exists'
    BY <1>1 DEF RemoveDir
  <2>6. key' = key
    BY <1>1 DEF RemoveDir
  <2>7. Readable' = Readable
    BY <2>3, <2>4, <2>5, <2>6 DEF Readable, CommittedBundles, IsCommitted
  <2> QED
    BY <2>6, <2>7 DEF Erased
<1>2. ASSUME NEW g \in Generation, CreateGeneration(g)
      PROVE  UNCHANGED <<Readable, Erased>>
  <2>1. \A h \in Generation : key[h] # "none" => key'[h] = key[h]
    BY <1>2 DEF CreateGeneration, IInv, TypeOK
  <2>2. \A h \in Generation : key'[h] = "gone" <=> key[h] = "gone"
    BY <1>2 DEF CreateGeneration, IInv, TypeOK
  <2>3. \A c \in exists : key'[genOf[c]] = key[genOf[c]]
    BY <2>1 DEF IInv, GenerationsCreated
  <2> QED
    BY <1>2, <2>2, <2>3 DEF CreateGeneration, Readable, CommittedBundles, IsCommitted, Erased
<1> QED
  BY <1>1, <1>2

(* Every step of the vault is an abstract step or leaves no trace. *)
LEMMA StepImplements ==
  ASSUME IInv, [Next]_vars
  PROVE  Abstract!Next \/ UNCHANGED <<Readable, Erased>>
<1>1. CASE UNCHANGED <<exists, files, genOf, key>>
  BY <1>1 DEF Readable, CommittedBundles, IsCommitted, Erased
<1>2. ASSUME NEW p \in Process, SealCommit(p)
      PROVE  Abstract!Next \/ UNCHANGED <<Readable, Erased>>
  BY <1>2, SealImplements, SealedWhole DEF Abstract!Next
<1>3. ASSUME NEW p \in Process, DestroyKey(p) \/ DestroyKeyFail(p)
      PROVE  Abstract!Next \/ UNCHANGED <<Readable, Erased>>
  BY <1>3, DestroyImplements DEF Abstract!Next
<1>4. ASSUME NEW p \in Process, RemoveMember(p)
      PROVE  Abstract!Next
  BY <1>4, RemoveImplements DEF Abstract!Next
<1> QED
  BY <1>1, <1>2, <1>3, <1>4, NothingReadableChanges, DiskSteps

(* The vault's calls, with their locks, partial work, failures and crashes, *)
(* look to their callers like the three atomic operations of CryptoErasure. *)
THEOREM VaultImplementsErasure == Spec => ImplementsErasure
<1>1. Init => Abstract!Init
  BY DEF Init, Abstract!Init, Readable, CommittedBundles, IsCommitted
<1>2. IInv /\ [Next]_vars => [Abstract!Next]_(Abstract!vars)
  BY StepImplements DEF Abstract!vars, Erased
<1> QED
  BY <1>1, <1>2, Invariance, PTL DEF Spec, ImplementsErasure, Abstract!Spec

=============================================================================
