------------------------------ MODULE Waitlist ------------------------------
(***************************************************************************)
(* web/src/pages/api/waitlist.ts and web/src/lib/ratelimit.ts: the server  *)
(* side of the waitlist form.  Each POST first passes a fixed-window rate  *)
(* limit, which reads its client's counter and then writes it in a second  *)
(* database call; other requests run between the two, and windows pass.    *)
(* What is admitted and valid is inserted, an address only once.           *)
(***************************************************************************)
EXTENDS FiniteSets, Integers

CONSTANTS
  Request,      \* the POST requests, each answered once
  Client,       \* hashed client keys
  ClientOf,     \* the client that sends each request
  Email,        \* normalised addresses
  EmailOf,      \* the address each request submits
  Valid,        \* the requests whose form validateSubmission accepts
  Limit,        \* RateLimitOptions::limit
  MaxWindow,    \* bound: the windows are 0..MaxWindow
  NoRequest

ASSUME WaitlistAssumption ==
  /\ ClientOf \in [Request -> Client]
  /\ EmailOf \in [Request -> Email]
  /\ Valid \subseteq Request
  /\ Limit \in Nat \ {0}
  /\ MaxWindow \in Nat
  /\ NoRequest \notin Request
  /\ IsFiniteSet(Request)

VARIABLES
  window,      \* the window the clock is in
  bucket,      \* rate_limit_bucket: the row of each client, count 0 if none
  waitlist,    \* the request that stored each address
  req,         \* where each request stands and the window it computed
  admitted,    \* history: the requests that were allowed
  overlapped   \* history: clients whose requests met in checkRateLimit

vars == <<window, bucket, waitlist, req, admitted, overlapped>>

Window == 0..MaxWindow
Checking == {"select", "restart", "count"}

At(r, where) == req[r].at = where
Move(r, where) == req' = [req EXCEPT ![r].at = where]
Row(r) == bucket[ClientOf[r]]

-----------------------------------------------------------------------------
(* POST *)

(* The form cannot be parsed. *)
Malformed(r) ==
  /\ At(r, "new")
  /\ Move(r, "invalid")
  /\ UNCHANGED <<window, bucket, waitlist, admitted, overlapped>>

(* checkRateLimit computes its window from the clock, *)
Check(r) ==
  /\ At(r, "new")
  /\ req' = [req EXCEPT ![r] = [at |-> "select", start |-> window]]
  /\ overlapped' = overlapped \cup
       {ClientOf[s] : s \in {t \in Request : ClientOf[t] = ClientOf[r]
                                               /\ req[t].at \in Checking}}
  /\ UNCHANGED <<window, bucket, waitlist, admitted>>

(* Plausible bug: the row of an old window is not recognised. *)
SelectAnyWindow(r) ==
  /\ At(r, "select")
  /\ Move(r, IF Row(r).count = 0 THEN "restart"
             ELSE IF Row(r).count >= Limit THEN "limited"
             ELSE "count")
  /\ UNCHANGED <<window, bucket, waitlist, admitted, overlapped>>

(* reads the client's row, *)
Select(r) ==
  /\ At(r, "select")
  /\ Move(r, IF Row(r).count = 0 \/ Row(r).window # req[r].start THEN "restart"
             ELSE IF Row(r).count >= Limit THEN "limited"
             ELSE "count")
  /\ UNCHANGED <<window, bucket, waitlist, admitted, overlapped>>

Counted(r) ==
  [bucket EXCEPT ![ClientOf[r]] =
     IF At(r, "restart") THEN [window |-> req[r].start, count |-> 1]
     ELSE [window |-> @.window, count |-> @.count + 1]]

(* and writes it, whatever it has become meanwhile: the first request of a *)
(* window restarts the count, the others add one.                          *)
Admit(r) ==
  /\ At(r, "restart") \/ At(r, "count")
  /\ bucket' = Counted(r)
  /\ Move(r, "admitted")
  /\ admitted' = admitted \cup {r}
  /\ UNCHANGED <<window, waitlist, overlapped>>

(* A failing database call is not caught; a failing write may have landed. *)
CheckErr(r) ==
  /\ req[r].at \in Checking
  /\ Move(r, "failed")
  /\ bucket' \in (IF At(r, "select") THEN {bucket} ELSE {bucket, Counted(r)})
  /\ UNCHANGED <<window, waitlist, admitted, overlapped>>

Rejected(r) ==
  /\ At(r, "admitted")
  /\ r \notin Valid
  /\ Move(r, "invalid")
  /\ UNCHANGED <<window, bucket, waitlist, admitted, overlapped>>

(* INSERT ... ON CONFLICT(email) DO NOTHING *)
Insert(r) ==
  /\ At(r, "admitted")
  /\ r \in Valid
  /\ waitlist' = [waitlist EXCEPT ![EmailOf[r]] = IF @ = NoRequest THEN r ELSE @]
  /\ Move(r, "thanks")
  /\ UNCHANGED <<window, bucket, admitted, overlapped>>

(* Plausible bug: the error is logged and the visitor thanked. *)
InsertErrThanks(r) ==
  /\ At(r, "admitted")
  /\ r \in Valid
  /\ Move(r, "thanks")
  /\ UNCHANGED <<window, bucket, waitlist, admitted, overlapped>>

(* The insert fails; it may have landed all the same. *)
InsertErr(r) ==
  /\ At(r, "admitted")
  /\ r \in Valid
  /\ waitlist' \in {waitlist, [waitlist EXCEPT ![EmailOf[r]] = IF @ = NoRequest THEN r ELSE @]}
  /\ Move(r, "error")
  /\ UNCHANGED <<window, bucket, admitted, overlapped>>

(* The clock of the server moves on. *)
NextWindow ==
  /\ window < MaxWindow
  /\ window' = window + 1
  /\ UNCHANGED <<bucket, waitlist, req, admitted, overlapped>>

Init ==
  /\ window = 0
  /\ bucket = [c \in Client |-> [window |-> 0, count |-> 0]]
  /\ waitlist = [e \in Email |-> NoRequest]
  /\ req = [r \in Request |-> [at |-> "new", start |-> 0]]
  /\ admitted = {} /\ overlapped = {}

Next ==
  \/ \E r \in Request :
       \/ Malformed(r) \/ Check(r) \/ Select(r) \/ Admit(r) \/ CheckErr(r)
       \/ Rejected(r) \/ Insert(r) \/ InsertErr(r)
  \/ NextWindow

Spec == Init /\ [][Next]_vars

-----------------------------------------------------------------------------
(* Properties *)

AdmittedIn(c, w) == {r \in admitted : ClientOf[r] = c /\ req[r].start = w}
(* A failed check may have been counted. *)
FailedIn(c, w) == {r \in Request : ClientOf[r] = c /\ req[r].start = w /\ At(r, "failed")}

(* For a client whose requests never meet inside checkRateLimit the limit  *)
(* is exact: at most Limit of them are admitted in a window, and none is   *)
(* refused before the window is used up, so a count of an earlier window   *)
(* is never held against it.  ratelimit.ts:42-47 gives up the bound only   *)
(* for requests that race.                                                 *)
AloneLimitIsExact ==
  \A c \in Client \ overlapped, w \in Window :
    LET inWindow == {r \in Request : ClientOf[r] = c /\ req[r].start = w}
    IN  /\ Cardinality(AdmittedIn(c, w)) <= Limit
        /\ (\E r \in inWindow : At(r, "limited")) =>
              Cardinality(AdmittedIn(c, w)) + Cardinality(FailedIn(c, w)) >= Limit

(* Whoever is thanked is on the list, and the list holds only submissions  *)
(* that were admitted and valid.                                           *)
ThanksMeansStored ==
  /\ \A r \in Request : At(r, "thanks") => waitlist[EmailOf[r]] # NoRequest
  /\ \A e \in Email : waitlist[e] # NoRequest => waitlist[e] \in admitted \cap Valid

=============================================================================
