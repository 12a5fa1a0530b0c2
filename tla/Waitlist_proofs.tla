--------------------------- MODULE Waitlist_proofs ---------------------------
(***************************************************************************)
(* The waitlist for any requests, clients, limit and number of windows:    *)
(* the limit is exact for a client whose requests do not race, and whoever *)
(* is thanked is on the list.                                              *)
(***************************************************************************)
EXTENDS Waitlist, FiniteSetTheorems, TLAPS

Ended == {"limited", "admitted", "failed", "invalid", "thanks", "error"}

Types ==
  /\ window \in Window
  /\ bucket \in [Client -> [window : Window, count : Nat]]
  /\ waitlist \in [Email -> Request \cup {NoRequest}]
  /\ req \in [Request -> [at : {"new"} \cup Checking \cup Ended, start : Window]]
  /\ admitted \subseteq Request /\ overlapped \subseteq Client

(* A request that is past the limit was admitted, and only such a one is.  *)
PastTheLimit ==
  \A r \in Request :
    /\ req[r].at \in {"admitted", "thanks", "error"} => r \in admitted
    /\ r \in admitted => req[r].at \in {"admitted", "thanks", "error", "invalid"}

(* No window lies ahead of the clock. *)
NothingAhead ==
  /\ \A r \in Request : req[r].start <= window
  /\ \A c \in Client : bucket[c].window <= window

(* What holds of a client as long as its requests do not overlap.  Its row *)
(* counts the admitted requests of the latest window that has any, and     *)
(* perhaps failed ones; a request in checkRateLimit is alone there, and    *)
(* what it has read still holds.                                           *)
Alone(c) ==
  LET row == bucket[c]
      mine == {r \in Request : ClientOf[r] = c}
  IN
  /\ \A r, s \in mine : req[r].at \in Checking /\ req[s].at \in Checking => r = s
  /\ row.count > 0 =>
       /\ row.count <= Limit
       /\ Cardinality(AdmittedIn(c, row.window)) <= row.count
       /\ row.count <= Cardinality(AdmittedIn(c, row.window))
                         + Cardinality(FailedIn(c, row.window))
  /\ \A r \in mine : r \in admitted => row.count > 0 /\ req[r].start <= row.window
  /\ \A r \in mine : req[r].at \in Checking => row.count = 0 \/ row.window <= req[r].start
  /\ \A r \in mine : At(r, "restart") => row.count = 0 \/ row.window # req[r].start
  /\ \A r \in mine : At(r, "count") =>
       row.count > 0 /\ row.count < Limit /\ row.window = req[r].start

Exact(c) ==
  \A w \in Window :
    /\ Cardinality(AdmittedIn(c, w)) <= Limit
    /\ \A r \in Request : ClientOf[r] = c /\ req[r].start = w /\ At(r, "limited") =>
         Cardinality(AdmittedIn(c, w)) + Cardinality(FailedIn(c, w)) >= Limit

AloneInv == \A c \in Client \ overlapped : Alone(c) /\ Exact(c)

IInv == Types /\ PastTheLimit /\ NothingAhead /\ ThanksMeansStored /\ AloneInv

-----------------------------------------------------------------------------
(* Cardinalities *)

(* Sets of requests are finite. *)
LEMMA RequestSets ==
  ASSUME NEW S, S \subseteq Request
  PROVE  IsFiniteSet(S) /\ Cardinality(S) \in Nat
BY WaitlistAssumption, FS_Subset, FS_CardinalityType

(* One request more counts one more. *)
LEMMA OneRequestMore ==
  ASSUME NEW S, S \subseteq Request, NEW r \in Request, r \notin S
  PROVE  Cardinality(S \cup {r}) = Cardinality(S) + 1
BY RequestSets, FS_AddElement

(* What is counted of a client in a window. *)
LEMMA CountedSets ==
  ASSUME Types, NEW c, NEW w
  PROVE  /\ AdmittedIn(c, w) \subseteq Request /\ FailedIn(c, w) \subseteq Request
         /\ Cardinality(AdmittedIn(c, w)) \in Nat /\ Cardinality(FailedIn(c, w)) \in Nat
<1>1. AdmittedIn(c, w) \subseteq Request /\ FailedIn(c, w) \subseteq Request
  BY DEF Types, AdmittedIn, FailedIn
<1> QED
  BY <1>1, RequestSets

-----------------------------------------------------------------------------
(* The parts of the invariant *)

(* Before the first request nothing is counted. *)
LEMMA InitInvariant == Init => IInv
<1> SUFFICES ASSUME Init PROVE IInv
  OBVIOUS
<1>1. 0 \in Window /\ MaxWindow \in Nat
  BY WaitlistAssumption DEF Window
<1>2. Types
  BY <1>1, WaitlistAssumption DEF Init, Types
<1>3. PastTheLimit /\ NothingAhead
  BY <1>1, WaitlistAssumption DEF Init, PastTheLimit, NothingAhead
<1>4. ThanksMeansStored
  BY WaitlistAssumption DEF Init, ThanksMeansStored, At
<1>5. ASSUME NEW c \in Client PROVE Alone(c) /\ Exact(c)
  <2>1. \A w : AdmittedIn(c, w) = {}
    BY DEF Init, AdmittedIn
  <2>2. Alone(c)
    BY <1>5 DEF Init, Alone, Checking, At
  <2>3. Exact(c)
    <3>1. \A w : Cardinality(AdmittedIn(c, w)) = 0
      BY <2>1, FS_EmptySet
    <3>2. \A r \in Request : ~At(r, "limited")
      BY DEF Init, At
    <3> QED
      BY <3>1, <3>2, WaitlistAssumption DEF Exact
  <2> QED
    BY <2>2, <2>3
<1> QED
  BY <1>2, <1>3, <1>4, <1>5 DEF IInv, AloneInv

(* What a step of a request does to the request and to nobody else.  Only  *)
(* Check gives it a window.                                                *)
LEMMA Moved ==
  ASSUME Types, NEW r \in Request, NEW at \in Checking \cup Ended, Move(r, at)
  PROVE  /\ req' \in [Request -> [at : {"new"} \cup Checking \cup Ended, start : Window]]
         /\ req'[r].at = at /\ req'[r].start = req[r].start
         /\ \A s \in Request : s # r => req'[s] = req[s]
BY DEF Types, Move

(* A row that is counted keeps its type. *)
LEMMA CountedRow ==
  ASSUME Types, NEW r \in Request
  PROVE  /\ Counted(r) \in [Client -> [window : Window, count : Nat]]
         /\ At(r, "restart") => /\ Counted(r)[ClientOf[r]].window = req[r].start
                               /\ Counted(r)[ClientOf[r]].count = 1
         /\ ~At(r, "restart") =>
              /\ Counted(r)[ClientOf[r]].window = bucket[ClientOf[r]].window
              /\ Counted(r)[ClientOf[r]].count = bucket[ClientOf[r]].count + 1
         /\ \A c \in Client : c # ClientOf[r] => Counted(r)[c] = bucket[c]
<1>1. ClientOf[r] \in Client /\ req[r].start \in Window /\ bucket[ClientOf[r]].count \in Nat
  BY WaitlistAssumption DEF Types
<1>2. bucket[ClientOf[r]] \in [window : Window, count : Nat]
  BY <1>1 DEF Types
<1>3. CASE At(r, "restart")
  <2> DEFINE row == [window |-> req[r].start, count |-> 1]
  <2>1. Counted(r) = [bucket EXCEPT ![ClientOf[r]] = row]
    BY <1>3 DEF Counted
  <2>2. row \in [window : Window, count : Nat]
    BY <1>1
  <2>5. row.window = req[r].start /\ row.count = 1
    OBVIOUS
  <2> HIDE DEF row
  <2>3. Counted(r) \in [Client -> [window : Window, count : Nat]]
    BY <1>1, <2>1, <2>2 DEF Types
  <2>4. Counted(r)[ClientOf[r]] = row /\ \A c \in Client : c # ClientOf[r] => Counted(r)[c] = bucket[c]
    BY <1>1, <2>1 DEF Types
  <2> QED
    BY <1>3, <2>3, <2>4, <2>5
<1>4. CASE ~At(r, "restart")
  <2> DEFINE row == [window |-> bucket[ClientOf[r]].window,
                     count |-> bucket[ClientOf[r]].count + 1]
  <2>1. Counted(r) = [bucket EXCEPT ![ClientOf[r]] = row]
    BY <1>4 DEF Counted
  <2>2. row \in [window : Window, count : Nat]
    BY <1>1, <1>2
  <2>3. row.window = bucket[ClientOf[r]].window /\ row.count = bucket[ClientOf[r]].count + 1
    BY <1>2
  <2> HIDE DEF row
  <2>4. Counted(r) \in [Client -> [window : Window, count : Nat]]
    BY <1>1, <2>1, <2>2 DEF Types
  <2>5. Counted(r)[ClientOf[r]] = row /\ \A c \in Client : c # ClientOf[r] => Counted(r)[c] = bucket[c]
    BY <1>1, <2>1 DEF Types
  <2> QED
    BY <1>4, <2>3, <2>4, <2>5
<1> QED
  BY <1>3, <1>4

(* The parts that do not count: types, windows and the list. *)
LEMMA ListStep ==
  ASSUME IInv, [Next]_vars
  PROVE  (Types /\ PastTheLimit /\ NothingAhead /\ ThanksMeansStored)'
<1> USE WaitlistAssumption DEF IInv
<1>1. ASSUME NEW r \in Request, NEW at \in Ended \ {"thanks"}, Move(r, at),
             req[r].at \in {"new"} \cup Checking \cup {"admitted"},
             at \in {"admitted", "error"} => r \in admitted',
             at \in {"limited", "failed"} => req[r].at \in Checking,
             admitted' \in {admitted, admitted \cup {r}},
             r \in admitted' \ admitted => at = "admitted",
             bucket' \in {bucket, Counted(r)},
             waitlist' \in {waitlist,
                            [waitlist EXCEPT ![EmailOf[r]] = IF @ = NoRequest THEN r ELSE @]},
             waitlist' # waitlist => At(r, "admitted") /\ r \in Valid,
             UNCHANGED <<window, overlapped>>
      PROVE  (Types /\ PastTheLimit /\ NothingAhead /\ ThanksMeansStored)'
  <2>1. /\ req' \in [Request -> [at : {"new"} \cup Checking \cup Ended, start : Window]]
        /\ req'[r].at = at /\ req'[r].start = req[r].start
        /\ \A s \in Request : s # r => req'[s] = req[s]
    BY <1>1, Moved
  <2>2. /\ bucket' \in [Client -> [window : Window, count : Nat]]
        /\ \A c \in Client : bucket'[c].window \in {bucket[c].window, req[r].start}
    <3>1. Counted(r) \in [Client -> [window : Window, count : Nat]]
      BY CountedRow
    <3>2. \A c \in Client : Counted(r)[c].window \in {bucket[c].window, req[r].start}
      <4> SUFFICES ASSUME NEW c \in Client
                   PROVE  Counted(r)[c].window \in {bucket[c].window, req[r].start}
        OBVIOUS
      <4>1. CASE c # ClientOf[r]
        BY <4>1, CountedRow
      <4>2. CASE c = ClientOf[r] /\ At(r, "restart")
        BY <4>2, CountedRow
      <4>3. CASE c = ClientOf[r] /\ ~At(r, "restart")
        BY <4>3, CountedRow
      <4> QED
        BY <4>1, <4>2, <4>3
    <3> QED
      BY <1>1, <3>1, <3>2 DEF Types
  <2>3. EmailOf[r] \in Email
    OBVIOUS
  <2>4. Types'
    BY <1>1, <2>1, <2>2, <2>3 DEF Types
  <2>5. PastTheLimit'
    BY <1>1, <2>1 DEF PastTheLimit, Checking, Ended
  <2>6. NothingAhead'
    BY <1>1, <2>1, <2>2 DEF NothingAhead
  <2>7. \A s \in Request : At(s, "thanks")' => At(s, "thanks")
    BY <1>1, <2>1 DEF At
  <2>8. r \in admitted \/ waitlist' = waitlist
    BY <1>1 DEF PastTheLimit, At
  <2>9. ThanksMeansStored'
    <3>1. \A e \in Email : waitlist[e] # NoRequest => waitlist'[e] = waitlist[e]
      BY <1>1 DEF Types
    <3>2. \A e \in Email : waitlist'[e] = waitlist[e] \/ (waitlist'[e] = r /\ r \in admitted \cap Valid)
      BY <1>1, <2>8 DEF Types
    <3> QED
      BY <1>1, <2>7, <3>1, <3>2 DEF ThanksMeansStored
  <2> QED
    BY <2>4, <2>5, <2>6, <2>9
<1>2. ASSUME NEW r \in Request, Malformed(r) \/ Rejected(r) \/ InsertErr(r)
      PROVE  (Types /\ PastTheLimit /\ NothingAhead /\ ThanksMeansStored)'
  <2>1. CASE Malformed(r)
    BY <1>1, <2>1 DEF Malformed, At, Ended
  <2>2. CASE Rejected(r)
    BY <1>1, <2>2 DEF Rejected, At, Ended
  <2>3. CASE InsertErr(r)
    <3>1. r \in admitted
      BY <2>3 DEF InsertErr, At, PastTheLimit
    <3> QED
      BY <1>1, <2>3, <3>1 DEF InsertErr, At, Ended
  <2> QED
    BY <1>2, <2>1, <2>2, <2>3
<1>3. ASSUME NEW r \in Request, Admit(r) \/ CheckErr(r)
      PROVE  (Types /\ PastTheLimit /\ NothingAhead /\ ThanksMeansStored)'
  <2>1. CASE Admit(r)
    BY <1>1, <2>1 DEF Admit, At, Ended, Checking
  <2>2. CASE CheckErr(r)
    BY <1>1, <2>2 DEF CheckErr, At, Ended, Checking
  <2> QED
    BY <1>3, <2>1, <2>2
<1>4. ASSUME NEW r \in Request, Check(r)
      PROVE  (Types /\ PastTheLimit /\ NothingAhead /\ ThanksMeansStored)'
  <2>1. /\ req[r].at = "new" /\ req' = [req EXCEPT ![r] = [at |-> "select", start |-> window]]
        /\ UNCHANGED <<window, bucket, waitlist, admitted>>
    BY <1>4 DEF Check, At
  <2>2. overlapped' \subseteq Client
    BY <1>4 DEF Check, Types
  <2>3. /\ req'[r] = [at |-> "select", start |-> window]
        /\ \A s \in Request : s # r => req'[s] = req[s]
    BY <2>1 DEF Types
  <2>4. Types'
    BY <2>1, <2>2 DEF Types, Checking
  <2>5. PastTheLimit'
    BY <2>1, <2>3 DEF PastTheLimit
  <2>6. NothingAhead'
    BY <2>1, <2>3 DEF NothingAhead, Types, Window
  <2>7. ThanksMeansStored'
    BY <2>1, <2>3 DEF ThanksMeansStored, At
  <2> QED
    BY <2>4, <2>5, <2>6, <2>7
<1>5. ASSUME NEW r \in Request, Select(r)
      PROVE  (Types /\ PastTheLimit /\ NothingAhead /\ ThanksMeansStored)'
  <2>1. PICK at \in {"restart", "limited", "count"} : Move(r, at)
    BY <1>5 DEF Select
  <2>2. req[r].at = "select" /\ UNCHANGED <<window, bucket, waitlist, admitted, overlapped>>
    BY <1>5 DEF Select, At
  <2>3. /\ req' \in [Request -> [at : {"new"} \cup Checking \cup Ended, start : Window]]
        /\ req'[r].at = at /\ req'[r].start = req[r].start
        /\ \A s \in Request : s # r => req'[s] = req[s]
    BY <2>1, Moved DEF Checking, Ended
  <2>4. Types'
    BY <2>2, <2>3 DEF Types
  <2>5. PastTheLimit' /\ NothingAhead'
    BY <2>2, <2>3 DEF PastTheLimit, NothingAhead
  <2>6. ThanksMeansStored'
    BY <2>2, <2>3 DEF ThanksMeansStored, At
  <2> QED
    BY <2>4, <2>5, <2>6
<1>6. ASSUME NEW r \in Request, Insert(r)
      PROVE  (Types /\ PastTheLimit /\ NothingAhead /\ ThanksMeansStored)'
  <2>1. /\ req[r].at = "admitted" /\ r \in Valid /\ Move(r, "thanks")
        /\ waitlist' = [waitlist EXCEPT ![EmailOf[r]] = IF @ = NoRequest THEN r ELSE @]
        /\ UNCHANGED <<window, bucket, admitted, overlapped>>
    BY <1>6 DEF Insert, At
  <2>2. /\ req' \in [Request -> [at : {"new"} \cup Checking \cup Ended, start : Window]]
        /\ req'[r].at = "thanks" /\ req'[r].start = req[r].start
        /\ \A s \in Request : s # r => req'[s] = req[s]
    BY <2>1, Moved DEF Ended
  <2>3. r \in admitted /\ EmailOf[r] \in Email
    BY <2>1 DEF PastTheLimit
  <2>4. Types'
    BY <2>1, <2>2, <2>3 DEF Types
  <2>5. PastTheLimit' /\ NothingAhead'
    BY <2>1, <2>2, <2>3 DEF PastTheLimit, NothingAhead
  <2>6. ThanksMeansStored'
    <3>1. \A e \in Email : waitlist[e] # NoRequest => waitlist'[e] = waitlist[e]
      BY <2>1 DEF Types
    <3>2. \A e \in Email : waitlist'[e] = waitlist[e] \/ (waitlist'[e] = r /\ r \in admitted \cap Valid)
      BY <2>1, <2>3 DEF Types
    <3>3. waitlist'[EmailOf[r]] # NoRequest
      BY <2>1, <2>3 DEF Types
    <3> QED
      BY <2>1, <2>2, <3>1, <3>2, <3>3 DEF ThanksMeansStored, At
  <2> QED
    BY <2>4, <2>5, <2>6
<1>7. CASE NextWindow
  <2>1. /\ window < MaxWindow /\ window' = window + 1
        /\ UNCHANGED <<bucket, waitlist, req, admitted, overlapped>>
    BY <1>7 DEF NextWindow
  <2>2. Types'
    BY <2>1 DEF Types, Window
  <2>3. PastTheLimit' /\ ThanksMeansStored'
    BY <2>1 DEF PastTheLimit, ThanksMeansStored, At
  <2>4. NothingAhead'
    BY <2>1 DEF NothingAhead, Types, Window
  <2> QED
    BY <2>2, <2>3, <2>4
<1>8. CASE UNCHANGED vars
  BY <1>8 DEF vars, Types, PastTheLimit, NothingAhead, ThanksMeansStored, At
<1> QED
  BY <1>2, <1>3, <1>4, <1>5, <1>6, <1>7, <1>8 DEF Next

-----------------------------------------------------------------------------
(* A client whose requests do not overlap *)

(* Nothing that is counted of the client changes. *)
LEMMA QuietStep ==
  ASSUME IInv, NEW c \in Client \ overlapped, bucket'[c] = bucket[c],
         admitted' \subseteq Request,
         \A s \in Request : ClientOf[s] = c =>
           /\ s \in admitted' <=> s \in admitted
           /\ req'[s].start = req[s].start
           /\ \/ req'[s].at = req[s].at
              \/ /\ req[s].at \notin Checking \cup {"limited", "failed"}
                 /\ req'[s].at \notin Checking \cup {"limited", "failed"}
  PROVE  (Alone(c) /\ Exact(c))'
<1>1. Alone(c) /\ Exact(c)
  BY DEF IInv, AloneInv
<1>2. \A w : AdmittedIn(c, w)' = AdmittedIn(c, w) /\ FailedIn(c, w)' = FailedIn(c, w)
  <2> SUFFICES ASSUME NEW w
               PROVE  AdmittedIn(c, w)' = AdmittedIn(c, w) /\ FailedIn(c, w)' = FailedIn(c, w)
    OBVIOUS
  <2>1. AdmittedIn(c, w)' = AdmittedIn(c, w)
    BY DEF IInv, Types, AdmittedIn
  <2>2. FailedIn(c, w)' = FailedIn(c, w)
    BY DEF FailedIn, At
  <2> QED
    BY <2>1, <2>2
<1>3. Alone(c)'
  BY <1>1, <1>2 DEF Alone, At, Checking
<1>4. Exact(c)'
  BY <1>1, <1>2 DEF Exact, At
<1> QED
  BY <1>3, <1>4

(* A request that enters checkRateLimit finds nobody of its client there,  *)
(* and computes a window that is not behind the row's.                     *)
LEMMA CheckStep ==
  ASSUME IInv, NEW r \in Request, Check(r), ClientOf[r] \notin overlapped'
  PROVE  (Alone(ClientOf[r]) /\ Exact(ClientOf[r]))'
<1> DEFINE c == ClientOf[r]
<1>1. c \in Client /\ c \notin overlapped
  BY WaitlistAssumption DEF Check
<1>2. Alone(c) /\ Exact(c)
  BY <1>1 DEF IInv, AloneInv
<1>3. /\ req[r].at = "new" /\ req' = [req EXCEPT ![r] = [at |-> "select", start |-> window]]
      /\ UNCHANGED <<window, bucket, waitlist, admitted>>
  BY DEF Check, At
<1>4. /\ req'[r].at = "select" /\ req'[r].start = window
      /\ \A s \in Request : s # r => req'[s] = req[s]
  BY <1>3 DEF IInv, Types
<1>5. \A s \in Request : ClientOf[s] = c => req[s].at \notin Checking
  BY DEF Check
<1>6. r \notin admitted
  BY <1>3 DEF IInv, PastTheLimit
<1> HIDE DEF c
<1>7. \A w : AdmittedIn(c, w)' = AdmittedIn(c, w) /\ FailedIn(c, w)' = FailedIn(c, w)
  <2> SUFFICES ASSUME NEW w
               PROVE  AdmittedIn(c, w)' = AdmittedIn(c, w) /\ FailedIn(c, w)' = FailedIn(c, w)
    OBVIOUS
  <2>1. AdmittedIn(c, w)' = AdmittedIn(c, w)
    BY <1>3, <1>4, <1>6 DEF IInv, Types, AdmittedIn
  <2>2. FailedIn(c, w)' = FailedIn(c, w)
    BY <1>3, <1>4 DEF FailedIn, At
  <2> QED
    BY <2>1, <2>2
<1>8. Alone(c)'
  <2>1. bucket[c].window <= window
    BY <1>1 DEF IInv, NothingAhead
  <2> QED
    BY <1>2, <1>3, <1>4, <1>5, <1>6, <1>7, <2>1 DEF Alone, At, Checking
<1>9. Exact(c)'
  BY <1>2, <1>4, <1>7 DEF Exact, At
<1> QED
  BY <1>8, <1>9 DEF c

(* What the row says is what it decides on. *)
LEMMA SelectStep ==
  ASSUME IInv, NEW r \in Request, Select(r), ClientOf[r] \notin overlapped
  PROVE  (Alone(ClientOf[r]) /\ Exact(ClientOf[r]))'
<1> DEFINE c == ClientOf[r]
           row == bucket[c]
<1>1. c \in Client /\ row.count \in Nat /\ Limit \in Nat
  BY WaitlistAssumption DEF IInv, Types
<1>2. Alone(c) /\ Exact(c)
  BY <1>1 DEF IInv, AloneInv
<1>3. PICK at \in {"restart", "limited", "count"} :
        /\ Move(r, at)
        /\ at = "restart" => row.count = 0 \/ row.window # req[r].start
        /\ at # "restart" => row.count # 0 /\ row.window = req[r].start
        /\ at = "limited" => row.count >= Limit
        /\ at = "count" => ~(row.count >= Limit)
  BY DEF Select, Row
<1>4. req[r].at = "select" /\ UNCHANGED <<bucket, admitted>>
  BY DEF Select, At
<1>5. /\ req'[r].at = at /\ req'[r].start = req[r].start
      /\ \A s \in Request : s # r => req'[s] = req[s]
  BY <1>3, Moved DEF IInv, Checking, Ended
<1>6. \A w : AdmittedIn(c, w)' = AdmittedIn(c, w) /\ FailedIn(c, w)' = FailedIn(c, w)
  <2> SUFFICES ASSUME NEW w
               PROVE  AdmittedIn(c, w)' = AdmittedIn(c, w) /\ FailedIn(c, w)' = FailedIn(c, w)
    OBVIOUS
  <2>1. AdmittedIn(c, w)' = AdmittedIn(c, w)
    BY <1>4, <1>5 DEF IInv, Types, AdmittedIn
  <2>2. FailedIn(c, w)' = FailedIn(c, w)
    BY <1>4, <1>5 DEF FailedIn, At
  <2> QED
    BY <2>1, <2>2
<1>7. at = "limited" =>
        Cardinality(AdmittedIn(c, req[r].start)) + Cardinality(FailedIn(c, req[r].start)) >= Limit
  <2>1. /\ Cardinality(AdmittedIn(c, row.window)) \in Nat
        /\ Cardinality(FailedIn(c, row.window)) \in Nat
    BY CountedSets DEF IInv
  <2>2. row.count > 0 =>
          row.count <= Cardinality(AdmittedIn(c, row.window)) + Cardinality(FailedIn(c, row.window))
    BY <1>2 DEF Alone
  <2> QED
    BY <1>1, <1>3, <2>1, <2>2
<1>8. Alone(c)'
  <2>1. \A s \in Request : ClientOf[s] = c /\ req'[s].at \in Checking => req[s].at \in Checking
    BY <1>4, <1>5 DEF Checking
  <2>2. req[r].at \in Checking
    BY <1>4 DEF Checking
  <2> HIDE DEF c
  <2>3. \A s \in Request : ClientOf[s] = c /\ s # r => req[s].at \notin Checking
    BY <1>2, <2>2 DEF Alone, c
  <2> QED
    BY <1>1, <1>2, <1>3, <1>4, <1>5, <1>6, <2>1, <2>2, <2>3 DEF Alone, At, Checking
<1>9. Exact(c)'
  BY <1>2, <1>5, <1>6, <1>7 DEF Exact, At
<1> QED
  BY <1>8, <1>9

(* The request leaves checkRateLimit: it is admitted or fails, and the row *)
(* is written or not.                                                      *)
LEMMA LeaveStep ==
  ASSUME IInv, NEW r \in Request, Admit(r) \/ CheckErr(r), ClientOf[r] \notin overlapped
  PROVE  (Alone(ClientOf[r]) /\ Exact(ClientOf[r]))'
<1> DEFINE c == ClientOf[r]
           A(w) == Cardinality(AdmittedIn(c, w))
           F(w) == Cardinality(FailedIn(c, w))
<1>0. PICK start \in Window, v \in Window, n \in Nat :
        req[r].start = start /\ bucket[c].window = v /\ bucket[c].count = n
  BY WaitlistAssumption DEF IInv, Types
<1>1. /\ c \in Client /\ Limit \in Nat \ {0}
      /\ v \in Nat /\ start \in Nat
      /\ \A w \in Window : w \in Nat
  BY WaitlistAssumption DEF Window
<1>2. Alone(c) /\ Exact(c)
  BY <1>1 DEF IInv, AloneInv
<1>3. PICK at \in {"admitted", "failed"} :
        /\ Move(r, at)
        /\ admitted' = IF at = "admitted" THEN admitted \cup {r} ELSE admitted
        /\ \/ bucket' = bucket /\ at = "failed"
           \/ bucket' = Counted(r) /\ At(r, "restart")
           \/ bucket' = Counted(r) /\ At(r, "count")
  <2>1. CASE Admit(r)
    BY <2>1 DEF Admit
  <2>2. CASE CheckErr(r)
    BY <2>2 DEF CheckErr, At, Checking
  <2> QED
    BY <2>1, <2>2
<1>4. req[r].at \in Checking /\ r \notin admitted
  BY DEF Admit, CheckErr, At, IInv, PastTheLimit, Checking
<1>5. /\ req'[r].at = at /\ req'[r].start = start
      /\ \A s \in Request : s # r => req'[s] = req[s]
  BY <1>0, <1>3, Moved DEF IInv, Ended
<1>6. /\ \A w : w # start => AdmittedIn(c, w)' = AdmittedIn(c, w) /\ FailedIn(c, w)' = FailedIn(c, w)
      /\ at = "admitted" => /\ AdmittedIn(c, start)' = AdmittedIn(c, start) \cup {r}
                            /\ FailedIn(c, start)' = FailedIn(c, start)
      /\ at = "failed" => /\ AdmittedIn(c, start)' = AdmittedIn(c, start)
                          /\ FailedIn(c, start)' = FailedIn(c, start) \cup {r}
  <2>2. ASSUME NEW w, w # start
        PROVE  AdmittedIn(c, w)' = AdmittedIn(c, w) /\ FailedIn(c, w)' = FailedIn(c, w)
    <3>1. AdmittedIn(c, w)' = AdmittedIn(c, w)
      BY <1>0, <1>3, <1>5, <2>2 DEF AdmittedIn, IInv, Types
    <3>2. FailedIn(c, w)' = FailedIn(c, w)
      BY <1>0, <1>5, <2>2 DEF FailedIn, At
    <3> QED
      BY <3>1, <3>2
  <2>3. CASE at = "admitted"
    <3>1. AdmittedIn(c, start)' = AdmittedIn(c, start) \cup {r}
      BY <1>3, <1>5, <2>3 DEF AdmittedIn, IInv, Types
    <3>2. FailedIn(c, start)' = FailedIn(c, start)
      BY <1>4, <1>5, <2>3 DEF FailedIn, At, Checking
    <3> QED
      BY <2>2, <2>3, <3>1, <3>2
  <2>4. CASE at = "failed"
    <3>1. AdmittedIn(c, start)' = AdmittedIn(c, start)
      BY <1>3, <1>4, <1>5, <2>4 DEF AdmittedIn, IInv, Types
    <3>2. FailedIn(c, start)' = FailedIn(c, start) \cup {r}
      BY <1>5, <2>4 DEF FailedIn, At
    <3> QED
      BY <2>2, <2>4, <3>1, <3>2
  <2> QED
    BY <2>3, <2>4
<1>7. /\ \A w : A(w) \in Nat /\ F(w) \in Nat
      /\ \A w : w # start => A(w)' = A(w) /\ F(w)' = F(w)
      /\ at = "admitted" => A(start)' = A(start) + 1 /\ F(start)' = F(start)
      /\ at = "failed" => A(start)' = A(start) /\ F(start)' = F(start) + 1
  <2>0. \A w : A(w) \in Nat /\ F(w) \in Nat
    BY CountedSets DEF IInv
  <2>1. /\ AdmittedIn(c, start) \subseteq Request /\ FailedIn(c, start) \subseteq Request
        /\ r \notin AdmittedIn(c, start) /\ r \notin FailedIn(c, start)
    BY <1>4, CountedSets DEF IInv, AdmittedIn, FailedIn, At, Checking
  <2>2. /\ Cardinality(AdmittedIn(c, start) \cup {r}) = A(start) + 1
        /\ Cardinality(FailedIn(c, start) \cup {r}) = F(start) + 1
    BY <2>1, OneRequestMore
  <2> QED
    BY <1>6, <2>0, <2>2
<1>8. \A s \in Request : ClientOf[s] = c => req'[s].at \notin Checking
  <2>1. \A s \in Request : ClientOf[s] = c /\ s # r => req[s].at \notin Checking
    BY <1>2, <1>4 DEF Alone
  <2>2. req'[r].at \notin Checking
    BY <1>5 DEF Checking
  <2> QED
    BY <1>5, <2>1, <2>2
<1>9. \A s \in Request : s \in admitted' => s \in admitted \/ (s = r /\ at = "admitted")
  BY <1>3
<1>10. \A s \in Request : ClientOf[s] = c /\ s \in admitted =>
          n > 0 /\ req'[s].start = req[s].start /\ req[s].start <= v
                       /\ req[s].start \in Nat
  BY <1>0, <1>1, <1>2, <1>4, <1>5 DEF Alone, IInv, Types
<1>11. n > 0 => /\ n <= Limit
                        /\ A(v) <= n
                        /\ n <= A(v) + F(v)
  BY <1>0, <1>2 DEF Alone
<1>12. n = 0 \/ v <= start
  BY <1>0, <1>2, <1>4 DEF Alone
<1>13. \A w \in Window : A(w) <= Limit
  BY <1>2 DEF Exact
<1>14. /\ \A w : A(w)' \in Nat /\ F(w)' \in Nat
       /\ \A w : A(w)' + F(w)' >= A(w) + F(w)
  <2> SUFFICES ASSUME NEW w
               PROVE  A(w)' \in Nat /\ F(w)' \in Nat /\ A(w)' + F(w)' >= A(w) + F(w)
    OBVIOUS
  <2>0. A(w) \in Nat /\ F(w) \in Nat /\ A(start) \in Nat /\ F(start) \in Nat
    BY <1>7
  <2>1. CASE w # start
    BY <1>7, <2>0, <2>1
  <2>2. CASE w = start /\ at = "admitted"
    BY <1>7, <2>0, <2>2
  <2>3. CASE w = start /\ at = "failed"
    BY <1>7, <2>0, <2>3
  <2> QED
    BY <2>1, <2>2, <2>3
(* Three cases; in each, the row after the step and the request's bound. *)
<1>15. PICK n2 \in Nat, v2 \in Window :
       /\ bucket'[c].count = n2 /\ bucket'[c].window = v2
       /\ n2 > 0 => /\ n2 <= Limit
                            /\ A(v2)' <= n2
                            /\ n2 <= A(v2)' + F(v2)'
       /\ at = "admitted" => n2 > 0 /\ start <= v2 /\ A(start) + 1 <= Limit
       /\ n > 0 => n2 > 0 /\ v <= v2
  <2>1. CASE bucket' = bucket /\ at = "failed"
    <3>2. A(v)' = A(v) /\ A(v)' + F(v)' >= A(v) + F(v)
      BY <1>7, <1>14, <2>1
    <3>3. A(v) \in Nat /\ F(v) \in Nat /\ F(v)' \in Nat
      BY <1>7, <1>14
    <3> QED
      BY <1>0, <1>1, <1>11, <2>1, <3>2, <3>3
  <2>2. CASE bucket' = Counted(r) /\ At(r, "restart")
    <3>1. bucket'[c].window = start /\ bucket'[c].count = 1
      BY <1>0, <2>2, CountedRow DEF IInv
    <3>2. n = 0 \/ v # start
      BY <1>0, <1>2, <2>2 DEF Alone
    <3>3. AdmittedIn(c, start) = {}
      <4> SUFFICES ASSUME NEW s \in AdmittedIn(c, start) PROVE FALSE
        OBVIOUS
      <4>1. s \in Request /\ s \in admitted /\ ClientOf[s] = c /\ req[s].start = start
        BY DEF AdmittedIn, IInv, Types
      <4>2. n > 0 /\ start <= v
        BY <1>10, <4>1
      <4> QED
        BY <1>1, <1>12, <3>2, <4>2
    <3>4. A(start) = 0
      BY <3>3, FS_EmptySet
    <3>5. F(start) \in Nat
      BY <1>7
    <3>6. A(start)' <= 1 /\ 1 <= A(start)' + F(start)'
      <4>1. CASE at = "admitted"
        BY <1>7, <3>4, <3>5, <4>1
      <4>2. CASE at = "failed"
        BY <1>7, <3>4, <3>5, <4>2
      <4> QED
        BY <4>1, <4>2
    <3> QED
      BY <1>1, <1>12, <3>1, <3>4, <3>6
  <2>3. CASE bucket' = Counted(r) /\ At(r, "count")
    <3>1. bucket'[c].window = v /\ bucket'[c].count = n + 1
      BY <1>0, <2>3, CountedRow DEF IInv, At
    <3>2. n > 0 /\ n < Limit /\ v = start
      BY <1>0, <1>2, <2>3 DEF Alone
    <3>3. A(start) \in Nat /\ F(start) \in Nat /\ A(start) <= n
          /\ n <= A(start) + F(start)
      BY <1>7, <1>11, <3>2
    <3>4. A(start)' <= n + 1 /\ n + 1 <= A(start)' + F(start)'
      <4>1. CASE at = "admitted"
        BY <1>1, <1>7, <3>3, <4>1
      <4>2. CASE at = "failed"
        BY <1>1, <1>7, <3>3, <4>2
      <4> QED
        BY <4>1, <4>2
    <3>5. A(start) + 1 <= Limit
      BY <1>1, <3>2, <3>3
    <3> QED
      BY <1>1, <3>1, <3>2, <3>4, <3>5
  <2> QED
    BY <1>3, <2>1, <2>2, <2>3
<1>16. \A s \in Request : ClientOf[s] = c /\ s \in admitted' =>
          n2 > 0 /\ req'[s].start <= v2
  <2> SUFFICES ASSUME NEW s \in Request, ClientOf[s] = c, s \in admitted'
               PROVE  n2 > 0 /\ req'[s].start <= v2
    OBVIOUS
  <2>1. CASE s \in admitted
    BY <1>0, <1>1, <1>10, <1>15, <2>1
  <2>2. CASE s = r /\ at = "admitted"
    BY <1>5, <1>15, <2>2
  <2> QED
    BY <1>9, <2>1, <2>2
<1>17. Alone(c)'
  <2>1. \A s \in Request : ClientOf[s] = c => ~At(s, "restart")' /\ ~At(s, "count")'
    BY <1>8 DEF At, Checking
  <2> QED
    BY <1>1, <1>8, <1>15, <1>16, <2>1 DEF Alone
<1>18. Exact(c)'
  <2> SUFFICES ASSUME NEW w \in Window
               PROVE  /\ A(w)' <= Limit
                      /\ \A s \in Request : ClientOf[s] = c /\ req'[s].start = w /\ At(s, "limited")' =>
                            A(w)' + F(w)' >= Limit
    BY DEF Exact, Window
  <2>1. A(w)' <= Limit
    <3>1. CASE w = start /\ at = "admitted"
      BY <1>1, <1>7, <1>15, <3>1
    <3>2. CASE w # start \/ at = "failed"
      BY <1>7, <1>13, <3>2
    <3> QED
      BY <3>1, <3>2
  <2>2. ASSUME NEW s \in Request, ClientOf[s] = c, req'[s].start = w, At(s, "limited")'
        PROVE  A(w)' + F(w)' >= Limit
    <3>1. s # r
      BY <1>5, <2>2 DEF At
    <3>2. req[s].start = w /\ At(s, "limited")
      BY <1>5, <2>2, <3>1 DEF At
    <3>3. A(w) + F(w) >= Limit
      BY <1>2, <2>2, <3>2 DEF Exact
    <3>4. A(w) \in Nat /\ F(w) \in Nat /\ A(w)' \in Nat /\ F(w)' \in Nat
      BY <1>7, <1>14
    <3> QED
      BY <1>1, <1>14, <3>3, <3>4
  <2> QED
    BY <2>1, <2>2
<1> QED
  BY <1>17, <1>18

(* Every step keeps what holds of the clients whose requests do not overlap. *)
LEMMA AloneStep ==
  ASSUME IInv, [Next]_vars
  PROVE  AloneInv'
<1> SUFFICES ASSUME NEW c \in Client, c \notin overlapped'
             PROVE  (Alone(c) /\ Exact(c))'
  BY DEF AloneInv
<1>1. admitted \subseteq Request
  BY DEF IInv, Types
<1>2. ASSUME NEW r \in Request, NEW at \in Checking \cup Ended, Move(r, at), c \notin overlapped,
             bucket'[c] = bucket[c],
             ClientOf[r] = c =>
               /\ admitted' = admitted
               /\ req[r].at \notin Checking \cup {"limited", "failed"}
               /\ at \notin Checking \cup {"limited", "failed"},
             admitted' \in {admitted, admitted \cup {r}}
      PROVE  (Alone(c) /\ Exact(c))'
  <2>1. /\ req'[r].at = at /\ req'[r].start = req[r].start
        /\ \A s \in Request : s # r => req'[s] = req[s]
    BY <1>2, Moved DEF IInv
  <2>2. admitted' \subseteq Request
    BY <1>1, <1>2
  <2>3. ASSUME NEW s \in Request, ClientOf[s] = c
        PROVE  /\ s \in admitted' <=> s \in admitted
               /\ req'[s].start = req[s].start
               /\ \/ req'[s].at = req[s].at
                  \/ /\ req[s].at \notin Checking \cup {"limited", "failed"}
                     /\ req'[s].at \notin Checking \cup {"limited", "failed"}
    <3>1. CASE s = r
      BY <1>2, <2>1, <2>3, <3>1
    <3>2. CASE s # r
      BY <1>2, <2>1, <3>2
    <3> QED
      BY <3>1, <3>2
  <2> QED
    BY <1>2, <2>2, <2>3, QuietStep
<1>3. ASSUME NEW r \in Request, Malformed(r) \/ Rejected(r) \/ Insert(r) \/ InsertErr(r)
      PROVE  (Alone(c) /\ Exact(c))'
  <2>1. PICK at \in {"invalid", "thanks", "error"} : Move(r, at)
    BY <1>3 DEF Malformed, Rejected, Insert, InsertErr
  <2>2. /\ req[r].at \in {"new", "admitted"} /\ UNCHANGED <<bucket, admitted, overlapped>>
    BY <1>3 DEF Malformed, Rejected, Insert, InsertErr, At
  <2> QED
    BY <1>2, <2>1, <2>2 DEF Checking, Ended
<1>4. ASSUME NEW r \in Request, Check(r)
      PROVE  (Alone(c) /\ Exact(c))'
  <2>1. CASE ClientOf[r] = c
    BY <1>4, <2>1, CheckStep
  <2>2. CASE ClientOf[r] # c
    <3>1. c \notin overlapped /\ UNCHANGED <<bucket, admitted>>
      BY <1>4 DEF Check
    <3>2. \A s \in Request : s # r => req'[s] = req[s]
      BY <1>4 DEF Check, IInv, Types
    <3> QED
      BY <1>1, <2>2, <3>1, <3>2, QuietStep
  <2> QED
    BY <2>1, <2>2
<1>5. ASSUME NEW r \in Request, Select(r)
      PROVE  (Alone(c) /\ Exact(c))'
  <2>0. UNCHANGED <<bucket, admitted, overlapped>>
    BY <1>5 DEF Select
  <2>1. CASE ClientOf[r] = c
    BY <1>5, <2>0, <2>1, SelectStep
  <2>2. CASE ClientOf[r] # c
    <3>1. PICK at \in {"restart", "limited", "count"} : Move(r, at)
      BY <1>5 DEF Select
    <3> QED
      BY <1>2, <2>0, <2>2, <3>1 DEF Checking, Ended
  <2> QED
    BY <2>1, <2>2
<1>6. ASSUME NEW r \in Request, Admit(r) \/ CheckErr(r)
      PROVE  (Alone(c) /\ Exact(c))'
  <2>0. overlapped' = overlapped
    BY <1>6 DEF Admit, CheckErr
  <2>1. CASE ClientOf[r] = c
    BY <1>6, <2>0, <2>1, LeaveStep
  <2>2. CASE ClientOf[r] # c
    <3>1. PICK at \in {"admitted", "failed"} : Move(r, at)
      BY <1>6 DEF Admit, CheckErr
    <3>2. bucket' \in {bucket, Counted(r)} /\ admitted' \in {admitted, admitted \cup {r}}
      BY <1>6 DEF Admit, CheckErr
    <3>3. bucket'[c] = bucket[c]
      BY <2>2, <3>2, CountedRow DEF IInv
    <3> QED
      BY <1>2, <2>0, <2>2, <3>1, <3>2, <3>3 DEF Ended
  <2> QED
    BY <2>1, <2>2
<1>7. CASE NextWindow \/ UNCHANGED vars
  <2>1. UNCHANGED <<bucket, req, admitted, overlapped>>
    BY <1>7 DEF NextWindow, vars
  <2> QED
    BY <1>1, <2>1, QuietStep
<1> QED
  BY <1>3, <1>4, <1>5, <1>6, <1>7 DEF Next

-----------------------------------------------------------------------------
(* The theorems *)

(* The invariant holds in every behaviour. *)
LEMMA Invariant == Spec => []IInv
<1>1. IInv /\ [Next]_vars => IInv'
  BY ListStep, AloneStep DEF IInv
<1> QED
  BY InitInvariant, <1>1, PTL DEF Spec

(* Whoever is thanked is on the list, and the list holds only submissions  *)
(* that were admitted and valid (waitlist.ts, POST), for any requests.     *)
THEOREM ThanksStored == Spec => []ThanksMeansStored
<1>1. IInv => ThanksMeansStored
  BY DEF IInv
<1> QED
  BY <1>1, Invariant, PTL

(* For any limit, and any number of requests and windows: a client whose   *)
(* requests do not meet in checkRateLimit is admitted at most Limit times  *)
(* in a window and refused only when the window is used up.                *)
THEOREM AloneExact == Spec => []AloneLimitIsExact
<1>1. IInv => AloneLimitIsExact
  BY DEF IInv, AloneInv, Exact, AloneLimitIsExact
<1> QED
  BY <1>1, Invariant, PTL

=============================================================================
