--------------------------- MODULE SessionsProofs ---------------------------
(***************************************************************************)
(* Theorems about Sessions, for any number of sessions, browsers and calls *)
(* at once, and any thresholds.                                            *)
(***************************************************************************)
EXTENDS Sessions, FiniteSetTheorems, TLAPS

-----------------------------------------------------------------------------
(* Counting the calls at some stages. *)

LEMMA StagesFinite ==
  ASSUME NEW stages
  PROVE  /\ IsFiniteSet(Waiting(stages))
         /\ Cardinality(Waiting(stages)) \in Nat
         /\ Cardinality(Waiting(stages)) <= Cardinality(Request)
         /\ Cardinality(Request) \in Nat
<1>1. Waiting(stages) \subseteq Request
  BY DEF Waiting
<1> QED
  BY <1>1, RequestAssumption, FS_Subset, FS_CardinalityType

(* What one call's next stage does to such a count. *)
LEMMA Counted ==
  ASSUME req \in [Request -> Stage], NEW q \in Request, NEW x \in Stage, Go(q, x),
         NEW stages
  PROVE  /\ req' \in [Request -> Stage]
         /\ Cardinality(Waiting(stages)) \in Nat
         /\ Cardinality(Waiting(stages))' \in Nat
         /\ req[q].at \in stages /\ x.at \notin stages =>
              Cardinality(Waiting(stages))' = Cardinality(Waiting(stages)) - 1
         /\ req[q].at \notin stages /\ x.at \in stages =>
              Cardinality(Waiting(stages))' = Cardinality(Waiting(stages)) + 1
         /\ (req[q].at \in stages <=> x.at \in stages) =>
              Cardinality(Waiting(stages))' = Cardinality(Waiting(stages))
<1>1. req' = [req EXCEPT ![q] = x]
  BY DEF Go
<1>2. /\ IsFiniteSet(Waiting(stages)) /\ Cardinality(Waiting(stages)) \in Nat
  BY StagesFinite
<1>3. req' \in [Request -> Stage] /\ req'[q] = x
  BY <1>1
<1>4. CASE x.at \in stages
  <2>1. Waiting(stages)' = Waiting(stages) \cup {q}
    BY <1>1, <1>4 DEF Waiting
  <2>2. q \in Waiting(stages) <=> req[q].at \in stages
    BY DEF Waiting
  <2>3. Cardinality(Waiting(stages) \cup {q})
          = IF q \in Waiting(stages) THEN Cardinality(Waiting(stages))
            ELSE Cardinality(Waiting(stages)) + 1
    BY <1>2, FS_AddElement
  <2> QED
    BY <1>3, <1>2, <1>4, <2>1, <2>2, <2>3
<1>5. CASE x.at \notin stages
  <2>1. Waiting(stages)' = Waiting(stages) \ {q}
    BY <1>1, <1>5 DEF Waiting
  <2>2. q \in Waiting(stages) <=> req[q].at \in stages
    BY DEF Waiting
  <2>3. Cardinality(Waiting(stages) \ {q})
          = IF q \in Waiting(stages) THEN Cardinality(Waiting(stages)) - 1
            ELSE Cardinality(Waiting(stages))
    BY <1>2, FS_RemoveElement
  <2>4. Cardinality(Waiting(stages) \ {q}) \in Nat
    BY <1>2, FS_RemoveElement, FS_CardinalityType
  <2> QED
    BY <1>3, <1>2, <1>5, <2>1, <2>2, <2>3, <2>4
<1> QED
  BY <1>4, <1>5
-----------------------------------------------------------------------------
(* What the bounds of the model guarantee: no session makes more tokens    *)
(* than are numbered, and changes stop in time.                            *)

TokensBound  == \A s \in Session : Issued(s) + Cardinality(Rotators) <= MaxIssued
ChangesBound == account.changes + Cardinality(Changers) <= MaxChanges

(* Failures are counted with the logins that may still fail. *)
FailuresInv ==
  failures + Cardinality(Entrants) <= Threshold - 1 + Cardinality(Request)

Inv == TypeOK /\ TokensBound /\ ChangesBound /\ FailuresInv

(* A call that moves to stage x, and what that does to the three counts.   *)
LEMMA Advance ==
  ASSUME Inv, NEW q \in Request, NEW x \in Stage, Go(q, x)
  PROVE  LET before == req[q].at
             after  == x.at
             delta(stages) == (IF after \in stages THEN 1 ELSE 0)
                              - (IF before \in stages THEN 1 ELSE 0)
         IN  /\ req' \in [Request -> Stage]
             /\ Cardinality(Rotators) \in Nat /\ Cardinality(Changers) \in Nat
             /\ Cardinality(Entrants) \in Nat /\ Cardinality(Request) \in Nat
             /\ Cardinality(Entrants)' <= Cardinality(Request)
             /\ Cardinality(Rotators)' = Cardinality(Rotators)
                  + delta({"denied", "refreshing", "rotating"})
             /\ Cardinality(Changers)' = Cardinality(Changers)
                  + delta({"changing", "moving", "resetting"})
             /\ Cardinality(Entrants)' = Cardinality(Entrants) + delta({"allowed"})
<1>1. req \in [Request -> Stage]
  BY DEF Inv, TypeOK
<1>2. /\ Cardinality(Request) \in Nat
      /\ Cardinality(Entrants)' <= Cardinality(Request)
  <2>1. Waiting({"allowed"})' \subseteq Request
    BY DEF Waiting
  <2> QED
    BY <2>1, RequestAssumption, FS_Subset, FS_CardinalityType DEF Entrants
<1>3. /\ Cardinality(Rotators) \in Nat
      /\ Cardinality(Rotators)' = Cardinality(Rotators)
           + (IF x.at \in {"denied", "refreshing", "rotating"} THEN 1 ELSE 0)
           - (IF req[q].at \in {"denied", "refreshing", "rotating"} THEN 1 ELSE 0)
  BY <1>1, Counted DEF Rotators
<1>4. /\ Cardinality(Changers) \in Nat
      /\ Cardinality(Changers)' = Cardinality(Changers)
           + (IF x.at \in {"changing", "moving", "resetting"} THEN 1 ELSE 0)
           - (IF req[q].at \in {"changing", "moving", "resetting"} THEN 1 ELSE 0)
  BY <1>1, Counted DEF Changers
<1>5. /\ Cardinality(Entrants) \in Nat
      /\ Cardinality(Entrants)' = Cardinality(Entrants)
           + (IF x.at \in {"allowed"} THEN 1 ELSE 0)
           - (IF req[q].at \in {"allowed"} THEN 1 ELSE 0)
  BY <1>1, Counted DEF Entrants
<1>6. req' \in [Request -> Stage]
  BY <1>1 DEF Go
<1> QED
  BY <1>2, <1>3, <1>4, <1>5, <1>6

(* What each stage carries. *)
LEMMA Carried ==
  ASSUME Inv, NEW q \in Request
  PROVE  /\ req[q].at \in {"denied", "refused", "leaving"} => req[q] \in Wrapped
         /\ req[q].at \in {"refreshing", "rotating", "rotated", "resent"}
              => req[q] \in Refresher
         /\ req[q].at \in {"allowed", "issuing"} => req[q] \in SigningIn
         /\ req[q].at = "greeting" => req[q] \in Greeting
         /\ req[q].at = "answered" => req[q] \in Answered
         /\ req[q].at = "mailing" => req[q] \in Mailing
         /\ req[q].at = "resetting" => req[q] \in Resetting
         /\ req[q].at = "verifying" => req[q] \in Verifying
         /\ req[q].at = "changing" => req[q] \in Changing
         /\ req[q].at = "moving" => req[q] \in Moving
<1>1. req[q] \in Stage
  BY DEF Inv, TypeOK
<1> QED
  BY <1>1 DEF Stage, Idle, Wrapped, Refresher, SigningIn, Greeting, Answered,
              Mailing, Forgot, Resetting, Verifying, Changing, Moving

(* A step that takes no more room than it leaves keeps the bounds. *)
LEMMA CountsKept ==
  ASSUME Inv, NEW q \in Request, NEW x \in Stage, Go(q, x),
         x.at \in {"denied", "refreshing", "rotating"}
           => req[q].at \in {"denied", "refreshing", "rotating"},
         x.at \in {"changing", "moving", "resetting"}
           => req[q].at \in {"changing", "moving", "resetting"},
         x.at # "allowed",
         \A s \in Session : Issued(s) \in Nat /\ Issued(s)' \in Nat
                              /\ Issued(s)' <= Issued(s),
         account'.changes = account.changes, failures' = failures
  PROVE  TokensBound' /\ ChangesBound' /\ FailuresInv'
<1>1. /\ Cardinality(Rotators) \in Nat /\ Cardinality(Rotators)' \in Nat
      /\ Cardinality(Rotators)' <= Cardinality(Rotators)
  BY Counted DEF Inv, TypeOK, Rotators
<1>2. /\ Cardinality(Changers) \in Nat /\ Cardinality(Changers)' \in Nat
      /\ Cardinality(Changers)' <= Cardinality(Changers)
  BY Counted DEF Inv, TypeOK, Changers
<1>3. /\ Cardinality(Entrants) \in Nat /\ Cardinality(Entrants)' \in Nat
      /\ Cardinality(Entrants)' <= Cardinality(Entrants)
  BY Counted DEF Inv, TypeOK, Entrants
<1>4. Cardinality(Request) \in Nat
  BY RequestAssumption, FS_CardinalityType
<1>5. TokensBound'
  <2> SUFFICES ASSUME NEW s \in Session
               PROVE  Issued(s)' + Cardinality(Rotators)' <= MaxIssued
    BY DEF TokensBound
  <2>1. Issued(s) + Cardinality(Rotators) <= MaxIssued
    BY DEF Inv, TokensBound
  <2>2. Issued(s) \in Nat /\ Issued(s)' \in Nat /\ Issued(s)' <= Issued(s)
    OBVIOUS
  <2> QED
    BY <1>1, <2>1, <2>2, BoundAssumption
<1>6. ChangesBound'
  <2>1. account.changes \in Nat
    BY BoundAssumption DEF Inv, TypeOK, Account
  <2> QED
    BY <1>2, <2>1, BoundAssumption DEF Inv, ChangesBound
<1>7. FailuresInv'
  <2>1. failures \in Nat
    BY DEF Inv, TypeOK
  <2> QED
    BY <1>3, <1>4, <2>1, BoundAssumption DEF Inv, FailuresInv
<1> QED
  BY <1>5, <1>6, <1>7

(* The stages a call may move to, with what it carries. *)
LEMMA Stages ==
  /\ Idle \in Stage /\ [at |-> "forgot"] \in Stage
  /\ \A b \in Browser, op \in {"read", "logout"} :
       \A a \in {"denied", "refused", "leaving"} :
         [at |-> a, op |-> op, browser |-> b] \in Stage
  /\ \A b \in Browser, op \in {"read", "logout"}, t \in Token :
       \A a \in {"refreshing", "rotating", "rotated", "resent"} :
         [at |-> a, op |-> op, browser |-> b, token |-> t] \in Stage
  /\ \A b \in Browser : \A a \in {"allowed", "issuing"} :
       [at |-> a, browser |-> b] \in Stage
  /\ \A b \in Browser, e \in Address :
       [at |-> "greeting", browser |-> b, email |-> e] \in Stage
  /\ \A b \in Browser, t \in Token :
       [at |-> "answered", browser |-> b, token |-> t] \in Stage
  /\ \A e \in Address : /\ [at |-> "mailing", email |-> e] \in Stage
                        /\ [at |-> "moving", email |-> e] \in Stage
  /\ \A r \in ResetToken : [at |-> "resetting", token |-> r] \in Stage
  /\ \A m \in MailToken : [at |-> "verifying", token |-> m] \in Stage
  /\ \A s \in Session : [at |-> "changing", sid |-> s] \in Stage
BY DEF Stage, Idle, Wrapped, Refresher, SigningIn, Greeting, Answered, Mailing,
       Forgot, Resetting, Verifying, Changing, Moving

LEMMA TokenParts ==
  /\ \A t \in Token : Of(t) \in Session /\ Nr(t) \in Number /\ t # NoToken
                      /\ t = <<Of(t), Nr(t)>>
  /\ \A s \in Session, n \in Number : <<s, n>> \in Token
  /\ 1 \in Number
<1>1. Number \subseteq Nat
  BY DEF Number
<1>2. \A t \in Token : Of(t) \in Session /\ Nr(t) \in Number
                       /\ t = <<Of(t), Nr(t)>>
  BY DEF Token, Of, Nr
<1>3. \A t \in Token : t \in Session \X Nat
  BY <1>1 DEF Token
<1>4. \A s \in Session, n \in Number : <<s, n>> \in Token
  BY DEF Token
<1>5. 1 \in Number
  BY BoundAssumption DEF Number
<1> QED
  BY <1>2, <1>3, <1>4, <1>5, TokenAssumption

LEMMA IssuedNat ==
  ASSUME Inv
  PROVE  \A s \in Session : Issued(s) \in Nat /\ Issued(s) >= 1
                              /\ Issued(s) >= session[s].hash
BY BoundAssumption DEF Inv, TypeOK, Row, Issued

(* rotateSession: the token it makes has been allowed for. *)
LEMMA RotateKeeps ==
  ASSUME Inv, NEW q \in Request, Rotate(q)
  PROVE  Inv'
<1> DEFINE s == Of(req[q].token)
           x == Carry("rotated", q, <<s, session[s].hash + 1>>)
<1>1. req[q] \in Refresher /\ req[q].at = "rotating"
  BY Carried DEF Rotate, At
<1>2. s \in Session /\ session[s] \in Row /\ session[s].hash \in Nat
  <2>1. req[q].token \in Token
    BY <1>1 DEF Refresher
  <2> QED
    BY <2>1, TokenParts, BoundAssumption DEF Inv, TypeOK, Row
<1>3. Cardinality(Rotators) \in Nat /\ Cardinality(Rotators) >= 1
  <2>1. q \in Rotators /\ IsFiniteSet(Rotators)
    BY <1>1, StagesFinite DEF Rotators, Waiting
  <2> QED
    BY <2>1, FS_EmptySet, FS_CardinalityType
<1>4. session[s].hash + 1 \in Number
  <2>1. Issued(s) + Cardinality(Rotators) <= MaxIssued
    BY <1>2 DEF Inv, TokensBound
  <2> QED
    BY <1>2, <1>3, <2>1, IssuedNat, BoundAssumption DEF Number
<1>5. x \in Stage /\ x.at = "rotated"
  BY <1>1, <1>2, <1>4, Stages, TokenParts DEF Carry, Refresher
<1>6. Go(q, x)
  BY DEF Rotate
<1>7. session' = [session EXCEPT ![s] = RowRotated(@)]
  BY DEF Rotate
<1>8. RowRotated(session[s]) \in Row
  BY <1>2, <1>4 DEF RowRotated, Row, Number
<1>9. TypeOK'
  <2>1. req' \in [Request -> Stage]
    BY <1>5, <1>6 DEF Go, Inv, TypeOK
  <2>2. session' \in [Session -> Row]
    BY <1>2, <1>7, <1>8 DEF Inv, TypeOK
  <2> QED
    BY <2>1, <2>2 DEF Inv, TypeOK, Rotate, logs
<1>10. TokensBound'
  <2> SUFFICES ASSUME NEW p \in Session
               PROVE  Issued(p)' + Cardinality(Rotators)' <= MaxIssued
    BY DEF TokensBound
  <2>1. /\ Cardinality(Rotators) \in Nat
        /\ Cardinality(Rotators)' = Cardinality(Rotators) - 1
    BY <1>1, <1>5, <1>6, Counted DEF Inv, TypeOK, Rotators
  <2>2. Issued(p) \in Nat /\ Issued(p) + Cardinality(Rotators) <= MaxIssued
    BY IssuedNat DEF Inv, TokensBound
  <2>3. Issued(p)' \in Nat /\ Issued(p)' <= Issued(p) + 1
    <3>1. CASE p = s
      <4>1. session'[s].hash = session[s].hash + 1
        BY <1>2, <1>7 DEF RowRotated, Row, Inv, TypeOK
      <4> QED
        BY <1>2, <3>1, <4>1, IssuedNat DEF Issued
    <3>2. CASE p # s
      BY <1>7, <2>2, <3>2 DEF Issued, Inv, TypeOK
    <3> QED
      BY <3>1, <3>2
  <2> QED
    BY <2>1, <2>2, <2>3, BoundAssumption
<1>11. ChangesBound'
  <2>1. Cardinality(Changers)' = Cardinality(Changers)
    BY <1>1, <1>5, <1>6, Counted DEF Inv, TypeOK, Changers
  <2> QED
    BY <2>1 DEF Inv, ChangesBound, Rotate
<1>12. FailuresInv'
  <2>1. Cardinality(Entrants)' = Cardinality(Entrants)
    BY <1>1, <1>5, <1>6, Counted DEF Inv, TypeOK, Entrants
  <2> QED
    BY <2>1 DEF Inv, FailuresInv, Rotate
<1> QED
  BY <1>9, <1>10, <1>11, <1>12 DEF Inv

(* TypeOK but for the calls under way. *)
RowsOK ==
  /\ account \in Account
  /\ session \in [Session -> Row]
  /\ store \in [Browser -> Token \cup {NoToken}]
  /\ reset \in [ResetToken -> {"none", "unused", "spent"}]
  /\ mail \in [MailToken -> [state : {"none", "unused", "spent"}, email : Address]]
  /\ failures \in Nat
  /\ lost \in 0..MaxLost
  /\ disturbed \subseteq Session
  /\ proved \subseteq Address

(* Steps that make no token, no failure and no change of the account. *)
LEMMA PlainKeeps ==
  ASSUME Inv, NEW q \in Request, NEW x \in Stage, Go(q, x),
         RowsOK',
         x.at \in {"denied", "refreshing", "rotating"}
           => req[q].at \in {"denied", "refreshing", "rotating"},
         x.at \in {"changing", "moving", "resetting"}
           => req[q].at \in {"changing", "moving", "resetting"},
         x.at # "allowed",
         \A s \in Session : session'[s].hash \in {session[s].hash, 1},
         account'.changes = account.changes, failures' = failures
  PROVE  Inv'
<1>1. TypeOK'
  BY DEF TypeOK, RowsOK, Inv, Go
<1>2. \A s \in Session : /\ Issued(s) \in Nat /\ Issued(s)' \in Nat
                         /\ Issued(s)' <= Issued(s)
  <2> SUFFICES ASSUME NEW s \in Session
               PROVE  /\ Issued(s) \in Nat /\ Issued(s)' \in Nat
                      /\ Issued(s)' <= Issued(s)
    OBVIOUS
  <2>1. CASE session'[s].hash = session[s].hash
    BY <2>1, IssuedNat DEF Issued
  <2>2. CASE session'[s].hash = 1
    BY <2>2, IssuedNat DEF Issued
  <2> QED
    BY <2>1, <2>2
<1> QED
  BY <1>1, <1>2, CountsKept DEF Inv

(* Steps of the server that no call is about. *)
LEMMA ClockKeeps ==
  ASSUME Inv, RowsOK', req' = req, account' = account,
         \A s \in Session : session'[s].hash = session[s].hash,
         failures' \in Nat, failures' <= failures
  PROVE  Inv'
<1>1. /\ Rotators' = Rotators /\ Changers' = Changers /\ Entrants' = Entrants
  BY DEF Rotators, Changers, Entrants, Waiting
<1>2. \A s \in Session : Issued(s)' = Issued(s)
  BY DEF Issued
<1>3. Cardinality(Entrants) \in Nat /\ Cardinality(Request) \in Nat
  BY StagesFinite DEF Entrants
<1>4. FailuresInv'
  BY <1>1, <1>3, BoundAssumption DEF Inv, FailuresInv, TypeOK
<1> QED
  BY <1>1, <1>2, <1>4 DEF Inv, TypeOK, RowsOK, TokensBound, ChangesBound

LEMMA RevokedRows ==
  ASSUME session \in [Session -> Row], NEW which
  PROVE  /\ Revoked(which) \in [Session -> Row]
         /\ \A s \in Session : /\ Revoked(which)[s].hash = session[s].hash
                               /\ Revoked(which)[s].since = session[s].since
BY DEF Revoked, Row

(* Signing in and registering. *)
LEMMA SignInKeeps ==
  ASSUME Inv, NEW q \in Request,
         \/ \E b \in Browser : AllowLogin(q, b)
                               \/ \E a \in Address : Register(q, b, a)
         \/ LoginFails(q) \/ LoginChecked(q) \/ IssueSession(q)
         \/ SaveSession(q) \/ LoseLogin(q) \/ CreateMail(q)
  PROVE  Inv'
<1>0. RowsOK /\ req \in [Request -> Stage]
  BY DEF Inv, TypeOK, RowsOK
<1> USE DEF At
<1>1. ASSUME NEW b \in Browser, AllowLogin(q, b) PROVE Inv'
  <2> DEFINE x == [at |-> "allowed", browser |-> b]
  <2>1. x \in Stage /\ Go(q, x) /\ x.at = "allowed" /\ req[q].at = "idle"
    BY <1>1, Stages DEF AllowLogin
  <2>2. TypeOK'
    BY <1>1, <2>1 DEF Inv, TypeOK, AllowLogin, rows, logs, Go
  <2>3. TokensBound' /\ ChangesBound'
    <3>1. /\ Cardinality(Rotators)' = Cardinality(Rotators)
          /\ Cardinality(Changers)' = Cardinality(Changers)
      BY <1>0, <2>1, Counted DEF Rotators, Changers
    <3> QED
      BY <1>1, <3>1 DEF Inv, TokensBound, ChangesBound, Issued, AllowLogin, rows
  <2>4. FailuresInv'
    <3>1. Cardinality(Entrants)' \in Nat
          /\ Cardinality(Entrants)' <= Cardinality(Request)
          /\ Cardinality(Request) \in Nat
      <4>1. Waiting({"allowed"})' \subseteq Request
        BY DEF Waiting
      <4> QED
        BY <4>1, RequestAssumption, FS_Subset, FS_CardinalityType DEF Entrants
    <3>2. failures' = failures /\ failures <= Threshold - 1
      BY <1>1, BoundAssumption DEF AllowLogin, LoginAllowed, rows, Inv, TypeOK
    <3> QED
      BY <3>1, <3>2, BoundAssumption DEF FailuresInv, Inv, TypeOK
  <2> QED
    BY <2>2, <2>3, <2>4 DEF Inv
<1>2. ASSUME NEW b \in Browser, NEW a \in Address, Register(q, b, a) PROVE Inv'
  <2> DEFINE x == [at |-> "greeting", browser |-> b, email |-> a]
  <2>1. x \in Stage /\ Go(q, x) /\ x.at = "greeting"
    BY <1>2, Stages DEF Register
  <2>2. account' \in Account /\ account'.changes = account.changes
    BY <1>0, <1>2 DEF Register, RowsOK, Account
  <2>3. RowsOK'
    BY <1>0, <1>2, <2>2 DEF RowsOK, Register, logs
  <2> QED
    BY <1>2, <2>1, <2>2, <2>3, PlainKeeps DEF Register
<1>3. CASE LoginFails(q)
  <2>1. Idle \in Stage /\ Go(q, Idle) /\ Idle.at = "idle" /\ req[q].at = "allowed"
    BY <1>3, Stages DEF LoginFails, Done, Idle
  <2>2. TypeOK'
    BY <1>3, <2>1 DEF Inv, TypeOK, LoginFails, logs, Go
  <2>3. TokensBound' /\ ChangesBound'
    <3>1. /\ Cardinality(Rotators)' = Cardinality(Rotators)
          /\ Cardinality(Changers)' = Cardinality(Changers)
      BY <1>0, <2>1, Counted DEF Rotators, Changers
    <3> QED
      BY <1>3, <3>1 DEF Inv, TokensBound, ChangesBound, Issued, LoginFails
  <2>4. FailuresInv'
    <3>1. /\ Cardinality(Entrants) \in Nat
          /\ Cardinality(Entrants)' = Cardinality(Entrants) - 1
      BY <1>0, <2>1, Counted DEF Entrants
    <3>2. Cardinality(Request) \in Nat
      BY RequestAssumption, FS_CardinalityType
    <3> QED
      BY <1>3, <3>1, <3>2, BoundAssumption
      DEF FailuresInv, Inv, TypeOK, LoginFails
  <2> QED
    BY <2>2, <2>3, <2>4 DEF Inv
<1>4. CASE LoginChecked(q)
  <2> DEFINE x == [at |-> "issuing", browser |-> req[q].browser]
  <2>1. req[q].browser \in Browser
    BY <1>4, Carried DEF LoginChecked, SigningIn
  <2>2. x \in Stage /\ Go(q, x) /\ x.at = "issuing"
    BY <1>4, <2>1, Stages DEF LoginChecked
  <2> QED
    BY <1>0, <1>4, <2>2, PlainKeeps DEF LoginChecked, RowsOK, rows, logs
<1>5. CASE IssueSession(q)
  <2>1. PICK s \in Session :
          /\ session' = [session EXCEPT ![s] =
               [status |-> "active", hash |-> 1, since |-> account.changes]]
          /\ Go(q, [at |-> "answered", browser |-> req[q].browser,
                    token |-> <<s, 1>>])
    BY <1>5 DEF IssueSession
  <2> DEFINE x == [at |-> "answered", browser |-> req[q].browser, token |-> <<s, 1>>]
  <2>2. req[q].browser \in Browser
    BY <1>5, Carried DEF IssueSession, SigningIn
  <2>3. x \in Stage /\ x.at = "answered"
    BY <2>2, Stages, TokenParts
  <2>4. session' \in [Session -> Row]
    BY <1>0, <2>1, BoundAssumption DEF RowsOK, Row, Account
  <2>5. \A p \in Session : session'[p].hash \in {session[p].hash, 1}
    BY <1>0, <2>1 DEF RowsOK
  <2>6. RowsOK' /\ account' = account /\ failures' = failures
    BY <1>0, <1>5, <2>4 DEF RowsOK, IssueSession, logs
  <2> QED
    BY <2>1, <2>3, <2>5, <2>6, PlainKeeps
<1>6. CASE SaveSession(q)
  <2>1. req[q].token \in Token
    BY <1>6, Carried DEF SaveSession, Answered
  <2>2. Idle \in Stage /\ Go(q, Idle) /\ Idle.at = "idle"
    BY <1>6, Stages DEF SaveSession, Done, Idle
  <2>3. RowsOK'
    BY <1>0, <1>6, <2>1 DEF RowsOK, SaveSession, rows, logs
  <2> QED
    BY <1>6, <2>2, <2>3, PlainKeeps DEF SaveSession, rows
<1>7. CASE LoseLogin(q)
  <2>1. Idle \in Stage /\ Go(q, Idle) /\ Idle.at = "idle"
    BY <1>7, Stages DEF LoseLogin, Done, Idle
  <2>2. RowsOK'
    BY <1>0, <1>7, BoundAssumption DEF RowsOK, LoseLogin, rows
  <2> QED
    BY <1>7, <2>1, <2>2, PlainKeeps DEF LoseLogin, rows
<1>8. CASE CreateMail(q)
  <2>1. req[q].email \in Address
        /\ (req[q].at = "greeting" => req[q].browser \in Browser)
    BY <1>8, Carried DEF CreateMail, Greeting, Mailing
  <2>2. RowsOK'
    BY <1>0, <1>8, <2>1 DEF RowsOK, CreateMail, logs
  <2>3. PICK x \in Stage : Go(q, x) /\ x.at \in {"issuing", "idle"}
    BY <1>8, <2>1, Stages DEF CreateMail, Done, Idle
  <2> QED
    BY <1>8, <2>2, <2>3, PlainKeeps DEF CreateMail
<1> QED
  BY <1>1, <1>2, <1>3, <1>4, <1>5, <1>6, <1>7, <1>8

(* Calls of a signed-in browser, up to the refresh. *)
LEMMA DeniedKeeps ==
  ASSUME Inv, NEW q \in Request, NEW b \in Browser, NEW op \in {"read", "logout"},
         Denied(q, b, op)
  PROVE  Inv'
<1> DEFINE x == [at |-> "denied", op |-> op, browser |-> b]
<1>1. req \in [Request -> Stage]
  BY DEF Inv, TypeOK
<1>2. x \in Stage /\ Go(q, x) /\ x.at = "denied" /\ req[q].at = "idle"
  BY Stages DEF Denied, At
<1>3. TypeOK'
  BY <1>2 DEF Inv, TypeOK, Denied, rows, logs, Go
<1>4. /\ Cardinality(Changers)' = Cardinality(Changers)
      /\ Cardinality(Entrants)' = Cardinality(Entrants)
  BY <1>1, <1>2, Counted DEF Changers, Entrants
<1>5. /\ Cardinality(Rotators)' = Cardinality(Rotators) + 1
      /\ Cardinality(Rotators) \in Nat
  BY <1>1, <1>2, Counted DEF Rotators
<1>6. /\ Cardinality(Rotators) <= Cardinality(UnderWay)
      /\ Cardinality(UnderWay) \in Nat
  <2>1. Rotators \subseteq UnderWay /\ UnderWay \subseteq Request
    BY DEF Rotators, UnderWay, Waiting
  <2>2. IsFiniteSet(UnderWay)
    BY <2>1, RequestAssumption, FS_Subset
  <2> QED
    BY <2>1, <2>2, FS_Subset, FS_CardinalityType
<1>7. TokensBound'
  <2> SUFFICES ASSUME NEW s \in Session
               PROVE  Issued(s)' + Cardinality(Rotators)' <= MaxIssued
    BY DEF TokensBound
  <2>1. Issued(s) \in Nat /\ Issued(s)' = Issued(s)
    BY IssuedNat DEF Issued, Denied, rows
  <2>2. Issued(s) + Cardinality(UnderWay) < MaxIssued
    BY DEF Denied, TokensLeft
  <2> QED
    BY <1>5, <1>6, <2>1, <2>2, BoundAssumption
<1> QED
  BY <1>3, <1>4, <1>7 DEF Inv, ChangesBound, FailuresInv, Denied, rows

LEMMA AfterStage ==
  ASSUME NEW q \in Request, NEW b \in Browser, NEW op \in {"read", "logout"},
         After(q, b, op)
  PROVE  \E x \in Stage : Go(q, x) /\ x.at \in {"leaving", "idle"}
BY Stages DEF After, Done, Idle

LEMMA ServeKeeps ==
  ASSUME Inv, NEW q \in Request, NEW b \in Browser, NEW t, Serve(q, b, t)
  PROVE  Inv'
<1>0. RowsOK
  BY DEF Inv, TypeOK, RowsOK
<1>1. CASE Read(q, b, t)
  <2>1. PICK x \in Stage : Go(q, x) /\ x.at \in {"leaving", "idle"}
    BY <1>1, AfterStage DEF Read
  <2>2. RowsOK'
    BY <1>0, <1>1 DEF Read, RowsOK, rows, logs
  <2> QED
    BY <1>1, <2>1, <2>2, PlainKeeps DEF Read, rows
<1>2. CASE Logout(q, b, t)
  <2>1. PICK x \in Stage : Go(q, x) /\ x.at \in {"leaving", "idle"}
    BY <1>2, AfterStage DEF Logout
  <2>2. /\ session' \in [Session -> Row]
        /\ \A s \in Session : session'[s].hash = session[s].hash
    BY <1>0, <1>2, RevokedRows DEF Logout, RowsOK
  <2>3. RowsOK'
    BY <1>0, <1>2, <2>2 DEF Logout, RowsOK, logs
  <2> QED
    BY <1>2, <2>1, <2>2, <2>3, PlainKeeps DEF Logout
<1> QED
  BY <1>1, <1>2 DEF Serve

(* The refresh, but for the rotation itself. *)
LEMMA RefreshKeeps ==
  ASSUME Inv, NEW q \in Request,
         \/ Refresh(q) \/ RefuseRefresh(q) \/ DetectReuse(q) \/ AcceptRefresh(q)
         \/ SaveRefreshed(q) \/ LoseRefresh(q) \/ GiveUp(q)
         \/ DeniedAgain(q) \/ Leave(q)
  PROVE  Inv'
<1>0. RowsOK
  BY DEF Inv, TypeOK, RowsOK
<1> USE DEF At
<1>a. /\ req[q].at \in {"refreshing", "rotating", "rotated", "resent"}
           => /\ req[q].token \in Token /\ Of(req[q].token) \in Session
              /\ req[q].browser \in Browser /\ req[q].op \in {"read", "logout"}
      /\ req[q].at \in {"denied", "refused", "leaving"}
           => req[q].browser \in Browser /\ req[q].op \in {"read", "logout"}
  BY Carried, TokenParts DEF Refresher, Wrapped
<1>b. Idle \in Stage /\ Idle.at = "idle"
  BY Stages DEF Idle
<1>1. CASE Refresh(q)
  <2> DEFINE t == store[req[q].browser]
  <2>1. req[q].at = "denied" /\ t \in Token \cup {NoToken}
    BY <1>0, <1>1, <1>a DEF Refresh, RowsOK
  <2>2. CASE t = NoToken
    <3>1. PICK x \in Stage : Go(q, x) /\ x.at = "refused"
      BY <1>1, <1>a, <2>1, <2>2, Stages DEF Refresh, Wrap
    <3>2. RowsOK'
      BY <1>0, <1>1, <2>2 DEF Refresh, RowsOK, rows
    <3> QED
      BY <1>1, <3>1, <3>2, PlainKeeps DEF Refresh, rows
  <2>3. CASE t # NoToken
    <3>1. t \in Token /\ Of(t) \in Session
      BY <2>1, <2>3, TokenParts
    <3>2. PICK x \in Stage : Go(q, x) /\ x.at = "refreshing"
      BY <1>1, <1>a, <2>1, <2>3, <3>1, Stages DEF Refresh, Carry
    <3>3. RowsOK'
      BY <1>0, <1>1, <2>3, <3>1 DEF Refresh, RowsOK, rows
    <3> QED
      BY <1>1, <2>1, <3>2, <3>3, PlainKeeps DEF Refresh, rows
  <2> QED
    BY <2>2, <2>3
<1>2. CASE RefuseRefresh(q)
  <2>1. PICK x \in Stage : Go(q, x) /\ x.at = "refused"
    BY <1>2, <1>a, Stages DEF RefuseRefresh, Wrap
  <2> QED
    BY <1>0, <1>2, <2>1, PlainKeeps DEF RefuseRefresh, RowsOK, rows, logs
<1>3. CASE DetectReuse(q)
  <2>1. PICK x \in Stage : Go(q, x) /\ x.at = "refused"
    BY <1>3, <1>a, Stages DEF DetectReuse, Wrap
  <2>2. /\ session' \in [Session -> Row]
        /\ \A s \in Session : session'[s].hash = session[s].hash
    BY <1>0, <1>3, <1>a DEF DetectReuse, RowsOK, Row
  <2>3. RowsOK'
    BY <1>0, <1>3, <2>2 DEF RowsOK, DetectReuse, logs
  <2> QED
    BY <1>3, <2>1, <2>2, <2>3, PlainKeeps DEF DetectReuse
<1>4. CASE AcceptRefresh(q)
  <2>1. PICK x \in Stage : Go(q, x) /\ x.at = "rotating"
    BY <1>4, <1>a, Stages DEF AcceptRefresh, Carry
  <2> QED
    BY <1>0, <1>4, <2>1, PlainKeeps DEF AcceptRefresh, RowsOK, rows, logs
<1>5. CASE SaveRefreshed(q)
  <2>1. PICK x \in Stage : Go(q, x) /\ x.at = "resent"
    BY <1>5, <1>a, Stages DEF SaveRefreshed, Carry
  <2>2. RowsOK'
    BY <1>0, <1>5, <1>a DEF RowsOK, SaveRefreshed, rows, logs
  <2> QED
    BY <1>5, <2>1, <2>2, PlainKeeps DEF SaveRefreshed, rows
<1>6. CASE LoseRefresh(q)
  <2>1. PICK x \in Stage : Go(q, x) /\ x.at = "refused"
    BY <1>6, <1>a, Stages DEF LoseRefresh, Wrap
  <2>2. RowsOK'
    BY <1>0, <1>6, <1>a, BoundAssumption DEF RowsOK, LoseRefresh, rows
  <2> QED
    BY <1>6, <2>1, <2>2, PlainKeeps DEF LoseRefresh, rows
<1>7. CASE GiveUp(q)
  <2>1. PICK x \in Stage : Go(q, x) /\ x.at \in {"leaving", "idle"}
    BY <1>7, <1>a, <1>b, Stages DEF GiveUp, Wrap, Done
  <2>2. RowsOK'
    BY <1>0, <1>7, <1>a DEF RowsOK, GiveUp, rows, logs
  <2> QED
    BY <1>7, <2>1, <2>2, PlainKeeps DEF GiveUp, rows
<1>8. CASE DeniedAgain(q)
  <2>1. PICK x \in Stage : Go(q, x) /\ x.at \in {"leaving", "idle"}
    BY <1>8, <1>a, AfterStage DEF DeniedAgain
  <2> QED
    BY <1>0, <1>8, <2>1, PlainKeeps DEF DeniedAgain, RowsOK, rows, logs
<1>9. CASE Leave(q)
  <2>1. Go(q, Idle)
    BY <1>9 DEF Leave, Done
  <2>2. RowsOK'
    BY <1>0, <1>9, <1>a DEF RowsOK, Leave, rows, logs
  <2> QED
    BY <1>9, <1>b, <2>1, <2>2, PlainKeeps DEF Leave, rows
<1> QED
  BY <1>1, <1>2, <1>3, <1>4, <1>5, <1>6, <1>7, <1>8, <1>9

(* A change that begins, and one that is made. *)
LEMMA ChangeBegins ==
  ASSUME Inv, NEW q \in Request, NEW x \in Stage, Go(q, x), req[q].at = "idle",
         x.at \in {"changing", "moving", "resetting"}, ChangesLeft,
         UNCHANGED <<rows, store, logs>>
  PROVE  Inv'
<1>1. TypeOK' /\ req \in [Request -> Stage]
  BY DEF Inv, TypeOK, rows, logs, Go
<1>2. /\ Cardinality(Rotators)' = Cardinality(Rotators)
      /\ Cardinality(Entrants)' = Cardinality(Entrants)
  BY <1>1, Counted DEF Rotators, Entrants
<1>3. /\ Cardinality(Changers)' = Cardinality(Changers) + 1
      /\ Cardinality(Changers) \in Nat
  BY <1>1, Counted DEF Changers
<1>4. ChangesBound'
  <2>1. account.changes \in Nat
    BY BoundAssumption DEF Inv, TypeOK, Account
  <2> QED
    BY <1>3, <2>1, BoundAssumption DEF ChangesBound, ChangesLeft, rows
<1> QED
  BY <1>1, <1>2, <1>4 DEF Inv, TokensBound, FailuresInv, Issued, rows

LEMMA ChangeMade ==
  ASSUME Inv, NEW q \in Request, NEW x \in Stage, Go(q, x),
         req[q].at \in {"changing", "moving", "resetting"},
         x.at \in {"idle", "mailing"},
         account' \in [open : BOOLEAN, email : Address, verified : BOOLEAN,
                       changes : {account.changes + 1}],
         session' \in [Session -> Row],
         \A s \in Session : session'[s].hash = session[s].hash,
         reset' \in [ResetToken -> {"none", "unused", "spent"}],
         UNCHANGED <<store, mail, failures, logs>>
  PROVE  Inv'
<1>1. req \in [Request -> Stage] /\ account.changes \in Nat
  BY BoundAssumption DEF Inv, TypeOK, Account
<1>2. /\ Cardinality(Rotators)' = Cardinality(Rotators)
      /\ Cardinality(Entrants)' = Cardinality(Entrants)
  BY <1>1, Counted DEF Rotators, Entrants
<1>3. /\ Cardinality(Changers)' = Cardinality(Changers) - 1
      /\ Cardinality(Changers)' \in Nat /\ Cardinality(Changers) \in Nat
  BY <1>1, Counted DEF Changers
<1>4. ChangesBound' /\ account'.changes \in 0..MaxChanges
  BY <1>1, <1>3, BoundAssumption DEF Inv, ChangesBound
<1>5. account' \in Account
  BY <1>4 DEF Account
<1>6. TypeOK'
  BY <1>5 DEF Inv, TypeOK, logs, Go
<1> QED
  BY <1>2, <1>4, <1>6 DEF Inv, TokensBound, FailuresInv, Issued

(* The account's operations and its links. *)
LEMMA AccountKeeps ==
  ASSUME Inv, NEW q \in Request,
         \/ \E b \in Browser : CheckPassword(q, store[b])
         \/ \E r \in ResetToken : CheckReset(q, r)
         \/ ChangePassword(q) \/ ChangeEmail(q) \/ ResetPassword(q)
         \/ MarkResetsUsed(q) \/ CreateReset(q) \/ CheckUnverified(q)
         \/ \E m \in MailToken : CheckMail(q, m)
         \/ VerifyEmail(q)
  PROVE  Inv'
<1>0. RowsOK
  BY DEF Inv, TypeOK, RowsOK
<1> USE DEF At
<1>a. /\ req[q].at = "changing" => req[q].sid \in Session
      /\ req[q].at = "moving" => req[q].email \in Address
      /\ req[q].at = "verifying" => req[q].token \in MailToken
  BY Carried DEF Changing, Moving, Verifying
<1>b. Idle \in Stage /\ Idle.at = "idle"
  BY Stages DEF Idle
<1>c. account.changes \in Nat /\ account.changes \in 0..MaxChanges
  BY <1>0, BoundAssumption DEF RowsOK, Account
<1>1. ASSUME NEW b \in Browser, CheckPassword(q, store[b]) PROVE Inv'
  <2>1. store[b] \in Token
    BY <1>0, <1>1 DEF RowsOK, CheckPassword, Signed
  <2>2. Of(store[b]) \in Session
    BY <2>1, TokenParts
  <2>3. PICK x \in Stage : Go(q, x) /\ x.at \in {"changing", "moving"}
    BY <1>1, <2>2, Stages DEF CheckPassword
  <2> QED
    BY <1>1, <2>3, ChangeBegins DEF CheckPassword, Signed
<1>2. ASSUME NEW r \in ResetToken, CheckReset(q, r) PROVE Inv'
  BY <1>2, Stages, ChangeBegins DEF CheckReset
<1>3. CASE ChangePassword(q)
  <2>1. /\ session' \in [Session -> Row]
        /\ \A s \in Session : session'[s].hash = session[s].hash
    <3> DEFINE f == Revoked(Session \ {req[q].sid})
    <3>1. f \in [Session -> Row] /\ \A s \in Session : f[s].hash = session[s].hash
      BY <1>0, RevokedRows DEF RowsOK
    <3>2. session' = [f EXCEPT ![req[q].sid].since = account.changes + 1]
      BY <1>3 DEF ChangePassword
    <3>3. req[q].sid \in Session
      BY <1>3, <1>a DEF ChangePassword
    <3>4. account.changes + 1 \in 0..MaxChanges
      <4>1. q \in Changers /\ IsFiniteSet(Changers)
        BY <1>3, StagesFinite DEF ChangePassword, Changers, Waiting
      <4>2. Cardinality(Changers) >= 1 /\ Cardinality(Changers) \in Nat
        BY <4>1, FS_EmptySet, FS_CardinalityType
      <4> QED
        BY <1>c, <4>2, BoundAssumption DEF Inv, ChangesBound
    <3> HIDE DEF f
    <3> QED
      BY <3>1, <3>2, <3>3, <3>4 DEF Row
  <2>2. account' \in [open : BOOLEAN, email : Address, verified : BOOLEAN,
                      changes : {account.changes + 1}]
    BY <1>0, <1>3 DEF RowsOK, ChangePassword, Account
  <2>3. Go(q, Idle)
    BY <1>3 DEF ChangePassword, Done
  <2> QED
    BY <1>0, <1>3, <1>b, <2>1, <2>2, <2>3, ChangeMade DEF ChangePassword, RowsOK
<1>4. CASE ChangeEmail(q)
  <2>1. /\ session' \in [Session -> Row]
        /\ \A s \in Session : session'[s].hash = session[s].hash
    BY <1>0, <1>4, RevokedRows DEF RowsOK, ChangeEmail
  <2>2. account' \in [open : BOOLEAN, email : Address, verified : BOOLEAN,
                      changes : {account.changes + 1}]
    BY <1>0, <1>4, <1>a DEF RowsOK, ChangeEmail, Account
  <2>3. PICK x \in Stage : Go(q, x) /\ x.at = "mailing"
    BY <1>4, <1>a, Stages DEF ChangeEmail
  <2> QED
    BY <1>0, <1>4, <2>1, <2>2, <2>3, ChangeMade DEF ChangeEmail, RowsOK
<1>5. CASE ResetPassword(q)
  <2>1. /\ session' \in [Session -> Row]
        /\ \A s \in Session : session'[s].hash = session[s].hash
    BY <1>0, <1>5, RevokedRows DEF RowsOK, ResetPassword
  <2>2. account' \in [open : BOOLEAN, email : Address, verified : BOOLEAN,
                      changes : {account.changes + 1}]
    BY <1>0, <1>5 DEF RowsOK, ResetPassword, Account
  <2>3. Go(q, Idle) /\ reset' \in [ResetToken -> {"none", "unused", "spent"}]
    BY <1>0, <1>5 DEF ResetPassword, Done, RowsOK, SpentResets
  <2> QED
    BY <1>5, <1>b, <2>1, <2>2, <2>3, ChangeMade DEF ResetPassword
<1>6. CASE MarkResetsUsed(q)
  <2>1. PICK x \in Stage : Go(q, x) /\ x.at = "forgot"
    BY <1>6, Stages DEF MarkResetsUsed
  <2>2. RowsOK'
    BY <1>0, <1>6 DEF RowsOK, MarkResetsUsed, SpentResets, logs
  <2> QED
    BY <1>6, <2>1, <2>2, PlainKeeps DEF MarkResetsUsed
<1>7. CASE CreateReset(q)
  <2>1. RowsOK' /\ Go(q, Idle)
    BY <1>0, <1>7 DEF RowsOK, CreateReset, Done, logs
  <2> QED
    BY <1>7, <1>b, <2>1, PlainKeeps DEF CreateReset
<1>8. CASE CheckUnverified(q)
  <2>1. PICK x \in Stage : Go(q, x) /\ x.at = "mailing"
    BY <1>0, <1>8, Stages DEF CheckUnverified, RowsOK, Account
  <2> QED
    BY <1>0, <1>8, <2>1, PlainKeeps DEF CheckUnverified, RowsOK, rows, logs
<1>9. ASSUME NEW m \in MailToken, CheckMail(q, m) PROVE Inv'
  <2>1. PICK x \in Stage : Go(q, x) /\ x.at = "verifying"
    BY <1>9, Stages DEF CheckMail
  <2>2. RowsOK'
    BY <1>0, <1>9 DEF RowsOK, CheckMail, rows
  <2> QED
    BY <1>9, <2>1, <2>2, PlainKeeps DEF CheckMail, rows
<1>10. CASE VerifyEmail(q)
  <2>1. RowsOK' /\ Go(q, Idle) /\ account'.changes = account.changes
    BY <1>0, <1>10, <1>a DEF RowsOK, VerifyEmail, Verified, Account, Done, logs
  <2> QED
    BY <1>10, <1>b, <2>1, PlainKeeps DEF VerifyEmail
<1> QED
  BY <1>1, <1>2, <1>3, <1>4, <1>5, <1>6, <1>7, <1>8, <1>9, <1>10

(* Steps that leave every call where it is. *)
LEMMA QuietKeeps ==
  ASSUME Inv,
         \/ \E q \in Request, b \in Browser :
              LogoutAll(q, store[b]) \/ \E s \in Session : RevokeSession(q, store[b], s)
         \/ Clock
  PROVE  Inv'
<1>0. RowsOK
  BY DEF Inv, TypeOK, RowsOK
<1>1. ASSUME NEW q \in Request, NEW b \in Browser,
             LogoutAll(q, store[b]) \/ \E s \in Session : RevokeSession(q, store[b], s)
      PROVE  Inv'
  <2>1. PICK which : session' = Revoked(which)
    BY <1>1 DEF LogoutAll, RevokeSession
  <2>2. /\ session' \in [Session -> Row]
        /\ \A s \in Session : session'[s].hash = session[s].hash
    BY <1>0, <2>1, RevokedRows DEF RowsOK
  <2>3. UNCHANGED <<account, store, reset, mail, failures, req, lost,
                    disturbed, proved>>
    BY <1>1 DEF LogoutAll, RevokeSession, logs
  <2>4. RowsOK'
    BY <1>0, <2>2, <2>3 DEF RowsOK
  <2> QED
    BY <1>0, <2>2, <2>3, <2>4, ClockKeeps DEF RowsOK
<1>2. ASSUME NEW s \in Session, ExpireSession(s) PROVE Inv'
  <2>1. /\ session' \in [Session -> Row]
        /\ \A p \in Session : session'[p].hash = session[p].hash
    BY <1>0, <1>2 DEF ExpireSession, RowsOK, Row
  <2>2. RowsOK'
    BY <1>0, <1>2, <2>1 DEF RowsOK, ExpireSession, logs
  <2> QED
    BY <1>0, <1>2, <2>1, <2>2, ClockKeeps DEF ExpireSession, RowsOK
<1>3. CASE ExpireLink
  <2>1. RowsOK'
    BY <1>0, <1>3 DEF RowsOK, ExpireLink, logs
  <2> QED
    BY <1>0, <1>3, <2>1, ClockKeeps DEF ExpireLink, RowsOK
<1>4. CASE WindowPasses
  <2>1. RowsOK' /\ failures' <= failures /\ failures' \in Nat
    BY <1>0, <1>4 DEF RowsOK, WindowPasses, logs
  <2> QED
    BY <1>4, <2>1, ClockKeeps DEF WindowPasses
<1> QED
  BY <1>1, <1>2, <1>3, <1>4 DEF Clock

LEMMA InitHolds == Init => Inv
<1> SUFFICES ASSUME Init PROVE Inv
  OBVIOUS
<1>1. TypeOK
  <2>1. account \in Account
    <3>1. {0} \subseteq 0..MaxChanges /\ {FALSE} \subseteq BOOLEAN
      BY BoundAssumption
    <3> QED
      BY <3>1 DEF Init, Account
  <2>2. session \in [Session -> Row]
    BY BoundAssumption DEF Init, NoRow, Row
  <2>3. mail \in [MailToken -> [state : {"none", "unused", "spent"}, email : Address]]
    <3>1. account.email \in Address
      BY <2>1 DEF Account
    <3> QED
      BY <3>1 DEF Init
  <2>4. req \in [Request -> Stage]
    BY Stages DEF Init
  <2> QED
    BY <2>1, <2>2, <2>3, <2>4, BoundAssumption DEF Init, TypeOK
<1>2. Rotators = {} /\ Changers = {} /\ Entrants = {}
  BY DEF Init, Rotators, Changers, Entrants, Waiting, Idle
<1>3. Cardinality({}) = 0 /\ Cardinality(Request) \in Nat
  BY FS_EmptySet, RequestAssumption, FS_CardinalityType
<1> QED
  BY <1>1, <1>2, <1>3, BoundAssumption
  DEF Inv, TokensBound, ChangesBound, FailuresInv, Issued, Init, NoRow

LEMMA NextKeeps == Inv /\ [Next]_vars => Inv'
<1> SUFFICES ASSUME Inv, [Next]_vars PROVE Inv'
  OBVIOUS
<1>1. ASSUME NEW q \in Request, Start(q) PROVE Inv'
  <2>1. ASSUME NEW b \in Browser, NEW op \in {"read", "logout"}, Denied(q, b, op)
        PROVE  Inv'
    BY <2>1, DeniedKeeps
  <2> QED
    BY <1>1, <2>1, SignInKeeps, AccountKeeps, QuietKeeps DEF Start
<1>2. ASSUME NEW q \in Request, Proceed(q) PROVE Inv'
  <2>1. CASE At(q, "resent") /\ Serve(q, req[q].browser, req[q].token)
    <3>1. req[q].browser \in Browser
      BY <2>1, Carried DEF At, Refresher
    <3> QED
      BY <2>1, <3>1, ServeKeeps
  <2> QED
    BY <1>2, <2>1, SignInKeeps, RefreshKeeps, RotateKeeps, AccountKeeps DEF Proceed
<1>3. ASSUME NEW q \in Request, NEW b \in Browser, Serve(q, b, store[b]) PROVE Inv'
  BY <1>3, ServeKeeps
<1>4. CASE Clock
  BY <1>4, QuietKeeps
<1>5. CASE UNCHANGED vars
  BY <1>5 DEF vars, rows, logs, Inv, TypeOK, TokensBound, ChangesBound, FailuresInv,
              Issued, Rotators, Changers, Entrants, Waiting
<1> QED
  BY <1>1, <1>2, <1>3, <1>4, <1>5 DEF Next

LEMMA InvHolds == Spec => []Inv
BY InitHolds, NextKeeps, PTL DEF Spec

(* Types are kept: in particular no session makes more tokens than the     *)
(* bound of the model leaves room for, so no run is cut short by it.       *)
THEOREM SessionsType == Spec => []TypeOK
<1>1. Inv => TypeOK
  BY DEF Inv
<1> QED
  BY <1>1, InvHolds, PTL

(* assertLoginAllowed and recordLoginAttempt: with any number of calls at  *)
(* once, failures exceed the threshold by no more than those under way.    *)
THEOREM FailuresBoundedHolds == Spec => []FailuresBounded
<1>1. Inv => FailuresBounded
  <2> SUFFICES ASSUME Inv PROVE FailuresBounded
    OBVIOUS
  <2>1. Cardinality(Entrants) \in Nat /\ Cardinality(Request) \in Nat
    BY StagesFinite DEF Entrants
  <2> QED
    BY <2>1, BoundAssumption DEF Inv, FailuresInv, FailuresBounded, TypeOK
<1> QED
  BY <1>1, InvHolds, PTL

-----------------------------------------------------------------------------
(* Sessions are opened, rotated, ended and revoked; nothing else touches    *)
(* their rows or counts a change.                                           *)
LEMMA SessionSteps ==
  ASSUME Inv, [Next]_vars
  PROVE  \/ UNCHANGED session /\ account'.changes = account.changes
         \/ \E q \in Request : IssueSession(q) \/ Rotate(q)
         \/ \E which : session' = Revoked(which) /\ account'.changes = account.changes
         \/ \E s \in Session, x \in {"ended", "reused"} :
              /\ session' = [session EXCEPT ![s].status = x] /\ Active(s)
              /\ account'.changes = account.changes
         \/ \E q \in Request : ChangePassword(q)
         \/ session' = Revoked(Session)
<1> DEFINE Goal ==
         \/ UNCHANGED session /\ account'.changes = account.changes
         \/ \E q \in Request : IssueSession(q) \/ Rotate(q)
         \/ \E which : session' = Revoked(which) /\ account'.changes = account.changes
         \/ \E s \in Session, x \in {"ended", "reused"} :
              /\ session' = [session EXCEPT ![s].status = x] /\ Active(s)
              /\ account'.changes = account.changes
         \/ \E q \in Request : ChangePassword(q)
         \/ session' = Revoked(Session)
<1>1. ASSUME NEW q \in Request, Start(q) PROVE Goal
  <2>1. ASSUME NEW b \in Browser, NEW a \in Address, Register(q, b, a) PROVE Goal
    <3>1. account.changes = account'.changes
      BY <2>1 DEF Register, Inv, TypeOK, Account
    <3> QED
      BY <2>1, <3>1 DEF Register
  <2>2. CASE \E b \in Browser : LogoutAll(q, store[b])
                 \/ \E s \in Session : RevokeSession(q, store[b], s)
    BY <2>2 DEF LogoutAll, RevokeSession
  <2>3. CASE \E b \in Browser : AllowLogin(q, b) \/ CheckPassword(q, store[b])
                 \/ \E op \in {"read", "logout"} : Denied(q, b, op)
    BY <2>3 DEF AllowLogin, CheckPassword, Denied, rows
  <2>4. CASE \/ MarkResetsUsed(q) \/ CheckUnverified(q)
             \/ \E r \in ResetToken : CheckReset(q, r)
             \/ \E m \in MailToken : CheckMail(q, m)
    BY <2>4 DEF MarkResetsUsed, CheckReset, CheckMail, CheckUnverified, rows
  <2> QED
    BY <1>1, <2>1, <2>2, <2>3, <2>4 DEF Start
<1>2. ASSUME NEW q \in Request, Proceed(q) PROVE Goal
  <2>1. CASE Serve(q, req[q].browser, req[q].token)
    BY <2>1 DEF Serve, Read, Logout, rows
  <2>2. CASE DetectReuse(q)
    <3>1. Of(req[q].token) \in Session
      BY <2>2, Carried, TokenParts DEF DetectReuse, At, Refresher
    <3> QED
      BY <2>2, <3>1 DEF DetectReuse
  <2>3. CASE VerifyEmail(q)
    <3>1. account'.changes = account.changes
      BY <2>3 DEF VerifyEmail, Verified, Inv, TypeOK, Account
    <3> QED
      BY <2>3, <3>1 DEF VerifyEmail
  <2>4. CASE LoginFails(q) \/ LoginChecked(q) \/ SaveSession(q) \/ LoseLogin(q)
             \/ CreateMail(q)
    BY <2>4 DEF LoginFails, LoginChecked, SaveSession, LoseLogin, CreateMail, rows
  <2>5. CASE Refresh(q) \/ RefuseRefresh(q) \/ AcceptRefresh(q) \/ SaveRefreshed(q)
    BY <2>5 DEF Refresh, RefuseRefresh, AcceptRefresh, SaveRefreshed, rows
  <2>6. CASE LoseRefresh(q) \/ GiveUp(q) \/ DeniedAgain(q) \/ Leave(q)
             \/ CreateReset(q)
    BY <2>6 DEF LoseRefresh, GiveUp, DeniedAgain, Leave, CreateReset, rows
  <2>7. CASE ChangeEmail(q) \/ ResetPassword(q)
    BY <2>7 DEF ChangeEmail, ResetPassword
  <2> QED
    BY <1>2, <2>1, <2>2, <2>3, <2>4, <2>5, <2>6, <2>7 DEF Proceed
<1>3. ASSUME NEW q \in Request, NEW b \in Browser, Serve(q, b, store[b]) PROVE Goal
  BY <1>3 DEF Serve, Read, Logout, rows
<1>4. CASE Clock
  BY <1>4 DEF Clock, ExpireSession, ExpireLink, WindowPasses
<1>5. CASE UNCHANGED vars
  BY <1>5 DEF vars, rows
<1>6. CASE \E q \in Request : Start(q) \/ Proceed(q)
  BY <1>1, <1>2, <1>6
<1>7. CASE \E q \in Request, b \in Browser : At(q, "idle") /\ Serve(q, b, store[b])
  BY <1>3, <1>7
<1> QED
  BY <1>4, <1>5, <1>6, <1>7 DEF Next

(* Only a change of the account's secrets counts one, and it revokes. *)
LEMMA CountedChanges ==
  ASSUME Inv, [Next]_vars, session' = Revoked(Session)
  PROVE  \A s \in Session : ~Active(s)'
BY DEF Revoked, Active, Inv, TypeOK, Row

(* changePassword, changeEmail and resetPassword against rotateSession and  *)
(* issueSession: whatever calls are under way when the account changes, no  *)
(* session begun before it is live after it but the one that changed it.    *)
THEOREM ChangesEndSessionsHolds == Spec => []ChangesEndSessions
<1>1. Init => ChangesEndSessions
  BY DEF Init, ChangesEndSessions, Active, NoRow
<1>2. Inv /\ ChangesEndSessions /\ [Next]_vars => ChangesEndSessions'
  <2> SUFFICES ASSUME Inv, ChangesEndSessions, [Next]_vars,
                      NEW s \in Session, Active(s)'
               PROVE  session'[s].since = account'.changes
    BY DEF ChangesEndSessions
  <2>0. session \in [Session -> Row] /\ account \in Account
    BY DEF Inv, TypeOK
  <2>1. CASE UNCHANGED session /\ account'.changes = account.changes
    BY <2>1 DEF ChangesEndSessions, Active
  <2>2. ASSUME NEW q \in Request, IssueSession(q)
        PROVE  session'[s].since = account'.changes
    BY <2>0, <2>2 DEF IssueSession, ChangesEndSessions, Active
  <2>3. ASSUME NEW q \in Request, Rotate(q) PROVE session'[s].since = account'.changes
    <3>1. session'[s].status = session[s].status /\ session'[s].since = session[s].since
      BY <2>0, <2>3 DEF Rotate, RowRotated, Row
    <3> QED
      BY <2>3, <3>1 DEF Rotate, ChangesEndSessions, Active
  <2>4. ASSUME NEW which, session' = Revoked(which),
               account'.changes = account.changes
        PROVE  session'[s].since = account'.changes
    BY <2>0, <2>4 DEF Revoked, ChangesEndSessions, Active, Row
  <2>5. ASSUME NEW p \in Session, NEW x \in {"ended", "reused"},
               session' = [session EXCEPT ![p].status = x],
               account'.changes = account.changes
        PROVE  session'[s].since = account'.changes
    BY <2>0, <2>5 DEF ChangesEndSessions, Active, Row
  <2>6. ASSUME NEW q \in Request, ChangePassword(q)
        PROVE  session'[s].since = account'.changes
    <3> DEFINE f == Revoked(Session \ {req[q].sid})
    <3>1. /\ session' = [f EXCEPT ![req[q].sid].since = account.changes + 1]
          /\ account'.changes = account.changes + 1
      BY <2>0, <2>6 DEF ChangePassword, Account
    <3>2. f \in [Session -> Row] /\ (s # req[q].sid => f[s].status # "active")
      BY <2>0 DEF Revoked, Active, Row
    <3> HIDE DEF f
    <3> QED
      BY <3>1, <3>2 DEF Active, Row
  <2>7. CASE session' = Revoked(Session)
    BY <2>7, CountedChanges
  <2> QED
    BY <2>1, <2>2, <2>3, <2>4, <2>5, <2>6, <2>7, SessionSteps
<1> QED
  BY <1>1, <1>2, InvHolds, PTL DEF Spec

(* rotateSession writes its row whatever became of it since refresh looked, *)
(* and yet no session that has ended comes back, and each login has one of  *)
(* its own: Sessions implements SessionBook.                                *)
THEOREM SessionBookKeptHolds == Spec => SessionBookKept
<1> DEFINE live  == {s \in Session : Active(s)}
           ended == {s \in Session : session[s].status \in {"ended", "reused"}}
<1>1. Init => Book!Init
  BY DEF Init, Book!Init, Active, NoRow
<1>2. Inv /\ [Next]_vars => [Book!Next]_<<live, ended>>
  <2> SUFFICES ASSUME Inv, [Next]_vars PROVE Book!Next \/ UNCHANGED <<live, ended>>
    OBVIOUS
  <2>0. session \in [Session -> Row]
    BY DEF Inv, TypeOK
  <2>1. ASSUME \A s \in Session : session'[s].status = session[s].status
        PROVE  UNCHANGED <<live, ended>>
    BY <2>1 DEF Active
  <2>2. ASSUME \A s \in Session : \/ session'[s].status = session[s].status
                                  \/ /\ Active(s)
                                     /\ session'[s].status \in {"ended", "reused"}
        PROVE  Book!Next \/ UNCHANGED <<live, ended>>
    <3> DEFINE some == {s \in Session : Active(s) /\ ~Active(s)'}
    <3>1. CASE some = {}
      <4>1. \A s \in Session : session'[s].status = session[s].status
        BY <2>2, <3>1 DEF Active
      <4> QED
        BY <2>1, <4>1
    <3>2. CASE some # {}
      <4>1. live' = live \ some /\ ended' = ended \cup some
        BY <2>2 DEF Active
      <4>2. some \in SUBSET live
        OBVIOUS
      <4> QED
        BY <3>2, <4>1, <4>2 DEF Book!Next, Book!Close
    <3> QED
      BY <3>1, <3>2
  <2>3. ASSUME NEW q \in Request, IssueSession(q) PROVE Book!Next
    <3>1. PICK s \in Session :
            /\ Fresh(s)
            /\ session' = [session EXCEPT ![s] =
                 [status |-> "active", hash |-> 1, since |-> account.changes]]
      BY <2>3 DEF IssueSession
    <3>2. s \notin live \cup ended
      BY <3>1 DEF Fresh, Active
    <3>3. live' = live \cup {s} /\ ended' = ended
      BY <2>0, <3>1 DEF Fresh, Active
    <3> QED
      BY <3>2, <3>3 DEF Book!Next, Book!Open
  <2>4. ASSUME NEW q \in Request, Rotate(q) PROVE UNCHANGED <<live, ended>>
    <3>1. \A s \in Session : session'[s].status = session[s].status
      BY <2>0, <2>4 DEF Rotate, RowRotated, Row
    <3> QED
      BY <2>1, <3>1
  <2>5. ASSUME NEW which, session' = Revoked(which)
        PROVE  Book!Next \/ UNCHANGED <<live, ended>>
    <3>1. \A s \in Session : \/ session'[s].status = session[s].status
                             \/ /\ Active(s)
                                /\ session'[s].status \in {"ended", "reused"}
      BY <2>0, <2>5 DEF Revoked, Active, Row
    <3> QED
      BY <2>2, <3>1
  <2>6. ASSUME NEW p \in Session, NEW x \in {"ended", "reused"},
               session' = [session EXCEPT ![p].status = x], Active(p)
        PROVE  Book!Next \/ UNCHANGED <<live, ended>>
    <3>1. \A s \in Session : \/ session'[s].status = session[s].status
                             \/ /\ Active(s)
                                /\ session'[s].status \in {"ended", "reused"}
      BY <2>0, <2>6 DEF Active, Row
    <3> QED
      BY <2>2, <3>1
  <2>7. ASSUME NEW q \in Request, ChangePassword(q)
        PROVE  Book!Next \/ UNCHANGED <<live, ended>>
    <3> DEFINE f == Revoked(Session \ {req[q].sid})
    <3>1. session' = [f EXCEPT ![req[q].sid].since = account.changes + 1]
      BY <2>7 DEF ChangePassword
    <3>2. /\ f \in [Session -> Row]
          /\ \A s \in Session : \/ f[s].status = session[s].status
                                \/ Active(s) /\ f[s].status = "ended"
      BY <2>0 DEF Revoked, Active, Row
    <3> HIDE DEF f
    <3>3. \A s \in Session : \/ session'[s].status = session[s].status
                             \/ /\ Active(s)
                                /\ session'[s].status \in {"ended", "reused"}
      BY <3>1, <3>2 DEF Row
    <3> QED
      BY <2>2, <3>3
  <2>8. CASE UNCHANGED session
    BY <2>8 DEF Active
  <2> HIDE DEF live, ended
  <2> QED
    BY <2>3, <2>4, <2>5, <2>6, <2>7, <2>8, SessionSteps
<1> QED
  BY <1>1, <1>2, InvHolds, PTL DEF Spec, SessionBookKept, Book!Spec

-----------------------------------------------------------------------------
(* A link that is being used was sent, and to an address that it proves.   *)
LinksInv ==
  /\ VerifiedAddressProved
  /\ \A q \in Request : req[q].at = "verifying" =>
       /\ mail[req[q].token].state # "none"
       /\ mail[req[q].token].email \in proved

(* Steps that leave links and address alone and use none. *)
LEMMA LinksKept ==
  ASSUME Inv, LinksInv, UNCHANGED <<mail, proved>>,
         account'.verified => account.verified /\ account'.email = account.email,
         \A q \in Request : req'[q].at = "verifying" => req'[q] = req[q]
  PROVE  LinksInv'
BY DEF LinksInv, VerifiedAddressProved

LEMMA MoveOn ==
  ASSUME Inv, NEW q \in Request, NEW x, Go(q, x), x.at # "verifying"
  PROVE  \A p \in Request : req'[p].at = "verifying" => req'[p] = req[p]
BY DEF Inv, TypeOK, Go

LEMMA LinksNext ==
  ASSUME Inv, LinksInv, [Next]_vars
  PROVE  LinksInv'
<1>0. account \in Account /\ req \in [Request -> Stage]
      /\ mail \in [MailToken -> [state : {"none", "unused", "spent"}, email : Address]]
  BY DEF Inv, TypeOK
<1>1. ASSUME NEW q \in Request, CreateMail(q) PROVE LinksInv'
  <2>1. PICK m \in MailToken :
          /\ mail[m].state = "none"
          /\ mail' = [mail EXCEPT ![m] = [state |-> "unused", email |-> req[q].email]]
    BY <1>1 DEF CreateMail
  <2>2. \E x : Go(q, x) /\ x.at # "verifying"
    BY <1>1 DEF CreateMail, Done, Idle
  <2>3. \A p \in Request : req'[p].at = "verifying" => req'[p] = req[p]
    BY <2>2, MoveOn
  <2>4. \A p \in Request : req[p].at = "verifying" =>
          mail'[req[p].token] = mail[req[p].token]
    <3> SUFFICES ASSUME NEW p \in Request, req[p].at = "verifying"
                 PROVE  mail'[req[p].token] = mail[req[p].token]
      OBVIOUS
    <3>1. req[p].token # m
      BY <2>1 DEF LinksInv
    <3> QED
      BY <1>0, <2>1, <3>1
  <2>5. proved' = proved /\ account' = account
    BY <1>1 DEF CreateMail, logs
  <2> QED
    BY <2>3, <2>4, <2>5 DEF LinksInv, VerifiedAddressProved
<1>2. ASSUME NEW q \in Request, NEW m \in MailToken, CheckMail(q, m) PROVE LinksInv'
  <2>1. /\ mail[m].state = "unused" /\ proved' = proved \cup {mail[m].email}
        /\ req' = [req EXCEPT ![q] = [at |-> "verifying", token |-> m]]
        /\ mail' = mail /\ account' = account
    BY <1>2 DEF CheckMail, Go, rows
  <2> QED
    BY <1>0, <2>1 DEF LinksInv, VerifiedAddressProved
<1>3. ASSUME NEW q \in Request, VerifyEmail(q) PROVE LinksInv'
  <2> DEFINE m == req[q].token
  <2>1. m \in MailToken /\ req[q].at = "verifying" /\ mail[m].email \in proved
    BY <1>3, Carried DEF VerifyEmail, At, Verifying, LinksInv
  <2>2. /\ account'.email = mail[m].email /\ proved' = proved
        /\ mail' = [mail EXCEPT ![m].state = "spent"]
        /\ Go(q, Idle)
    BY <1>0, <1>3 DEF VerifyEmail, Verified, Account, Done, logs
  <2>3. \A p \in Request : req'[p].at = "verifying" => req'[p] = req[p]
    BY <2>2, MoveOn DEF Idle
  <2>4. \A n \in MailToken : /\ mail'[n].email = mail[n].email
                             /\ mail[n].state # "none" => mail'[n].state # "none"
    BY <1>0, <2>1, <2>2
  <2>5. \A p \in Request : req[p].at = "verifying" => req[p].token \in MailToken
    BY Carried DEF Verifying
  <2> QED
    BY <2>1, <2>2, <2>3, <2>4, <2>5 DEF LinksInv, VerifiedAddressProved
<1>4. CASE ExpireLink
  <2>1. \A n \in MailToken : /\ mail'[n].email = mail[n].email
                             /\ mail[n].state # "none" => mail'[n].state # "none"
    BY <1>0, <1>4 DEF ExpireLink
  <2>2. \A p \in Request : req[p].at = "verifying" => req[p].token \in MailToken
    BY Carried DEF Verifying
  <2>3. UNCHANGED <<account, req, proved>>
    BY <1>4 DEF ExpireLink, logs
  <2> QED
    BY <2>1, <2>2, <2>3 DEF LinksInv, VerifiedAddressProved
<1>5. ASSUME NEW q \in Request, NEW b \in Browser,
             \/ AllowLogin(q, b) \/ \E a \in Address : Register(q, b, a)
             \/ \E op \in {"read", "logout"} : Denied(q, b, op)
      PROVE  LinksInv'
  <2>1. \A p \in Request : req'[p].at = "verifying" => req'[p] = req[p]
    <3>1. CASE AllowLogin(q, b)
      BY <3>1, MoveOn DEF AllowLogin
    <3>2. ASSUME NEW a \in Address, Register(q, b, a)
          PROVE  \A p \in Request : req'[p].at = "verifying" => req'[p] = req[p]
      BY <3>2, MoveOn DEF Register
    <3>3. ASSUME NEW op \in {"read", "logout"}, Denied(q, b, op)
          PROVE  \A p \in Request : req'[p].at = "verifying" => req'[p] = req[p]
      BY <3>3, MoveOn DEF Denied
    <3> QED
      BY <1>5, <3>1, <3>2, <3>3
  <2>2. UNCHANGED <<mail, proved>> /\ (account' = account \/ ~account'.verified)
    BY <1>0, <1>5 DEF AllowLogin, Register, Denied, rows, logs, Account
  <2> QED
    BY <2>1, <2>2, MoveOn, LinksKept
<1>6. ASSUME NEW q \in Request, NEW b \in Browser,
             \/ CheckPassword(q, store[b]) \/ LogoutAll(q, store[b])
             \/ \E s \in Session : RevokeSession(q, store[b], s)
      PROVE  LinksInv'
  <2>1. \A p \in Request : req'[p].at = "verifying" => req'[p] = req[p]
    <3>1. CASE req' = req
      BY <3>1
    <3>2. CASE Go(q, [at |-> "changing", sid |-> Of(store[b])])
      BY <3>2, MoveOn
    <3>3. ASSUME NEW a \in Address, Go(q, [at |-> "moving", email |-> a])
          PROVE  \A p \in Request : req'[p].at = "verifying" => req'[p] = req[p]
      BY <3>3, MoveOn
    <3> QED
      BY <1>6, <3>1, <3>2, <3>3 DEF CheckPassword, LogoutAll, RevokeSession
  <2>2. UNCHANGED <<mail, proved, account>>
    BY <1>6 DEF CheckPassword, LogoutAll, RevokeSession, rows, logs
  <2> QED
    BY <2>1, <2>2, MoveOn, LinksKept
<1>7. ASSUME NEW q \in Request,
             \/ MarkResetsUsed(q) \/ CheckUnverified(q) \/ CreateReset(q)
             \/ \E r \in ResetToken : CheckReset(q, r)
      PROVE  LinksInv'
  <2>1. \A p \in Request : req'[p].at = "verifying" => req'[p] = req[p]
    BY <1>0, <1>7 DEF MarkResetsUsed, CheckUnverified, CreateReset, CheckReset,
                 Done, Idle, Go
  <2>2. UNCHANGED <<mail, proved, account>>
    BY <1>7 DEF MarkResetsUsed, CheckUnverified, CreateReset, CheckReset, rows, logs
  <2> QED
    BY <2>1, <2>2, MoveOn, LinksKept
<1>8. ASSUME NEW q \in Request,
             ChangePassword(q) \/ ChangeEmail(q) \/ ResetPassword(q)
      PROVE  LinksInv'
  <2>1. \E x : Go(q, x) /\ x.at # "verifying"
    BY <1>8 DEF ChangePassword, ChangeEmail, ResetPassword, Done, Idle
  <2>2. UNCHANGED <<mail, proved>>
    BY <1>8 DEF ChangePassword, ChangeEmail, ResetPassword, logs
  <2>3. account'.verified => account.verified /\ account'.email = account.email
    BY <1>0, <1>8 DEF ChangePassword, ChangeEmail, ResetPassword, Account
  <2> QED
    BY <2>1, <2>2, <2>3, MoveOn, LinksKept
<1>9. ASSUME NEW q \in Request,
             \/ LoginFails(q) \/ LoginChecked(q) \/ IssueSession(q)
             \/ SaveSession(q) \/ LoseLogin(q)
      PROVE  LinksInv'
  <2>1. \A p \in Request : req'[p].at = "verifying" => req'[p] = req[p]
    BY <1>0, <1>9 DEF LoginFails, LoginChecked, IssueSession, SaveSession, LoseLogin,
                 Done, Idle, Go
  <2>2. UNCHANGED <<mail, proved, account>>
    BY <1>9 DEF LoginFails, LoginChecked, IssueSession, SaveSession, LoseLogin, rows, logs
  <2> QED
    BY <2>1, <2>2, MoveOn, LinksKept
<1>10. ASSUME NEW q \in Request,
             \/ Refresh(q) \/ RefuseRefresh(q) \/ DetectReuse(q) \/ AcceptRefresh(q)
             \/ Rotate(q) \/ SaveRefreshed(q)
      PROVE  LinksInv'
  <2>1. \E x : Go(q, x) /\ x.at # "verifying"
    BY <1>10 DEF Refresh, RefuseRefresh, DetectReuse, AcceptRefresh, Rotate,
                 SaveRefreshed, Wrap, Carry
  <2>2. UNCHANGED <<mail, proved, account>>
    BY <1>10 DEF Refresh, RefuseRefresh, DetectReuse, AcceptRefresh, Rotate,
                 SaveRefreshed, rows, logs
  <2> QED
    BY <2>1, <2>2, MoveOn, LinksKept
<1>11. ASSUME NEW q \in Request,
             LoseRefresh(q) \/ GiveUp(q) \/ DeniedAgain(q) \/ Leave(q)
      PROVE  LinksInv'
  <2>1. \E x : Go(q, x) /\ x.at # "verifying"
    BY <1>11 DEF LoseRefresh, GiveUp, DeniedAgain, Leave, After, Wrap, Done, Idle
  <2>2. UNCHANGED <<mail, proved, account>>
    BY <1>11 DEF LoseRefresh, GiveUp, DeniedAgain, Leave, rows, logs
  <2> QED
    BY <2>1, <2>2, MoveOn, LinksKept
<1>12. ASSUME NEW q \in Request, NEW b, NEW t, Serve(q, b, t) PROVE LinksInv'
  <2>1. \E x : Go(q, x) /\ x.at # "verifying"
    BY <1>12 DEF Serve, Read, Logout, After, Done, Idle
  <2>2. UNCHANGED <<mail, proved, account>>
    BY <1>12 DEF Serve, Read, Logout, rows, logs
  <2> QED
    BY <2>1, <2>2, MoveOn, LinksKept
<1>13. CASE WindowPasses \/ \E s \in Session : ExpireSession(s)
  <2>1. UNCHANGED <<mail, proved, account, req>>
    BY <1>13 DEF WindowPasses, ExpireSession, logs
  <2> QED
    BY <2>1, LinksKept
<1>14. CASE UNCHANGED vars
  BY <1>14, LinksKept DEF vars, rows, logs
<1>15. ASSUME NEW q \in Request, Start(q) PROVE LinksInv'
  BY <1>2, <1>5, <1>6, <1>7, <1>15 DEF Start
<1>16. ASSUME NEW q \in Request, Proceed(q) PROVE LinksInv'
  BY <1>1, <1>3, <1>7, <1>8, <1>9, <1>10, <1>11, <1>12, <1>16 DEF Proceed
<1>17. CASE Clock
  BY <1>4, <1>13, <1>17 DEF Clock
<1> QED
  BY <1>12, <1>14, <1>15, <1>16, <1>17 DEF Next

(* verifyEmail, registering, changing the address and resending links in   *)
(* any order: an account counts as verified only with an address whose     *)
(* owner has followed a link.                                              *)
THEOREM VerifiedAddressProvedHolds == Spec => []VerifiedAddressProved
<1>1. Init => LinksInv
  <2> SUFFICES ASSUME Init PROVE LinksInv
    OBVIOUS
  <2>1. ~account.verified /\ \A q \in Request : req[q].at # "verifying"
    BY DEF Init, Idle
  <2> QED
    BY <2>1 DEF LinksInv, VerifiedAddressProved
<1>2. LinksInv => VerifiedAddressProved
  BY DEF LinksInv
<1>3. Inv /\ LinksInv /\ [Next]_vars => LinksInv'
  BY LinksNext
<1> QED
  BY <1>1, <1>2, <1>3, InvHolds, PTL DEF Spec

-----------------------------------------------------------------------------
(* Where the tokens of a session are: with the calls that will present or  *)
(* save one, and in the storage of browsers.                               *)
Holds(p)      == req[p].at \in {"refreshing", "rotating", "rotated", "answered"}
Carries(p, s) == Holds(p) /\ Of(req[p].token) = s
Keeps(b, s)   == store[b] # NoToken /\ Of(store[b]) = s

(* A session none of whose refreshes overlapped or lost an answer has one  *)
(* browser and at most one call on the way, with the token of its row; the *)
(* browser's own token is that one too, or is about to be replaced.        *)
OneCarrier(s)     == \A p, o \in Request : Carries(p, s) /\ Carries(o, s) => p = o
CarriesCurrent(s) == \A p \in Request :
                       Carries(p, s) => Nr(req[p].token) = session[s].hash
OwnBrowser(s)     == \A p \in Request, b \in Browser : Carries(p, s) /\ Keeps(b, s)
                       => req[p].at # "answered" /\ req[p].browser = b
OneKeeper(s)      == \A b, c \in Browser : Keeps(b, s) /\ Keeps(c, s) => b = c
KeepsCurrent(s)   == \A b \in Browser : Keeps(b, s) =>
                       \/ Nr(store[b]) = session[s].hash
                       \/ \E p \in Request : Carries(p, s) /\ req[p].at = "rotated"
Orderly(s) == /\ OneCarrier(s) /\ CarriesCurrent(s) /\ OwnBrowser(s)
              /\ OneKeeper(s) /\ KeepsCurrent(s)

(* No token names a session that does not exist yet. *)
TokensNamed ==
  /\ \A p \in Request, s \in Session : Carries(p, s) => session[s].status # "none"
  /\ \A b \in Browser, s \in Session : Keeps(b, s) => session[s].status # "none"

ReuseInv ==
  /\ ReuseMeansOverlap
  /\ TokensNamed
  /\ \A s \in Session : s \notin disturbed => Orderly(s)

(* Steps that hand no token on: some calls drop theirs, storage may be     *)
(* cleared, a row may end.                                                 *)
LEMMA ReuseKept ==
  ASSUME ReuseInv,
         \A p \in Request, s \in Session : Carries(p, s)' =>
           /\ Carries(p, s) /\ req'[p].token = req[p].token
           /\ req'[p].browser = req[p].browser
           /\ req'[p].at = "answered" => req[p].at = "answered",
         \A p \in Request, s \in Session :
           Carries(p, s) /\ req[p].at = "rotated" =>
             (Carries(p, s)' /\ req'[p].at = "rotated") \/ s \in disturbed',
         \A b \in Browser, s \in Session : Keeps(b, s)' =>
           Keeps(b, s) /\ store'[b] = store[b],
         \A s \in Session : /\ session'[s].hash = session[s].hash
                            /\ session[s].status # "none" => session'[s].status # "none"
                            /\ session'[s].status = "reused" =>
                                 session[s].status = "reused",
         disturbed \subseteq disturbed'
  PROVE  ReuseInv'
<1>1. ReuseMeansOverlap'
  BY DEF ReuseInv, ReuseMeansOverlap
<1>2. TokensNamed'
  BY DEF ReuseInv, TokensNamed
<1>3. ASSUME NEW s \in Session, s \notin disturbed' PROVE Orderly(s)'
  <2>1. s \notin disturbed /\ Orderly(s)
    BY <1>3 DEF ReuseInv
  <2>2. OneCarrier(s)'
    BY <2>1 DEF Orderly, OneCarrier
  <2>3. CarriesCurrent(s)'
    BY <2>1 DEF Orderly, CarriesCurrent
  <2>4. OwnBrowser(s)'
    BY <2>1 DEF Orderly, OwnBrowser
  <2>5. OneKeeper(s)'
    BY <2>1 DEF Orderly, OneKeeper
  <2>6. KeepsCurrent(s)'
    <3> SUFFICES ASSUME NEW b \in Browser, Keeps(b, s)'
                 PROVE  \/ Nr(store'[b]) = session'[s].hash
                        \/ \E p \in Request : Carries(p, s)' /\ req'[p].at = "rotated"
      BY DEF KeepsCurrent
    <3>1. Keeps(b, s) /\ store'[b] = store[b]
      OBVIOUS
    <3>2. CASE Nr(store[b]) = session[s].hash
      BY <3>1, <3>2
    <3>3. ASSUME NEW p \in Request, Carries(p, s), req[p].at = "rotated"
          PROVE  Carries(p, s)' /\ req'[p].at = "rotated"
      BY <1>3, <3>3
    <3> QED
      BY <2>1, <3>1, <3>2, <3>3 DEF Orderly, KeepsCurrent
  <2> QED
    BY <2>2, <2>3, <2>4, <2>5, <2>6 DEF Orderly
<1> QED
  BY <1>1, <1>2, <1>3 DEF ReuseInv

(* A call that did not hold a rotated token moves on with what it had or   *)
(* with nothing.                                                           *)
LEMMA HandsOn ==
  ASSUME Inv, NEW q \in Request, NEW x, Go(q, x), req[q].at # "rotated",
         \/ x.at \notin {"refreshing", "rotating", "rotated", "answered"}
         \/ /\ req[q].at = "refreshing" /\ x.at = "rotating"
            /\ x.token = req[q].token /\ x.browser = req[q].browser
  PROVE  /\ \A p \in Request, s \in Session : Carries(p, s)' =>
              /\ Carries(p, s) /\ req'[p].token = req[p].token
              /\ req'[p].browser = req[p].browser
              /\ req'[p].at = "answered" => req[p].at = "answered"
         /\ \A p \in Request, s \in Session :
              Carries(p, s) /\ req[p].at = "rotated" =>
                Carries(p, s)' /\ req'[p].at = "rotated"
<1>1. /\ req' = [req EXCEPT ![q] = x] /\ req'[q] = x
      /\ \A p \in Request : p # q => req'[p] = req[p]
  BY DEF Go, Inv, TypeOK
<1> SUFFICES ASSUME NEW p \in Request, NEW s \in Session
             PROVE  /\ Carries(p, s)' =>
                         /\ Carries(p, s) /\ req'[p].token = req[p].token
                         /\ req'[p].browser = req[p].browser
                         /\ req'[p].at = "answered" => req[p].at = "answered"
                    /\ Carries(p, s) /\ req[p].at = "rotated" =>
                         Carries(p, s)' /\ req'[p].at = "rotated"
  OBVIOUS
<1>2. CASE p # q
  BY <1>1, <1>2 DEF Carries, Holds
<1>3. CASE p = q
  BY <1>1, <1>3 DEF Carries, Holds
<1> QED
  BY <1>2, <1>3

RowsTame ==
  \A s \in Session : /\ session'[s].hash = session[s].hash
                     /\ session[s].status # "none" => session'[s].status # "none"
                     /\ session'[s].status = "reused" => session[s].status = "reused"

LEMMA TameRows ==
  ASSUME Inv,
         \/ session' = session \/ \E which : session' = Revoked(which)
         \/ \E s \in Session : ExpireSession(s)
         \/ \E q \in Request : ChangePassword(q)
  PROVE  RowsTame
<1>0. session \in [Session -> Row]
  BY DEF Inv, TypeOK
<1>1. CASE session' = session
  BY <1>1 DEF RowsTame
<1>2. ASSUME NEW which, session' = Revoked(which) PROVE RowsTame
  BY <1>0, <1>2 DEF RowsTame, Revoked, Row
<1>3. ASSUME NEW s \in Session, ExpireSession(s) PROVE RowsTame
  <2>1. session' = [session EXCEPT ![s].status = "ended"]
    BY <1>3 DEF ExpireSession
  <2> QED
    BY <1>0, <2>1 DEF RowsTame, Row
<1>4. ASSUME NEW q \in Request, ChangePassword(q) PROVE RowsTame
  <2> DEFINE f == Revoked(Session \ {req[q].sid})
  <2>1. session' = [f EXCEPT ![req[q].sid].since = account.changes + 1]
    BY <1>4 DEF ChangePassword
  <2>2. /\ f \in [Session -> Row]
        /\ \A s \in Session : f[s].hash = session[s].hash
        /\ \A s \in Session : f[s].status \in {session[s].status, "ended"}
        /\ \A s \in Session : session[s].status = "none" <=> f[s].status = "none"
    BY <1>0 DEF Revoked, Active, Row
  <2> HIDE DEF f
  <2>3. \A s \in Session : /\ session'[s].hash = f[s].hash
                          /\ session'[s].status = f[s].status
    BY <2>1, <2>2 DEF Row
  <2> QED
    BY <2>2, <2>3 DEF RowsTame
<1> QED
  BY <1>1, <1>2, <1>3, <1>4

LEMMA NothingHandedOn ==
  ASSUME Inv, ReuseInv, NEW q \in Request, NEW x, Go(q, x), req[q].at # "rotated",
         \/ x.at \notin {"refreshing", "rotating", "rotated", "answered"}
         \/ /\ req[q].at = "refreshing" /\ x.at = "rotating"
            /\ x.token = req[q].token /\ x.browser = req[q].browser,
         \A b \in Browser : store'[b] \in {store[b], NoToken},
         RowsTame, disturbed' = disturbed
  PROVE  ReuseInv'
<1>1. \A b \in Browser, s \in Session : Keeps(b, s)' => Keeps(b, s) /\ store'[b] = store[b]
  BY DEF Keeps
<1> QED
  BY <1>1, HandsOn, ReuseKept DEF RowsTame

(* No call moves. *)
LEMMA NobodyMoves ==
  ASSUME Inv, ReuseInv, req' = req, store' = store, RowsTame, disturbed' = disturbed
  PROVE  ReuseInv'
<1>1. \A p \in Request, s \in Session : Carries(p, s)' <=> Carries(p, s)
  BY DEF Carries, Holds
<1>2. \A b \in Browser, s \in Session : Keeps(b, s)' <=> Keeps(b, s)
  BY DEF Keeps
<1> QED
  BY <1>1, <1>2, ReuseKept DEF RowsTame

LEMMA ReuseStart ==
  ASSUME Inv, ReuseInv, NEW q \in Request, Start(q)
  PROVE  ReuseInv'
<1> USE DEF At
<1>1. ASSUME NEW b \in Browser, AllowLogin(q, b) PROVE ReuseInv'
  BY <1>1, TameRows, NothingHandedOn DEF AllowLogin, rows, logs
<1>2. ASSUME NEW b \in Browser, NEW a \in Address, Register(q, b, a) PROVE ReuseInv'
  BY <1>2, TameRows, NothingHandedOn DEF Register, logs
<1>3. ASSUME NEW b \in Browser, NEW op \in {"read", "logout"}, Denied(q, b, op)
      PROVE  ReuseInv'
  BY <1>3, TameRows, NothingHandedOn DEF Denied, rows, logs
<1>4. ASSUME NEW b \in Browser, CheckPassword(q, store[b]) PROVE ReuseInv'
  <2>1. PICK x : Go(q, x) /\ x.at \in {"changing", "moving"}
    <3>1. CASE Go(q, [at |-> "changing", sid |-> Of(store[b])])
      BY <3>1
    <3>2. ASSUME NEW a \in Address, Go(q, [at |-> "moving", email |-> a])
          PROVE  \E x : Go(q, x) /\ x.at \in {"changing", "moving"}
      BY <3>2
    <3> QED
      BY <1>4, <3>1, <3>2 DEF CheckPassword
  <2> QED
    BY <1>4, <2>1, TameRows, NothingHandedOn DEF CheckPassword, Signed, rows, logs
<1>5. ASSUME NEW b \in Browser, LogoutAll(q, store[b]) PROVE ReuseInv'
  BY <1>5, TameRows, NobodyMoves DEF LogoutAll, logs
<1>6. ASSUME NEW b \in Browser, NEW s \in Session, RevokeSession(q, store[b], s)
      PROVE  ReuseInv'
  BY <1>6, TameRows, NobodyMoves DEF RevokeSession, logs
<1>7. CASE MarkResetsUsed(q)
  BY <1>7, TameRows, NothingHandedOn DEF MarkResetsUsed, logs
<1>8. ASSUME NEW r \in ResetToken, CheckReset(q, r) PROVE ReuseInv'
  BY <1>8, TameRows, NothingHandedOn DEF CheckReset, rows, logs
<1>9. ASSUME NEW m \in MailToken, CheckMail(q, m) PROVE ReuseInv'
  BY <1>9, TameRows, NothingHandedOn DEF CheckMail, rows
<1>10. CASE CheckUnverified(q)
  BY <1>10, TameRows, NothingHandedOn DEF CheckUnverified, rows, logs
<1> QED
  BY <1>1, <1>2, <1>3, <1>4, <1>5, <1>6, <1>7, <1>8, <1>9, <1>10 DEF Start

LEMMA ReuseServe ==
  ASSUME Inv, ReuseInv, NEW q \in Request, NEW b, NEW t, Serve(q, b, t)
  PROVE  ReuseInv'
<1>1. req[q].at # "rotated"
  BY DEF Serve, Read, Logout, Call, At
<1>2. PICK x : Go(q, x) /\ x.at \in {"leaving", "idle"}
  BY DEF Serve, Read, Logout, After, Done, Idle
<1>3. RowsTame /\ store' = store /\ disturbed' = disturbed
  BY TameRows DEF Serve, Read, Logout, rows, logs
<1> QED
  BY <1>1, <1>2, <1>3, NothingHandedOn

LEMMA ReuseClock ==
  ASSUME Inv, ReuseInv, Clock
  PROVE  ReuseInv'
<1>1. RowsTame
  BY TameRows DEF Clock, ExpireLink, WindowPasses
<1>2. req' = req /\ store' = store /\ disturbed' = disturbed
  BY DEF Clock, ExpireSession, ExpireLink, WindowPasses, logs
<1> QED
  BY <1>1, <1>2, NobodyMoves

(* Calls under way that hand on no token. *)
LEMMA ReuseProceed ==
  ASSUME Inv, ReuseInv, NEW q \in Request,
         \/ LoginFails(q) \/ LoginChecked(q) \/ LoseLogin(q) \/ CreateMail(q)
         \/ RefuseRefresh(q) \/ AcceptRefresh(q) \/ GiveUp(q) \/ DeniedAgain(q)
         \/ Leave(q) \/ ChangePassword(q) \/ ChangeEmail(q) \/ CreateReset(q)
         \/ ResetPassword(q) \/ VerifyEmail(q)
  PROVE  ReuseInv'
<1> USE DEF At
<1>1. CASE LoginFails(q) \/ LoginChecked(q) \/ LoseLogin(q)
  <2>1. \E x : Go(q, x) /\ x.at \in {"issuing", "idle"}
    <3>1. CASE LoginChecked(q)
      BY <3>1 DEF LoginChecked
    <3>2. CASE LoginFails(q) \/ LoseLogin(q)
      BY <3>2 DEF LoginFails, LoseLogin, Done, Idle
    <3> QED
      BY <1>1, <3>1, <3>2
  <2>2. /\ req[q].at # "rotated" /\ session' = session /\ store' = store
        /\ disturbed' = disturbed
    BY <1>1 DEF LoginFails, LoginChecked, LoseLogin, rows, logs
  <2> QED
    BY <2>1, <2>2, TameRows, NothingHandedOn
<1>2. CASE CreateMail(q) \/ CreateReset(q) \/ VerifyEmail(q)
  <2>1. \E x : Go(q, x) /\ x.at \in {"issuing", "idle"}
    BY <1>2 DEF CreateMail, CreateReset, VerifyEmail, Done, Idle
  <2>2. /\ req[q].at # "rotated" /\ session' = session /\ store' = store
        /\ disturbed' = disturbed
    BY <1>2 DEF CreateMail, CreateReset, VerifyEmail, logs
  <2> QED
    BY <2>1, <2>2, TameRows, NothingHandedOn
<1>3. CASE RefuseRefresh(q) \/ DeniedAgain(q)
  <2>1. \E x : Go(q, x) /\ x.at \in {"refused", "leaving", "idle"}
    BY <1>3 DEF RefuseRefresh, DeniedAgain, After, Wrap, Done, Idle
  <2>2. /\ req[q].at # "rotated" /\ session' = session /\ store' = store
        /\ disturbed' = disturbed
    BY <1>3 DEF RefuseRefresh, DeniedAgain, rows, logs
  <2> QED
    BY <2>1, <2>2, TameRows, NothingHandedOn
<1>4. CASE AcceptRefresh(q)
  BY <1>4, TameRows, NothingHandedOn DEF AcceptRefresh, Carry, rows, logs
<1>5. CASE GiveUp(q) \/ Leave(q)
  <2>1. \E x : Go(q, x) /\ x.at \in {"leaving", "idle"}
    BY <1>5 DEF GiveUp, Leave, Wrap, Done, Idle
  <2>2. /\ req[q].at # "rotated" /\ session' = session /\ disturbed' = disturbed
        /\ store' = [store EXCEPT ![req[q].browser] = NoToken]
    BY <1>5 DEF GiveUp, Leave, rows, logs
  <2>3. \A b \in Browser : store'[b] \in {store[b], NoToken}
    BY <2>2 DEF Inv, TypeOK
  <2> QED
    BY <2>1, <2>2, <2>3, TameRows, NothingHandedOn
<1>6. CASE ChangePassword(q) \/ ChangeEmail(q) \/ ResetPassword(q)
  <2>1. \E x : Go(q, x) /\ x.at \in {"mailing", "idle"}
    BY <1>6 DEF ChangePassword, ChangeEmail, ResetPassword, Done, Idle
  <2>2. req[q].at # "rotated" /\ store' = store /\ disturbed' = disturbed
    BY <1>6 DEF ChangePassword, ChangeEmail, ResetPassword, logs
  <2>3. RowsTame
    BY <1>6, TameRows DEF ChangeEmail, ResetPassword
  <2> QED
    BY <2>1, <2>2, <2>3, NothingHandedOn
<1> QED
  BY <1>1, <1>2, <1>3, <1>4, <1>5, <1>6

(* What a step makes of calls and storage when one call moves to x. *)
LEMMA CarriesAfter ==
  ASSUME Inv, NEW q \in Request, NEW x, Go(q, x)
  PROVE  /\ \A p \in Request : p # q =>
              /\ req'[p] = req[p]
              /\ \A s \in Session : Carries(p, s)' <=> Carries(p, s)
         /\ req'[q] = x
         /\ \A s \in Session : Carries(q, s)' <=>
              /\ x.at \in {"refreshing", "rotating", "rotated", "answered"}
              /\ Of(x.token) = s
BY DEF Inv, TypeOK, Go, Carries, Holds

(* issueSession: a session no token names yet. *)
LEMMA ReuseIssue ==
  ASSUME Inv, ReuseInv, NEW q \in Request, IssueSession(q)
  PROVE  ReuseInv'
<1>1. PICK s \in Session :
        /\ Fresh(s)
        /\ session' = [session EXCEPT ![s] =
             [status |-> "active", hash |-> 1, since |-> account.changes]]
        /\ Go(q, [at |-> "answered", browser |-> req[q].browser, token |-> <<s, 1>>])
  BY DEF IssueSession
<1> DEFINE x == [at |-> "answered", browser |-> req[q].browser, token |-> <<s, 1>>]
<1>2. /\ x.at = "answered" /\ x.token = <<s, 1>> /\ Of(x.token) = s /\ Nr(x.token) = 1
      /\ Go(q, x) /\ x.browser = req[q].browser
  BY <1>1 DEF Of, Nr
<1>3. req[q].at = "issuing" /\ store' = store /\ disturbed' = disturbed
  BY DEF IssueSession, At, logs
<1> HIDE DEF x
<1>4. session \in [Session -> Row]
  BY DEF Inv, TypeOK
<1>5. \A p \in Request : ~Carries(p, s)
  BY <1>1 DEF ReuseInv, TokensNamed, Fresh
<1>6. \A b \in Browser : ~Keeps(b, s)
  BY <1>1 DEF ReuseInv, TokensNamed, Fresh
<1>7. /\ session'[s].hash = 1 /\ session'[s].status = "active"
      /\ \A o \in Session : o # s => session'[o] = session[o]
  BY <1>1, <1>4
<1>8. \A o \in Session : \A p \in Request : Carries(p, o)' <=>
        IF p = q THEN o = s ELSE Carries(p, o)
  BY <1>2, <1>3, CarriesAfter
<1>9. \A o \in Session, b \in Browser : Keeps(b, o)' <=> Keeps(b, o)
  BY <1>3 DEF Keeps
<1>10. /\ req'[q] = x
       /\ \A p \in Request : p # q => req'[p] = req[p]
  BY <1>2, CarriesAfter
<1>11. ~ \E o \in Session : Carries(q, o)
  BY <1>3 DEF Carries, Holds
<1>12. ReuseMeansOverlap'
  BY <1>3, <1>7 DEF ReuseInv, ReuseMeansOverlap
<1>13. TokensNamed'
  BY <1>7, <1>8, <1>9 DEF ReuseInv, TokensNamed
<1>14. ASSUME NEW o \in Session, o \notin disturbed' PROVE Orderly(o)'
  <2>1. CASE o = s
    BY <1>2, <1>5, <1>6, <1>7, <1>8, <1>9, <1>10, <2>1
    DEF Orderly, OneCarrier, CarriesCurrent, OwnBrowser, OneKeeper, KeepsCurrent
  <2>2. CASE o # s
    <3>1. Orderly(o)
      BY <1>3, <1>14 DEF ReuseInv
    <3>2. \A p \in Request : /\ Carries(p, o)' <=> Carries(p, o)
                             /\ Carries(p, o) => req'[p] = req[p]
      BY <1>8, <1>10, <1>11, <2>2
    <3>3. session'[o] = session[o]
      BY <1>7, <2>2
    <3> QED
      BY <1>3, <1>9, <3>1, <3>2, <3>3
      DEF Orderly, OneCarrier, CarriesCurrent, OwnBrowser, OneKeeper, KeepsCurrent
  <2> QED
    BY <2>1, <2>2
<1> QED
  BY <1>12, <1>13, <1>14 DEF ReuseInv

(* A call saves the token it holds: saveSession after a login or a refresh. *)
LEMMA ReuseSave ==
  ASSUME Inv, ReuseInv, NEW q \in Request, SaveSession(q) \/ SaveRefreshed(q)
  PROVE  ReuseInv'
<1>1. PICK x : Go(q, x) /\ x.at \in {"idle", "resent"}
  BY DEF SaveSession, SaveRefreshed, Done, Idle, Carry
<1>2. /\ req[q].at \in {"answered", "rotated"} /\ session' = session
      /\ disturbed' = disturbed
      /\ store' = [store EXCEPT ![req[q].browser] = req[q].token]
  BY DEF SaveSession, SaveRefreshed, At, rows, logs
<1>a. PICK b \in Browser, s \in Session : b = req[q].browser /\ s = Of(req[q].token)
  BY <1>2, Carried, TokenParts DEF Answered, Refresher
<1>3. req[q].token \in Token /\ Carries(q, s) /\ req[q].token # NoToken
  BY <1>2, <1>a, Carried, TokenParts DEF Answered, Refresher, Carries, Holds
<1>4. /\ store'[b] = req[q].token
      /\ \A c \in Browser : c # b => store'[c] = store[c]
  BY <1>2, <1>a, <1>3 DEF Inv, TypeOK
<1>5. \A o \in Session, c \in Browser : Keeps(c, o)' <=>
        IF c = b THEN o = s ELSE Keeps(c, o)
  BY <1>a, <1>3, <1>4 DEF Keeps
<1>6. \A p \in Request, o \in Session :
        /\ Carries(p, o)' <=> p # q /\ Carries(p, o)
        /\ p # q => req'[p] = req[p]
  BY <1>1, CarriesAfter
<1>7. ReuseMeansOverlap'
  BY <1>2 DEF ReuseInv, ReuseMeansOverlap
<1>8. TokensNamed'
  BY <1>2, <1>3, <1>5, <1>6 DEF ReuseInv, TokensNamed
<1>9. ASSUME NEW o \in Session, o \notin disturbed' PROVE Orderly(o)'
  <2>0. Orderly(o)
    BY <1>2, <1>9 DEF ReuseInv
  <2>1. CASE o = s
    <3>1. \A p \in Request : ~Carries(p, s)'
      BY <1>3, <1>6, <2>0, <2>1 DEF Orderly, OneCarrier
    <3>2. \A c \in Browser : Keeps(c, s)' => c = b
      BY <1>a, <1>2, <1>3, <1>5, <2>0, <2>1 DEF Orderly, OwnBrowser
    <3>3. Nr(store'[b]) = session'[s].hash
      BY <1>2, <1>3, <1>4, <2>0, <2>1 DEF Orderly, CarriesCurrent
    <3> QED
      BY <2>1, <3>1, <3>2, <3>3
      DEF Orderly, OneCarrier, CarriesCurrent, OwnBrowser, OneKeeper, KeepsCurrent
  <2>2. CASE o # s
    <3>1. \A p \in Request : /\ Carries(p, o)' <=> Carries(p, o)
                             /\ Carries(p, o) => req'[p] = req[p]
      BY <1>3, <1>6, <2>2 DEF Carries
    <3>2. \A c \in Browser : Keeps(c, o)' => Keeps(c, o) /\ store'[c] = store[c]
      BY <1>4, <1>5, <2>2
    <3> QED
      BY <1>2, <2>0, <3>1, <3>2
      DEF Orderly, OneCarrier, CarriesCurrent, OwnBrowser, OneKeeper, KeepsCurrent
  <2> QED
    BY <2>1, <2>2
<1> QED
  BY <1>7, <1>8, <1>9 DEF ReuseInv

(* refreshSession reads the storage. *)
LEMMA ReuseRefresh ==
  ASSUME Inv, ReuseInv, NEW q \in Request, Refresh(q)
  PROVE  ReuseInv'
<1>1. PICK b \in Browser : b = req[q].browser
  BY Carried DEF Refresh, At, Wrapped
<1>2. /\ req[q].at = "denied" /\ session' = session /\ store' = store
  BY DEF Refresh, At, rows
<1>3. CASE store[b] = NoToken
  <2>1. \E x : Go(q, x) /\ x.at = "refused"
    BY <1>1, <1>3 DEF Refresh, Wrap
  <2>2. disturbed' = disturbed
    BY <1>1, <1>3 DEF Refresh
  <2> QED
    BY <1>2, <2>1, <2>2, TameRows, NothingHandedOn
<1>4. CASE store[b] # NoToken
  <2>1. store[b] \in Token
    BY <1>4 DEF Inv, TypeOK
  <2>2. PICK s \in Session : s = Of(store[b])
    BY <2>1, TokenParts
  <2>3. PICK x : /\ Go(q, x) /\ x.at = "refreshing" /\ x.token = store[b]
                 /\ x.browser = b
    BY <1>1, <1>4 DEF Refresh, Carry
  <2>4. disturbed' = IF Refreshing(s) = {} THEN disturbed ELSE disturbed \cup {s}
    BY <1>1, <1>4, <2>2 DEF Refresh
  <2>5. \A p \in Request, o \in Session :
          /\ Carries(p, o)' <=> IF p = q THEN o = s ELSE Carries(p, o)
          /\ p # q => req'[p] = req[p]
    BY <2>2, <2>3, CarriesAfter
  <2>6. \A o \in Session, c \in Browser : Keeps(c, o)' <=> Keeps(c, o)
    BY <1>2 DEF Keeps
  <2>7. \A o \in Session : ~Carries(q, o)
    BY <1>2 DEF Carries, Holds
  <2>8. req'[q] = x /\ Keeps(b, s)
    BY <1>4, <2>2, <2>3, CarriesAfter DEF Keeps
  <2>9. ReuseMeansOverlap'
    BY <1>2, <2>4 DEF ReuseInv, ReuseMeansOverlap
  <2>10. TokensNamed'
    BY <1>2, <2>5, <2>6, <2>8 DEF ReuseInv, TokensNamed
  <2>11. ASSUME NEW o \in Session, o \notin disturbed' PROVE Orderly(o)'
    <3>0. Orderly(o)
      BY <2>4, <2>11 DEF ReuseInv
    <3>1. CASE o = s
      <4>1. Refreshing(s) = {}
        BY <2>4, <2>11, <3>1
      <4>2. \A p \in Request : ~Carries(p, s)
        <5> SUFFICES ASSUME NEW p \in Request, Carries(p, s) PROVE FALSE
          OBVIOUS
        <5>1. req[p].at # "answered"
          BY <2>8, <3>0, <3>1 DEF Orderly, OwnBrowser
        <5>2. p \in Refreshing(s)
          BY <5>1 DEF Carries, Holds, Refreshing
        <5> QED
          BY <4>1, <5>2
      <4>3. Nr(store[b]) = session[s].hash
        BY <2>8, <3>0, <3>1, <4>2 DEF Orderly, KeepsCurrent
      <4>4. \A c \in Browser : Keeps(c, s)' => c = b
        BY <2>6, <2>8, <3>0, <3>1 DEF Orderly, OneKeeper
      <4>5. \A p \in Request : Carries(p, s)' => p = q
        BY <2>5, <4>2
      <4> QED
        BY <1>2, <2>3, <2>8, <3>1, <4>3, <4>4, <4>5
        DEF Orderly, OneCarrier, CarriesCurrent, OwnBrowser, OneKeeper, KeepsCurrent
    <3>2. CASE o # s
      <4>1. \A p \in Request : /\ Carries(p, o)' <=> Carries(p, o)
                               /\ Carries(p, o) => req'[p] = req[p]
        BY <2>5, <2>7, <3>2
      <4> QED
        BY <1>2, <2>6, <3>0, <4>1
        DEF Orderly, OneCarrier, CarriesCurrent, OwnBrowser, OneKeeper, KeepsCurrent
    <3> QED
      BY <3>1, <3>2
  <2> QED
    BY <2>9, <2>10, <2>11 DEF ReuseInv
<1> QED
  BY <1>3, <1>4

(* refresh: a token that is not the row's belongs to a disturbed session.  *)
LEMMA ReuseDetected ==
  ASSUME Inv, ReuseInv, NEW q \in Request, DetectReuse(q)
  PROVE  ReuseInv'
<1>1. PICK s \in Session : s = Of(req[q].token)
  BY Carried, TokenParts DEF DetectReuse, At, Refresher
<1>2. /\ req[q].at = "refreshing" /\ store' = store /\ disturbed' = disturbed
      /\ session' = [session EXCEPT ![s].status = "reused"]
      /\ session[s].status = "active" /\ Nr(req[q].token) # session[s].hash
  BY <1>1 DEF DetectReuse, At, Active, IsCurrent, logs
<1>3. s \in disturbed
  BY <1>1, <1>2 DEF ReuseInv, Orderly, CarriesCurrent, Carries, Holds
<1>4. /\ \A o \in Session : session'[o].hash = session[o].hash
      /\ \A o \in Session : o # s => session'[o] = session[o]
      /\ session'[s].status = "reused"
  BY <1>2 DEF Inv, TypeOK, Row
<1>5. PICK x : Go(q, x) /\ x.at = "refused"
  BY DEF DetectReuse, Wrap
<1>6. \A p \in Request, o \in Session : /\ Carries(p, o)' <=> p # q /\ Carries(p, o)
                                        /\ p # q => req'[p] = req[p]
  BY <1>5, CarriesAfter
<1>7. \A c \in Browser, o \in Session : Keeps(c, o)' <=> Keeps(c, o)
  BY <1>2 DEF Keeps
<1>8. ReuseMeansOverlap'
  BY <1>2, <1>3, <1>4 DEF ReuseInv, ReuseMeansOverlap
<1>9. TokensNamed'
  BY <1>4, <1>6, <1>7 DEF ReuseInv, TokensNamed
<1>10. ASSUME NEW o \in Session, o \notin disturbed' PROVE Orderly(o)'
  <2>1. Orderly(o)
    BY <1>2, <1>10 DEF ReuseInv
  <2>2. o # s
    BY <1>2, <1>3, <1>10
  <2>3. ~Carries(q, o)
    BY <1>1, <2>2 DEF Carries
  <2> QED
    BY <1>2, <1>4, <1>6, <1>7, <2>1, <2>3
    DEF Orderly, OneCarrier, CarriesCurrent, OwnBrowser, OneKeeper, KeepsCurrent
<1> QED
  BY <1>8, <1>9, <1>10 DEF ReuseInv

(* rotateSession. *)
LEMMA ReuseRotate ==
  ASSUME Inv, ReuseInv, NEW q \in Request, Rotate(q)
  PROVE  ReuseInv'
<1>1. PICK s \in Session : s = Of(req[q].token)
  BY Carried, TokenParts DEF Rotate, At, Refresher
<1>2. /\ req[q].at = "rotating" /\ store' = store /\ disturbed' = disturbed
      /\ session' = [session EXCEPT ![s] = RowRotated(@)]
  BY <1>1 DEF Rotate, At, logs
<1>3. PICK x : /\ Go(q, x) /\ x.at = "rotated" /\ x.token = <<s, session[s].hash + 1>>
               /\ x.browser = req[q].browser
  BY <1>1 DEF Rotate, Carry
<1>4. /\ \A o \in Session : session'[o].status = session[o].status
      /\ \A o \in Session : o # s => session'[o] = session[o]
      /\ session'[s].hash = session[s].hash + 1
  BY <1>2 DEF Inv, TypeOK, Row, RowRotated
<1>5. \A p \in Request, o \in Session : /\ Carries(p, o)' <=> Carries(p, o)
                                        /\ p # q => req'[p] = req[p]
  <2>1. Of(x.token) = s
    BY <1>3 DEF Of
  <2>2. \A o \in Session : Carries(q, o) <=> o = s
    BY <1>1, <1>2 DEF Carries, Holds
  <2> QED
    BY <1>3, <2>1, <2>2, CarriesAfter
<1>6. \A c \in Browser, o \in Session : Keeps(c, o)' <=> Keeps(c, o)
  BY <1>2 DEF Keeps
<1>7. req'[q] = x /\ Carries(q, s) /\ Nr(x.token) = session'[s].hash
  BY <1>1, <1>2, <1>3, <1>4, CarriesAfter DEF Carries, Holds, Nr
<1>8. ReuseMeansOverlap'
  BY <1>2, <1>4 DEF ReuseInv, ReuseMeansOverlap
<1>9. TokensNamed'
  BY <1>4, <1>5, <1>6 DEF ReuseInv, TokensNamed
<1>10. ASSUME NEW o \in Session, o \notin disturbed' PROVE Orderly(o)'
  <2>1. Orderly(o)
    BY <1>2, <1>10 DEF ReuseInv
  <2>2. CASE o = s
    <3>1. \A p \in Request : Carries(p, s) => p = q
      BY <1>7, <2>1, <2>2 DEF Orderly, OneCarrier
    <3>2. \A b \in Browser : Keeps(b, s) => req[q].browser = b
      BY <1>7, <2>1, <2>2 DEF Orderly, OwnBrowser
    <3> QED
      BY <1>3, <1>5, <1>6, <1>7, <2>2, <3>1, <3>2
      DEF Orderly, OneCarrier, CarriesCurrent, OwnBrowser, OneKeeper, KeepsCurrent
  <2>3. CASE o # s
    <3>1. ~Carries(q, o)
      BY <1>1, <2>3 DEF Carries
    <3> QED
      BY <1>2, <1>4, <1>5, <1>6, <2>1, <2>3, <3>1
      DEF Orderly, OneCarrier, CarriesCurrent, OwnBrowser, OneKeeper, KeepsCurrent
  <2> QED
    BY <2>2, <2>3
<1> QED
  BY <1>8, <1>9, <1>10 DEF ReuseInv

(* An answer that is lost leaves the session disturbed. *)
LEMMA ReuseLost ==
  ASSUME Inv, ReuseInv, NEW q \in Request, LoseRefresh(q)
  PROVE  ReuseInv'
<1>1. PICK x : Go(q, x) /\ x.at = "refused"
  BY DEF LoseRefresh, Wrap
<1>2. /\ session' = session /\ store' = store
      /\ disturbed' = disturbed \cup {Of(req[q].token)}
  BY DEF LoseRefresh, rows
<1>3. \A p \in Request, o \in Session : /\ Carries(p, o)' <=> p # q /\ Carries(p, o)
                                        /\ p # q => req'[p] = req[p]
  BY <1>1, CarriesAfter
<1>4. \A c \in Browser, o \in Session : Keeps(c, o)' <=> Keeps(c, o)
  BY <1>2 DEF Keeps
<1>5. \A o \in Session : Carries(q, o) => o \in disturbed'
  BY <1>2 DEF Carries
<1> QED
  BY <1>2, <1>3, <1>4, <1>5, ReuseKept

(* refresh against refresh, logout and login, in any number of browsers: a *)
(* session is taken for stolen only when two refreshes of it overlapped or *)
(* the answer of one was lost.                                             *)
THEOREM ReuseMeansOverlapHolds == Spec => []ReuseMeansOverlap
<1>1. Init => ReuseInv
  <2> SUFFICES ASSUME Init PROVE ReuseInv
    OBVIOUS
  <2>1. \A p \in Request, s \in Session : ~Carries(p, s)
    BY DEF Init, Idle, Carries, Holds
  <2>2. \A b \in Browser, s \in Session : ~Keeps(b, s)
    BY DEF Init, Keeps
  <2>3. ReuseMeansOverlap
    BY DEF Init, ReuseMeansOverlap, NoRow
  <2> QED
    BY <2>1, <2>2, <2>3
    DEF ReuseInv, TokensNamed, Orderly, OneCarrier, CarriesCurrent, OwnBrowser,
        OneKeeper, KeepsCurrent
<1>2. Inv /\ ReuseInv /\ [Next]_vars => ReuseInv'
  <2> SUFFICES ASSUME Inv, ReuseInv, [Next]_vars PROVE ReuseInv'
    OBVIOUS
  <2>1. ASSUME NEW q \in Request, Proceed(q) PROVE ReuseInv'
    BY <2>1, ReuseProceed, ReuseServe, ReuseIssue, ReuseSave, ReuseRefresh,
       ReuseDetected, ReuseRotate, ReuseLost DEF Proceed
  <2>2. CASE UNCHANGED vars
    <3>1. req' = req /\ store' = store /\ session' = session /\ disturbed' = disturbed
      BY <2>2 DEF vars, rows, logs
    <3> QED
      BY <3>1, TameRows, NobodyMoves
  <2> QED
    BY <2>1, <2>2, ReuseStart, ReuseServe, ReuseClock DEF Next
<1>3. ReuseInv => ReuseMeansOverlap
  BY DEF ReuseInv
<1> QED
  BY <1>1, <1>2, <1>3, InvHolds, PTL DEF Spec

=============================================================================
