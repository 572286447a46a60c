------------------------------ MODULE Sessions ------------------------------
(***************************************************************************)
(* One user account: AuthService beside the browsers that use it through   *)
(* lib/client-api.ts.                                                      *)
(*                                                                         *)
(* A session row carries the hash of one refresh token.  Every refresh     *)
(* puts a new one in its place, and a token that is not the one of the row *)
(* is taken for stolen: the session is revoked.  The tokens of a session   *)
(* are numbered in the order they are made; an access token is made and    *)
(* saved together with a refresh token and shares its number.  Access      *)
(* tokens are not looked up anywhere: they are good for a quarter of an    *)
(* hour, also after their session has ended; whether one has lapsed by the *)
(* time it is used is a choice.                                            *)
(*                                                                         *)
(* The tabs of a browser share its storage.  A call that is answered 401   *)
(* refreshes with the token it finds there, saves the answer and repeats   *)
(* itself once.  Sending a call and serving it is one step; where a server *)
(* handler reads in one statement and writes in another, other calls come  *)
(* in between.                                                             *)
(***************************************************************************)
EXTENDS Integers, FiniteSets

CONSTANTS
  Session,      \* ids of AuthSession rows
  Browser,      \* browsers, each with one local storage
  Request,      \* calls under way at once; a finished one is used again
  Address,      \* email addresses of the account
  ResetToken,   \* PasswordResetToken rows
  MailToken,    \* EmailVerificationToken rows
  NoToken,
  Threshold,    \* AUTH_LOCKOUT_THRESHOLD
  MaxIssued,    \* bound: refresh tokens made for one session
  MaxChanges,   \* bound: changes that sign other devices out
  MaxLost       \* bound: answers that never arrive

ASSUME BoundAssumption ==
  /\ Threshold \in Nat \ {0}
  /\ MaxIssued \in Nat \ {0} /\ MaxChanges \in Nat /\ MaxLost \in Nat
ASSUME RequestAssumption == IsFiniteSet(Request)
ASSUME TokenAssumption   == NoToken \notin Session \X Nat

VARIABLES
  account,   \* the User row: exists, address, verified, changes so far
  session,   \* the AuthSession rows
  store,     \* localStorage of each browser
  reset,     \* PasswordResetToken rows
  mail,      \* EmailVerificationToken rows
  failures,  \* failed LoginAttempt rows within the window
  req,       \* where each call stands
  lost,      \* answers that never arrived
  disturbed, \* sessions of which two refreshes overlapped or an answer was lost
  proved     \* addresses whose owner has followed a link sent there

rows == <<account, session, reset, mail, failures>>
logs == <<lost, disturbed, proved>>
vars == <<rows, store, req, logs>>

Number  == 1..MaxIssued
Token   == Session \X Number
Of(t)   == t[1]   \* sid of an access token, parseRefreshToken
Nr(t)   == t[2]

Account == [open : BOOLEAN, email : Address, verified : BOOLEAN,
            changes : 0..MaxChanges]
\* A session has ended when it was revoked or has expired; "reused" is the one
\* revokedReason that is told apart.  hash is the number of the token of which
\* the row has the hash.
Row     == [status : {"none", "active", "ended", "reused"},
            hash : 0..MaxIssued, since : 0..MaxChanges]
NoRow   == [status |-> "none", hash |-> 0, since |-> 0]

Idle      == [at |-> "idle"]
\* fetchWithRefresh of a call with a bearer token
Wrapped   == [at : {"denied", "refused", "leaving"}, op : {"read", "logout"},
              browser : Browser]
Refresher == [at : {"refreshing", "rotating", "rotated", "resent"},
              op : {"read", "logout"}, browser : Browser, token : Token]
SigningIn == [at : {"allowed", "issuing"}, browser : Browser]
Greeting  == [at : {"greeting"}, browser : Browser, email : Address]
Answered  == [at : {"answered"}, browser : Browser, token : Token]
Mailing   == [at : {"mailing"}, email : Address]
Forgot    == [at : {"forgot"}]
Resetting == [at : {"resetting"}, token : ResetToken]
Verifying == [at : {"verifying"}, token : MailToken]
Changing  == [at : {"changing"}, sid : Session]
Moving    == [at : {"moving"}, email : Address]
Stage     == {Idle} \cup Wrapped \cup Refresher \cup SigningIn \cup Greeting
               \cup Answered \cup Mailing \cup Forgot \cup Resetting
               \cup Verifying \cup Changing \cup Moving

TypeOK ==
  /\ account \in Account
  /\ session \in [Session -> Row]
  /\ store \in [Browser -> Token \cup {NoToken}]
  /\ reset \in [ResetToken -> {"none", "unused", "spent"}]
  /\ mail \in [MailToken -> [state : {"none", "unused", "spent"}, email : Address]]
  /\ failures \in Nat
  /\ req \in [Request -> Stage]
  /\ lost \in 0..MaxLost
  /\ disturbed \subseteq Session
  /\ proved \subseteq Address

-----------------------------------------------------------------------------
(* Bookkeeping of the model. *)
At(q, stage) == req[q].at = stage
Waiting(stages) == {q \in Request : req[q].at \in stages}

Go(q, state) == req' = [req EXCEPT ![q] = state]
Done(q)      == Go(q, Idle)
Wrap(at, q)  == [at |-> at, op |-> req[q].op, browser |-> req[q].browser]
Carry(at, q, t) == [at |-> at, op |-> req[q].op, browser |-> req[q].browser,
                    token |-> t]

\* A call starts only where the bounds leave room for what it may create.
UnderWay  == Request \ Waiting({"idle"})
Rotators  == Waiting({"denied", "refreshing", "rotating"})
Entrants  == Waiting({"allowed"})
Changers  == Waiting({"changing", "moving", "resetting"})
Issued(s) == IF session[s].hash = 0 THEN 1 ELSE session[s].hash

TokensLeft   == \A s \in Session :
                  Issued(s) + Cardinality(UnderWay) < MaxIssued
SessionsLeft == Cardinality(Waiting({"allowed", "greeting", "issuing"}))
                  < Cardinality({s \in Session : session[s].status = "none"})
MailsLeft    == Cardinality(Waiting({"greeting", "moving", "mailing"}))
                  < Cardinality({m \in MailToken : mail[m].state = "none"})
ResetsLeft   == Cardinality(Waiting({"forgot"}))
                  < Cardinality({r \in ResetToken : reset[r] = "none"})
ChangesLeft  == account.changes + Cardinality(Changers) < MaxChanges

-----------------------------------------------------------------------------
(* An account registered earlier and not verified yet, or one still to be  *)
(* registered.                                                             *)
Init ==
  /\ account \in [open : BOOLEAN, email : Address, verified : {FALSE},
                  changes : {0}]
  /\ session = [s \in Session |-> NoRow]
  /\ store = [b \in Browser |-> NoToken]
  /\ reset = [r \in ResetToken |-> "none"]
  /\ mail \in [MailToken -> {[state |-> "none", email |-> account.email]}]
  /\ failures = 0
  /\ req = [q \in Request |-> Idle]
  /\ lost = 0
  /\ disturbed = {}
  /\ proved = {}

-----------------------------------------------------------------------------
(* The server's session rows. *)
Active(s) == session[s].status = "active"

(* updateMany ... where revokedAt is null; what it does to a session that *)
(* has expired makes no difference.                                        *)
Revoked(which) ==
  [s \in Session |->
     IF s \in which /\ Active(s)
     THEN [session[s] EXCEPT !.status = "ended"] ELSE session[s]]

(* Mutant: the row of an ended session may be taken again. *)
FreeOrEnded(s) == session[s].status \in {"none", "ended"}

(* randomUUID: the id of no row. *)
Fresh(s) == session[s].status = "none"

(* issueSession: a new row with its first token. *)
IssueSession(q) ==
  /\ At(q, "issuing")
  /\ \E s \in Session :
       /\ Fresh(s)
       /\ session' = [session EXCEPT ![s] =
            [status |-> "active", hash |-> 1, since |-> account.changes]]
       /\ Go(q, [at |-> "answered", browser |-> req[q].browser,
                 token |-> <<s, 1>>])
  /\ UNCHANGED <<account, store, reset, mail, failures, logs>>

(* saveSession in LoginForm and RegisterForm. *)
SaveSession(q) ==
  /\ At(q, "answered")
  /\ store' = [store EXCEPT ![req[q].browser] = req[q].token]
  /\ Done(q)
  /\ UNCHANGED <<rows, logs>>

(* The answer of a login never arrives; the form shows an error. *)
LoseLogin(q) ==
  /\ At(q, "answered") /\ lost < MaxLost
  /\ lost' = lost + 1
  /\ Done(q)
  /\ UNCHANGED <<rows, store, disturbed, proved>>

-----------------------------------------------------------------------------
(* Signing in. *)
LockedLate(n)  == n <= Threshold \* mutant: one failure more

(* assertLoginAllowed. *)
LoginAllowed(n) == n < Threshold

AllowLogin(q, b) ==
  /\ At(q, "idle") /\ SessionsLeft
  /\ LoginAllowed(failures)
  /\ Go(q, [at |-> "allowed", browser |-> b])
  /\ UNCHANGED <<rows, store, logs>>

(* recordLoginAttempt of a wrong password. *)
LoginFails(q) ==
  /\ At(q, "allowed")
  /\ failures' = failures + 1
  /\ Done(q)
  /\ UNCHANGED <<account, session, store, reset, mail, logs>>

LoginChecked(q) ==
  /\ At(q, "allowed") /\ account.open
  /\ Go(q, [at |-> "issuing", browser |-> req[q].browser])
  /\ UNCHANGED <<rows, store, logs>>

(* register, of an address that is not taken. *)
Register(q, b, a) ==
  /\ At(q, "idle") /\ ~account.open /\ SessionsLeft /\ MailsLeft
  /\ account' = [account EXCEPT !.open = TRUE, !.email = a, !.verified = FALSE]
  /\ Go(q, [at |-> "greeting", browser |-> b, email |-> a])
  /\ UNCHANGED <<session, store, reset, mail, failures, logs>>

(* createEmailVerificationToken. *)
CreateMail(q) ==
  /\ req[q].at \in {"greeting", "mailing"}
  /\ \E m \in MailToken :
       /\ mail[m].state = "none"
       /\ mail' = [mail EXCEPT ![m] = [state |-> "unused", email |-> req[q].email]]
  /\ IF At(q, "greeting")
     THEN Go(q, [at |-> "issuing", browser |-> req[q].browser])
     ELSE Done(q)
  /\ UNCHANGED <<account, session, store, reset, failures, logs>>

-----------------------------------------------------------------------------
(* Calls with an access token, and fetchWithRefresh around them. *)
(* A call of browser b that JwtStrategy lets pass with token t: its first  *)
(* try, or the one after a refresh.                                        *)
Call(q, b, t, op) ==
  \/ At(q, "idle") /\ t = store[b] /\ t # NoToken
  \/ At(q, "resent") /\ req[q].op = op /\ b = req[q].browser /\ t = req[q].token

(* The server answers 401. *)
Denied(q, b, op) ==
  /\ At(q, "idle") /\ TokensLeft
  /\ store[b] # NoToken
  /\ Go(q, [at |-> "denied", op |-> op, browser |-> b])
  /\ UNCHANGED <<rows, store, logs>>

After(q, b, op) ==
  IF op = "logout" THEN Go(q, [at |-> "leaving", op |-> op, browser |-> b])
                   ELSE Done(q)

(* listSessions and every other call that changes nothing here. *)
Read(q, b, t) ==
  /\ Call(q, b, t, "read")
  /\ After(q, b, "read")
  /\ UNCHANGED <<rows, store, logs>>

(* logout of the service: the session the access token names. *)
Logout(q, b, t) ==
  /\ Call(q, b, t, "logout")
  /\ session' = Revoked({Of(t)})
  /\ After(q, b, "logout")
  /\ UNCHANGED <<account, store, reset, mail, failures, logs>>

(* A second 401 goes back to the caller. *)
DeniedAgain(q) ==
  /\ At(q, "resent")
  /\ After(q, req[q].browser, req[q].op)
  /\ UNCHANGED <<rows, store, logs>>

(* clearSession, at the end of logout in the browser. *)
Leave(q) ==
  /\ At(q, "leaving")
  /\ store' = [store EXCEPT ![req[q].browser] = NoToken]
  /\ Done(q)
  /\ UNCHANGED <<rows, logs>>

-----------------------------------------------------------------------------
(* refreshSession in the browser, refresh and rotateSession of the service. *)
Refreshing(s) == {p \in Request :
  /\ req[p].at \in {"refreshing", "rotating", "rotated"}
  /\ Of(req[p].token) = s}

(* The refresh token is read from the storage when the 401 arrives. *)
Refresh(q) ==
  /\ At(q, "denied")
  /\ LET t == store[req[q].browser] IN
     IF t = NoToken
     THEN Go(q, Wrap("refused", q)) /\ UNCHANGED disturbed
     ELSE /\ Go(q, Carry("refreshing", q, t))
          /\ disturbed' = IF Refreshing(Of(t)) = {} THEN disturbed
                                                    ELSE disturbed \cup {Of(t)}
  /\ UNCHANGED <<rows, store, lost, proved>>

(* The session has ended. *)
RefuseRefresh(q) ==
  /\ At(q, "refreshing") /\ ~Active(Of(req[q].token))
  /\ Go(q, Wrap("refused", q))
  /\ UNCHANGED <<rows, store, logs>>

IsCurrent(t) == session[Of(t)].hash = Nr(t)

(* revokeTokenFamily: a family has one row. *)
DetectReuse(q) ==
  /\ At(q, "refreshing")
  /\ Active(Of(req[q].token)) /\ ~IsCurrent(req[q].token)
  /\ session' = [session EXCEPT ![Of(req[q].token)].status = "reused"]
  /\ Go(q, Wrap("refused", q))
  /\ UNCHANGED <<account, store, reset, mail, failures, logs>>

AcceptRefresh(q) ==
  /\ At(q, "refreshing")
  /\ Active(Of(req[q].token)) /\ IsCurrent(req[q].token)
  /\ Go(q, Carry("rotating", q, req[q].token))
  /\ UNCHANGED <<rows, store, logs>>

(* Mutant: rotateSession sets the status as well. *)
RowRevived(row) == [row EXCEPT !.hash = @ + 1, !.status = "active"]

(* The row rotateSession leaves: whatever its status has become, and *)
(* whatever its hash has become, since refresh looked.                     *)
RowRotated(row) == [row EXCEPT !.hash = @ + 1]

Rotate(q) ==
  /\ At(q, "rotating")
  /\ LET s == Of(req[q].token) IN
     /\ session' = [session EXCEPT ![s] = RowRotated(@)]
     /\ Go(q, Carry("rotated", q, <<s, session[s].hash + 1>>))
  /\ UNCHANGED <<account, store, reset, mail, failures, logs>>

(* Mutant: only the access token of the answer is saved. *)
SaveAccessOnly(q) ==
  /\ At(q, "rotated")
  /\ Go(q, Carry("resent", q, req[q].token))
  /\ UNCHANGED <<rows, store, logs>>

(* saveSession in refreshSession. *)
SaveRefreshed(q) ==
  /\ At(q, "rotated")
  /\ store' = [store EXCEPT ![req[q].browser] = req[q].token]
  /\ Go(q, Carry("resent", q, req[q].token))
  /\ UNCHANGED <<rows, logs>>

(* The answer of a refresh never arrives: fetch throws, or the tab is left. *)
LoseRefresh(q) ==
  /\ At(q, "rotated") /\ lost < MaxLost
  /\ lost' = lost + 1
  /\ disturbed' = disturbed \cup {Of(req[q].token)}
  /\ Go(q, Wrap("refused", q))
  /\ UNCHANGED <<rows, store, proved>>

(* clearSession and the way to /login. *)
GiveUp(q) ==
  /\ At(q, "refused")
  /\ store' = [store EXCEPT ![req[q].browser] = NoToken]
  /\ IF req[q].op = "logout" THEN Go(q, Wrap("leaving", q)) ELSE Done(q)
  /\ UNCHANGED <<rows, logs>>

-----------------------------------------------------------------------------
(* Other operations of a signed-in caller.  The page of sessions calls     *)
(* revokeSession without fetchWithRefresh; the rest has no page and is for *)
(* clients of the API.                                                     *)
Signed(q, t) == At(q, "idle") /\ t # NoToken

RevokeSession(q, t, s) ==
  /\ Signed(q, t)
  /\ Active(s)
  /\ session' = Revoked({s})
  /\ UNCHANGED <<account, store, reset, mail, failures, req, logs>>

LogoutAll(q, t) ==
  /\ Signed(q, t)
  /\ session' = Revoked(Session)
  /\ UNCHANGED <<account, store, reset, mail, failures, req, logs>>

(* The password is checked before the transaction. *)
CheckPassword(q, t) ==
  /\ Signed(q, t) /\ ChangesLeft
  /\ \/ Go(q, [at |-> "changing", sid |-> Of(t)])
     \/ /\ MailsLeft
        /\ \E a \in Address : Go(q, [at |-> "moving", email |-> a])
  /\ UNCHANGED <<rows, store, logs>>

(* The session of the caller goes on and counts as begun after the change. *)
ChangePassword(q) ==
  /\ At(q, "changing")
  /\ account' = [account EXCEPT !.changes = @ + 1]
  /\ session' = [Revoked(Session \ {req[q].sid})
                   EXCEPT ![req[q].sid].since = account.changes + 1]
  /\ Done(q)
  /\ UNCHANGED <<store, reset, mail, failures, logs>>

ChangeEmail(q) ==
  /\ At(q, "moving")
  /\ account' = [account EXCEPT !.email = req[q].email, !.verified = FALSE,
                                !.changes = @ + 1]
  /\ session' = Revoked(Session)
  /\ Go(q, [at |-> "mailing", email |-> req[q].email])
  /\ UNCHANGED <<store, reset, mail, failures, logs>>

-----------------------------------------------------------------------------
(* Operations of a caller who is not signed in. *)
SpentResets == [r \in ResetToken |->
                  IF reset[r] = "unused" THEN "spent" ELSE reset[r]]

(* forgotPassword: earlier tokens are used up, then a new one is made. *)
MarkResetsUsed(q) ==
  /\ At(q, "idle") /\ account.open /\ ResetsLeft
  /\ reset' = SpentResets
  /\ Go(q, [at |-> "forgot"])
  /\ UNCHANGED <<account, session, store, mail, failures, logs>>

CreateReset(q) ==
  /\ At(q, "forgot")
  /\ \E r \in ResetToken : reset[r] = "none" /\ reset' = [reset EXCEPT ![r] = "unused"]
  /\ Done(q)
  /\ UNCHANGED <<account, session, store, mail, failures, logs>>

(* resetPassword: the token is checked, then the transaction runs. *)
CheckReset(q, r) ==
  /\ At(q, "idle") /\ reset[r] = "unused" /\ ChangesLeft
  /\ Go(q, [at |-> "resetting", token |-> r])
  /\ UNCHANGED <<rows, store, logs>>

ResetPassword(q) ==
  /\ At(q, "resetting")
  /\ account' = [account EXCEPT !.changes = @ + 1]
  /\ reset' = SpentResets
  /\ session' = Revoked(Session)
  /\ Done(q)
  /\ UNCHANGED <<store, mail, failures, logs>>

(* verifyEmail.  Following the link is what proves the address. *)
CheckMail(q, m) ==
  /\ At(q, "idle") /\ mail[m].state = "unused"
  /\ proved' = proved \cup {mail[m].email}
  /\ Go(q, [at |-> "verifying", token |-> m])
  /\ UNCHANGED <<rows, store, lost, disturbed>>

(* Mutant: the address the link was sent to is not looked at. *)
VerifiedAsIs(user, address) == [user EXCEPT !.verified = TRUE]

(* The user's address becomes the one the token was made for. *)
Verified(user, address) ==
  [user EXCEPT !.verified = TRUE, !.email = address]

VerifyEmail(q) ==
  /\ At(q, "verifying")
  /\ account' = Verified(account, mail[req[q].token].email)
  /\ mail' = [mail EXCEPT ![req[q].token].state = "spent"]
  /\ Done(q)
  /\ UNCHANGED <<session, store, reset, failures, logs>>

(* resendVerification. *)
CheckUnverified(q) ==
  /\ At(q, "idle") /\ account.open /\ ~account.verified /\ MailsLeft
  /\ Go(q, [at |-> "mailing", email |-> account.email])
  /\ UNCHANGED <<rows, store, logs>>

-----------------------------------------------------------------------------
(* The clock. *)
ExpireSession(s) ==
  /\ Active(s)
  /\ session' = [session EXCEPT ![s].status = "ended"]
  /\ UNCHANGED <<account, store, reset, mail, failures, req, logs>>

(* A link runs out: the rows are kept but good for nothing. *)
ExpireLink ==
  /\ \/ \E r \in ResetToken : /\ reset[r] = "unused"
                              /\ reset' = [reset EXCEPT ![r] = "spent"]
                              /\ UNCHANGED mail
     \/ \E m \in MailToken : /\ mail[m].state = "unused"
                             /\ mail' = [mail EXCEPT ![m].state = "spent"]
                             /\ UNCHANGED reset
  /\ UNCHANGED <<account, session, store, failures, req, logs>>

(* The oldest failure leaves the window. *)
WindowPasses ==
  /\ failures > 0
  /\ failures' = failures - 1
  /\ UNCHANGED <<account, session, store, reset, mail, req, logs>>

-----------------------------------------------------------------------------
Start(q) ==
  \/ \E b \in Browser :
       \/ AllowLogin(q, b)
       \/ \E a \in Address : Register(q, b, a)
       \/ \E op \in {"read", "logout"} : Denied(q, b, op)
       \/ CheckPassword(q, store[b])
       \/ LogoutAll(q, store[b])
       \/ \E s \in Session : RevokeSession(q, store[b], s)
  \/ MarkResetsUsed(q)
  \/ \E r \in ResetToken : CheckReset(q, r)
  \/ \E m \in MailToken : CheckMail(q, m)
  \/ CheckUnverified(q)

Serve(q, b, t) == Read(q, b, t) \/ Logout(q, b, t)

(* What a call does once it is under way. *)
Proceed(q) ==
  \/ LoginFails(q) \/ LoginChecked(q) \/ IssueSession(q)
  \/ SaveSession(q) \/ LoseLogin(q) \/ CreateMail(q)
  \/ Refresh(q) \/ RefuseRefresh(q) \/ DetectReuse(q) \/ AcceptRefresh(q)
  \/ Rotate(q) \/ SaveRefreshed(q) \/ LoseRefresh(q) \/ GiveUp(q)
  \/ DeniedAgain(q) \/ Leave(q)
  \/ (At(q, "resent") /\ Serve(q, req[q].browser, req[q].token))
  \/ ChangePassword(q) \/ ChangeEmail(q)
  \/ CreateReset(q) \/ ResetPassword(q) \/ VerifyEmail(q)

Clock ==
  \/ \E s \in Session : ExpireSession(s)
  \/ ExpireLink
  \/ WindowPasses

Next ==
  \/ \E q \in Request : Start(q) \/ Proceed(q)
  \/ \E q \in Request, b \in Browser : At(q, "idle") /\ Serve(q, b, store[b])
  \/ Clock

Spec == Init /\ [][Next]_vars

-----------------------------------------------------------------------------
(* A session is revoked for the reuse of a token only after two refreshes  *)
(* of it overlapped or the answer of one was lost: a browser that refreshes*)
(* one at a time, and gets its answers, is never signed out by rotation    *)
(* (refresh, rotateSession, refreshSession).                               *)
ReuseMeansOverlap ==
  \A s \in Session :
    session[s].status = "reused" => s \in disturbed

(* A change of password or address, or a reset, ends every session begun   *)
(* before it but the one that made the change, whatever refreshes are under*)
(* way (changePassword, changeEmail, resetPassword against rotateSession). *)
ChangesEndSessions ==
  \A s \in Session : Active(s) => session[s].since = account.changes

(* An account is verified only with an address whose owner has followed a  *)
(* link, also when the address was changed after the link was sent         *)
(* (verifyEmail sets the address of the token).                            *)
VerifiedAddressProved == account.verified => account.email \in proved

(* The count is read before the password is checked, so calls under way    *)
(* come on top of the threshold, but no more than that                     *)
(* (assertLoginAllowed, recordLoginAttempt).                               *)
FailuresBounded == failures <= Threshold - 1 + Cardinality(Request)

(* Every step is one of SessionBook: whatever a rotation that is under way *)
(* writes to its row, a session that has ended stays so, and every login   *)
(* gets a session of its own.                                              *)
Book == INSTANCE SessionBook WITH
  live  <- {s \in Session : Active(s)},
  ended <- {s \in Session : session[s].status \in {"ended", "reused"}}
SessionBookKept == Book!Spec
=============================================================================
