------------------------------ MODULE Accounts ------------------------------
(***************************************************************************)
(* The account behind one e-mail address: registration and verification    *)
(* (src/controllers/authController.js), the login lockout, the password    *)
(* reset and change, two-factor authentication with its recovery codes     *)
(* (src/utils/twoFactorCrypto.js), the sign-in with Google, and the refresh *)
(* sessions with their rotation and reuse detection.                       *)
(*                                                                         *)
(* Every handler loads a document, awaits a hash, a mail or another query, *)
(* and saves later; a request is therefore a record of how far it got, with *)
(* the document it loaded in "doc".  A save writes the paths the handler    *)
(* changed and no other; mongoose adds the version to the filter of a save  *)
(* that replaces an array, here the recovery codes, and of no other save.   *)
(* A request that stays where it is stands for a crash as well.             *)
(*                                                                         *)
(* Hashes, names, roles and device labels are left out; a time bound (the   *)
(* lock, the code, the challenge token, a session) is an action that may    *)
(* happen at any moment.                                                    *)
(***************************************************************************)
EXTENDS Integers, Sequences, FiniteSets

CONSTANTS
    Requests,       \* slots of requests handled at once
    Passwords,      \* passwords the policy and the breach list accept
    Codes,          \* recovery codes of one enrolment (10 in the code)
    Threshold,      \* LOGIN_MAX_FAILED_ATTEMPTS
    MaxRequests,    \* bound: requests started
    MaxSessions,    \* bound: sessions created
    None

VARIABLES
    user,           \* the row of the address in users, or None
    pending,        \* its row in pendingusers, or None
    sessions,       \* the refresh sessions in the order they were created
    req,            \* what each slot is doing
    started,        \* requests started so far
    issued,         \* tokens and codes sent by mail so far: each is new
    mfa,            \* a password was accepted and a challenge token given
    failures,       \* history: wrong passwords since the last reset
    uses,           \* history: how often each recovery code was accepted
    proofs          \* history: sign-ins whose second factor was accepted

vars == <<user, pending, sessions, req, started, issued, mfa, failures, uses, proofs>>
accountVars == <<user, pending, issued, mfa, failures, uses, proofs>>

Enrolments == 0..MaxRequests
Recovery(e) == {<<e, c>> : c \in Codes}
NoFactor == [enabled |-> FALSE, secret |-> FALSE, pending |-> FALSE, codes |-> {}, enrolment |-> 0]
Enrolled ==
    [enabled |-> TRUE, secret |-> TRUE, pending |-> FALSE, codes |-> Recovery(0), enrolment |-> 0]
NewUser(pw) == [password |-> pw, fails |-> 0, lock |-> "none", otp |-> 0,
                linked |-> FALSE, factor |-> NoFactor, version |-> 0]

Idle == [op |-> "idle", doc |-> None, x |-> None]

(* The rows; a password that no request gave is the one of the first state. *)
Secrets == Passwords \cup {None, CHOOSE p \in Passwords : TRUE}
FactorRow == [enabled : BOOLEAN, secret : BOOLEAN, pending : BOOLEAN,
              codes : SUBSET (Nat \X Codes), enrolment : Nat]
UserRow == [password : Secrets, fails : Nat, lock : {"none", "held", "past"}, otp : Nat, linked : BOOLEAN,
            factor : FactorRow, version : Nat]
PendingRow == [id : Nat, password : Passwords, token : Nat]
SessionRow == [family : Nat, parent : Nat, revoked : BOOLEAN, replaced : BOOLEAN,
               gone : BOOLEAN, verified : BOOLEAN]

ASSUME SlotsAssumption == IsFiniteSet(Requests)
ASSUME NoneAssumption == None \notin UserRow /\ None \notin PendingRow

Starts(r) == /\ req[r] = Idle
             /\ started < MaxRequests
             /\ started' = started + 1
Continues(r, op) == req[r].op = op /\ UNCHANGED started
Goes(r, op, doc, x) == req' = [req EXCEPT ![r] = [op |-> op, doc |-> doc, x |-> x]]
Answers(r) == req' = [req EXCEPT ![r] = Idle]

(* Mutant: the codes are saved without the version.                        *)
MutSameVersion(doc) == TRUE

(* A save that replaces the recovery codes finds the version it loaded.    *)
SameVersion(doc) == user.version = doc.version

-----------------------------------------------------------------------------
(* Registration.                                                           *)

(* registerUser: nobody has the address, so the pending row is replaced or *)
(* created, with a token of its own.                                       *)
Register(r) ==
    \E pw \in Passwords :
        /\ Starts(r)
        /\ user = None
        /\ pending' = [id |-> IF pending = None THEN issued + 1 ELSE pending.id,
                       password |-> pw, token |-> issued + 1]
        /\ issued' = issued + 1
        /\ Goes(r, "mail", None, pending'.id)
        /\ UNCHANGED <<user, sessions, mfa, failures, uses, proofs>>

(* The link was mailed, or the row is removed by its id.                   *)
RegistrationMailed(r) ==
    /\ Continues(r, "mail")
    /\ Answers(r)
    /\ pending' \in {pending} \cup
          (IF pending # None /\ pending.id = req[r].x THEN {None} ELSE {})
    /\ UNCHANGED <<user, sessions, issued, mfa, failures, uses, proofs>>

(* resendVerification: a new token in the pending row.                     *)
ResendVerification(r) ==
    /\ Starts(r)
    /\ pending # None
    /\ pending' = [pending EXCEPT !.token = issued + 1]
    /\ issued' = issued + 1
    /\ UNCHANGED <<user, sessions, req, mfa, failures, uses, proofs>>

(* verifyEmail finds the pending row of the link that was opened.          *)
OpenLink(r) ==
    /\ Starts(r)
    /\ pending # None
    /\ Goes(r, "verify", pending, None)
    /\ UNCHANGED <<accountVars, sessions>>

(* The address is free: the user is created, and the pending row removed   *)
(* by a later call.  It is taken: the row is removed, or the unique index  *)
(* refused a user created since the check.                                 *)
CreateUser(r) ==
    /\ Continues(r, "verify")
    /\ \/ /\ user = None
          /\ user' = NewUser(req[r].doc.password)
          /\ Goes(r, "drop", req[r].doc, None)
          /\ failures' = 0
          /\ UNCHANGED pending
       \/ /\ user # None
          /\ pending' \in {pending} \cup
                (IF pending # None /\ pending.id = req[r].doc.id THEN {None} ELSE {})
          /\ Answers(r)
          /\ UNCHANGED <<user, failures>>
    /\ UNCHANGED <<sessions, issued, mfa, uses, proofs>>

DropPending(r) ==
    /\ Continues(r, "drop")
    /\ pending' = IF pending # None /\ pending.id = req[r].doc.id THEN None ELSE pending
    /\ Goes(r, "open", None, FALSE)
    /\ UNCHANGED <<user, sessions, issued, mfa, failures, uses, proofs>>

(* The pending row lapses after 24 hours.                                  *)
PendingLapses ==
    /\ pending # None
    /\ pending' = None
    /\ UNCHANGED <<user, sessions, req, started, issued, mfa, failures, uses, proofs>>

-----------------------------------------------------------------------------
(* Login.                                                                  *)

(* loginUser loads the user and goes on unless the account is locked.      *)
Login(r) ==
    \E pw \in Passwords :
        /\ Starts(r)
        /\ user # None /\ user.lock # "held"
        /\ Goes(r, "login", user, pw)
        /\ UNCHANGED <<accountVars, sessions>>

(* Mutant: the counter of the loaded row is saved.                         *)
MutCounted(doc) == doc.fails + 1

(* A wrong password is counted in the row by an atomic increment; at the   *)
(* threshold the lock is written by a call of its own.                     *)
Counted(doc) == user.fails + 1

WrongPassword(r) ==
    /\ Continues(r, "login")
    /\ req[r].x # req[r].doc.password
    /\ user' = [user EXCEPT !.fails = Counted(req[r].doc)]
    /\ failures' = failures + 1
    /\ IF user'.fails >= Threshold THEN Goes(r, "lock", None, None) ELSE Answers(r)
    /\ UNCHANGED <<pending, sessions, issued, mfa, uses, proofs>>

Lock(r) ==
    /\ Continues(r, "lock")
    /\ user' = [user EXCEPT !.lock = "held"]
    /\ Answers(r)
    /\ UNCHANGED <<pending, sessions, issued, mfa, failures, uses, proofs>>

LockLapses ==
    /\ user # None /\ user.lock = "held"
    /\ user' = [user EXCEPT !.lock = "past"]
    /\ UNCHANGED <<pending, sessions, req, started, issued, mfa, failures, uses, proofs>>

(* A right one: a challenge token when two-factor authentication is on.    *)
ChallengeGiven(r) ==
    /\ Continues(r, "login")
    /\ req[r].x = req[r].doc.password /\ req[r].doc.factor.enabled
    /\ mfa' = TRUE
    /\ Answers(r)
    /\ UNCHANGED <<user, pending, sessions, issued, failures, uses, proofs>>

(* Otherwise the lockout is cleared, where the loaded row had any.         *)
LoggedIn(r) ==
    LET doc == req[r].doc IN
    /\ Continues(r, "login")
    /\ req[r].x = doc.password /\ ~doc.factor.enabled
    /\ user' = [user EXCEPT !.fails = IF doc.fails > 0 THEN 0 ELSE @,
                            !.lock = IF doc.lock # "none" THEN "none" ELSE @]
    /\ failures' = IF doc.fails > 0 THEN 0 ELSE failures
    /\ Goes(r, "open", None, FALSE)
    /\ UNCHANGED <<pending, sessions, issued, mfa, uses, proofs>>

(* googleSignIn: an account of the address is linked, or a new one made.   *)
GoogleSignIn(r) ==
    /\ Starts(r)
    /\ user' = IF user = None THEN [NewUser(None) EXCEPT !.linked = TRUE]
                              ELSE [user EXCEPT !.linked = TRUE]
    /\ failures' = IF user = None THEN 0 ELSE failures
    /\ Goes(r, "open", None, FALSE)
    /\ UNCHANGED <<pending, sessions, issued, mfa, uses, proofs>>

(* createSessionAndTokens: a session that starts a family.                 *)
OpenSession(r) ==
    /\ Continues(r, "open")
    /\ Len(sessions) < MaxSessions
    /\ sessions' = Append(sessions, [family |-> Len(sessions) + 1, parent |-> 0, revoked |-> FALSE,
                                     replaced |-> FALSE, gone |-> FALSE, verified |-> req[r].x])
    /\ Answers(r)
    /\ UNCHANGED accountVars

-----------------------------------------------------------------------------
(* Passwords.                                                              *)

(* requestPasswordReset: a new code in the row.                            *)
RequestReset(r) ==
    /\ Starts(r)
    /\ user # None
    /\ user' = [user EXCEPT !.otp = issued + 1]
    /\ issued' = issued + 1
    /\ Goes(r, "reset mail", None, None)
    /\ UNCHANGED <<pending, sessions, mfa, failures, uses, proofs>>

(* The code was mailed, or whatever code the row now has is cleared.       *)
ResetMailed(r) ==
    /\ Continues(r, "reset mail")
    /\ user' \in {user, [user EXCEPT !.otp = 0]}
    /\ Answers(r)
    /\ UNCHANGED <<pending, sessions, issued, mfa, failures, uses, proofs>>

CodeLapses ==
    /\ user # None /\ user.otp # 0
    /\ user' = [user EXCEPT !.otp = 0]
    /\ UNCHANGED <<pending, sessions, req, started, issued, mfa, failures, uses, proofs>>

(* resetPassword checks the code against the row it loads, then hashes.    *)
CheckCode(r) ==
    \E pw \in Passwords :
        /\ Starts(r)
        /\ user # None /\ user.otp # 0
        /\ Goes(r, "reset", user, pw)
        /\ UNCHANGED <<accountVars, sessions>>

ResetPassword(r) ==
    /\ Continues(r, "reset")
    /\ user' = [user EXCEPT !.password = req[r].x, !.otp = 0]
    /\ Answers(r)
    /\ UNCHANGED <<pending, sessions, issued, mfa, failures, uses, proofs>>

(* changePassword: the caller has the access token of a session, which     *)
(* outlives it; every other session is then deleted.                       *)
ChangePassword(r) ==
    \E pw \in Passwords, s \in 1..Len(sessions) :
        /\ Starts(r)
        /\ user.password \notin {None, pw}
        /\ user' = [user EXCEPT !.password = pw]
        /\ Goes(r, "sign out", None, s)
        /\ UNCHANGED <<pending, sessions, issued, mfa, failures, uses, proofs>>

SignOutOthers(r) ==
    /\ Continues(r, "sign out")
    /\ sessions' = [s \in 1..Len(sessions) |->
                       IF s = req[r].x THEN sessions[s] ELSE [sessions[s] EXCEPT !.gone = TRUE]]
    /\ Answers(r)
    /\ UNCHANGED accountVars

-----------------------------------------------------------------------------
(* Two-factor authentication.                                              *)

(* setup2FA stores the secret to be confirmed.                             *)
LoadForSetup(r) ==
    /\ Starts(r)
    /\ user # None /\ ~user.factor.enabled
    /\ Goes(r, "setup", user, None)
    /\ UNCHANGED <<accountVars, sessions>>

Setup2FA(r) ==
    /\ Continues(r, "setup")
    /\ user' = [user EXCEPT !.factor.pending = TRUE]
    /\ Answers(r)
    /\ UNCHANGED <<pending, sessions, issued, mfa, failures, uses, proofs>>

(* verify2FA of a signed-in user confirms it, and makes the codes.         *)
LoadForConfirm(r) ==
    /\ Starts(r)
    /\ user # None /\ user.factor.pending
    /\ Goes(r, "confirm", user, None)
    /\ UNCHANGED <<accountVars, sessions>>

Confirm2FA(r) ==
    LET doc == req[r].doc IN
    /\ Continues(r, "confirm")
    /\ user' = IF SameVersion(doc)
               THEN [user EXCEPT !.version = @ + 1,
                                 !.factor = [enabled |-> @.enabled \/ ~doc.factor.enabled,
                                             secret |-> TRUE, pending |-> FALSE,
                                             codes |-> Recovery(@.enrolment + 1),
                                             enrolment |-> @.enrolment + 1]]
               ELSE user
    /\ Answers(r)
    /\ UNCHANGED <<pending, sessions, issued, mfa, failures, uses, proofs>>

(* A request that shows a code of the authenticator (None) or one of the   *)
(* recovery codes of the row it loaded.                                    *)
Shown(doc) == {None} \cup doc.factor.codes

LoadForFactor(r, op) ==
    /\ Starts(r)
    /\ user # None /\ user.factor.enabled
    /\ \E code \in Shown(user) : Goes(r, op, user, code)
    /\ UNCHANGED <<accountVars, sessions>>

CountUse(code) == uses' = IF code = None THEN uses ELSE [uses EXCEPT ![code] = @ + 1]

(* verify2FA with the challenge token of a login.                          *)
StepUp(r) == mfa /\ LoadForFactor(r, "step up")

SteppedUp(r) ==
    LET doc == req[r].doc
        code == req[r].x IN
    /\ Continues(r, "step up")
    /\ IF code = None \/ SameVersion(doc)
       THEN /\ user' = IF code = None THEN user
                       ELSE [user EXCEPT !.factor.codes = doc.factor.codes \ {code},
                                          !.version = @ + 1]
            /\ CountUse(code)
            /\ proofs' = proofs + 1
            /\ Goes(r, "open", None, TRUE)
       ELSE Answers(r) /\ UNCHANGED <<user, uses, proofs>>
    /\ UNCHANGED <<pending, sessions, issued, mfa, failures>>

(* disable2FA; the codes are replaced unless the row loaded had none.      *)
LoadForDisable(r) == LoadForFactor(r, "disable")

Disable2FA(r) ==
    LET doc == req[r].doc
        code == req[r].x IN
    /\ Continues(r, "disable")
    /\ IF doc.factor.codes = {} \/ SameVersion(doc)
       THEN /\ user' = IF doc.factor.codes = {}
                       THEN [user EXCEPT !.factor = [@ EXCEPT !.enabled = FALSE, !.secret = FALSE,
                                                               !.pending = FALSE]]
                       ELSE [user EXCEPT !.factor = [NoFactor EXCEPT !.enrolment = user.factor.enrolment],
                                         !.version = @ + 1]
            /\ CountUse(code)
       ELSE UNCHANGED <<user, uses>>
    /\ Answers(r)
    /\ UNCHANGED <<pending, sessions, issued, mfa, failures, proofs>>

-----------------------------------------------------------------------------
(* Refresh sessions.                                                       *)

(* refreshSession finds the session of the token it was given.             *)
PresentToken(r) ==
    \E s \in 1..Len(sessions) :
        /\ Starts(r)
        /\ ~sessions[s].gone
        /\ Goes(r, IF sessions[s].revoked \/ sessions[s].replaced THEN "reuse" ELSE "rotate",
                sessions[s], s)
        /\ UNCHANGED <<accountVars, sessions>>

(* A token that was rotated or revoked: its whole family is revoked.       *)
RevokeFamily(r) ==
    /\ Continues(r, "reuse")
    /\ sessions' = [s \in 1..Len(sessions) |->
                       IF sessions[s].family = req[r].doc.family
                       THEN [sessions[s] EXCEPT !.revoked = TRUE] ELSE sessions[s]]
    /\ Answers(r)
    /\ UNCHANGED accountVars

(* The new session carries the family and the factor of the old one ...    *)
Rotate(r) ==
    /\ Continues(r, "rotate")
    /\ Len(sessions) < MaxSessions
    /\ sessions' = Append(sessions, [family |-> req[r].doc.family, parent |-> req[r].x, revoked |-> FALSE,
                                     replaced |-> FALSE, gone |-> FALSE, verified |-> req[r].doc.verified])
    /\ Goes(r, "retire", None, req[r].x)
    /\ UNCHANGED accountVars

(* Mutant: a session that was replaced is left unrevoked.                  *)
MutRetired(session) == [session EXCEPT !.replaced = TRUE]

(* ... and the old one is retired by a save that fails if it is gone.      *)
Retired(session) == [session EXCEPT !.revoked = TRUE, !.replaced = TRUE]

Retire(r) ==
    /\ Continues(r, "retire")
    /\ sessions' = [sessions EXCEPT ![req[r].x] = IF @.gone THEN @ ELSE Retired(@)]
    /\ Answers(r)
    /\ UNCHANGED accountVars

(* revokeSession, and logoutUser with the session it names.                *)
RevokeSession(r) ==
    \E s \in 1..Len(sessions) :
        /\ Starts(r)
        /\ ~sessions[s].gone
        /\ sessions' = [sessions EXCEPT ![s].revoked = TRUE]
        /\ UNCHANGED <<accountVars, req>>

RevokeAllOtherSessions(r) ==
    \E s \in 1..Len(sessions) :
        /\ Starts(r)
        /\ sessions' = [t \in 1..Len(sessions) |->
                           IF t = s THEN sessions[t] ELSE [sessions[t] EXCEPT !.revoked = TRUE]]
        /\ UNCHANGED <<accountVars, req>>

(* The index removes an expired session.                                   *)
SessionLapses ==
    \E s \in 1..Len(sessions) :
        /\ ~sessions[s].gone
        /\ sessions' = [sessions EXCEPT ![s].gone = TRUE]
        /\ UNCHANGED <<accountVars, req, started>>

-----------------------------------------------------------------------------
Init ==
    /\ user \in {None} \cup {[NewUser(CHOOSE p \in Passwords : TRUE) EXCEPT !.factor = f]
                                : f \in {NoFactor, Enrolled}}
    /\ pending = None
    /\ sessions = <<>>
    /\ req = [r \in Requests |-> Idle]
    /\ started = 0 /\ issued = 0 /\ mfa = FALSE
    /\ failures = 0 /\ proofs = 0
    /\ uses = [c \in UNION {Recovery(e) : e \in Enrolments} |-> 0]

Next ==
    \/ \E r \in Requests :
          \/ Register(r) \/ RegistrationMailed(r) \/ ResendVerification(r)
          \/ OpenLink(r) \/ CreateUser(r) \/ DropPending(r)
          \/ Login(r) \/ WrongPassword(r) \/ Lock(r) \/ ChallengeGiven(r) \/ LoggedIn(r)
          \/ GoogleSignIn(r) \/ OpenSession(r)
          \/ RequestReset(r) \/ ResetMailed(r) \/ CheckCode(r) \/ ResetPassword(r)
          \/ ChangePassword(r) \/ SignOutOthers(r)
          \/ LoadForSetup(r) \/ Setup2FA(r) \/ LoadForConfirm(r) \/ Confirm2FA(r)
          \/ StepUp(r) \/ SteppedUp(r) \/ LoadForDisable(r) \/ Disable2FA(r)
          \/ PresentToken(r) \/ RevokeFamily(r) \/ Rotate(r) \/ Retire(r)
          \/ RevokeSession(r) \/ RevokeAllOtherSessions(r)
    \/ PendingLapses \/ LockLapses \/ CodeLapses \/ SessionLapses

-----------------------------------------------------------------------------
(* A recovery code is accepted once, whatever requests show it at the same *)
(* time: "Generate single-use recovery codes" (authController.js:1177).    *)
RecoveryOnce == \A c \in DOMAIN uses : uses[c] <= 1

(* The counter of the row is the number of wrong passwords since it was    *)
(* last cleared, "so concurrent login attempts cannot race a               *)
(* read-then-write snapshot" (authController.js:448).                      *)
CountIsExact == user # None => user.fails = failures

(* A session marked as verified by a second factor belongs to a sign-in    *)
(* that showed one: rotation carries the mark and nothing else makes it.   *)
VerifiedIsProved ==
    Cardinality({sessions[s].family : s \in {t \in 1..Len(sessions) : sessions[t].verified}}) <= proofs

(* A session that was rotated cannot be presented again without tripping   *)
(* the reuse detection, once the rotation is over.                         *)
ParentRetired ==
    \A s \in 1..Len(sessions) :
        LET p == sessions[s].parent IN
        p # 0 => \/ sessions[p].revoked \/ sessions[p].gone
                 \/ \E r \in Requests : req[r].op = "retire" /\ req[r].x = p

AccountsSound == RecoveryOnce /\ CountIsExact /\ VerifiedIsProved /\ ParentRetired

(* Not kept, see README: *)
(* a family has one live session *)
OneLive ==
    \A s, t \in 1..Len(sessions) :
        /\ sessions[s].family = sessions[t].family
        /\ ~sessions[s].revoked /\ ~sessions[t].revoked
        /\ \A r \in Requests : req[r].op # "retire"
        => s = t
=============================================================================
