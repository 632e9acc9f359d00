--------------------------- MODULE AccountsProofs ---------------------------
(***************************************************************************)
(* The account of one address, the refunds of one buyer, the blocks of an   *)
(* address, a cached answer, an educator and the documents of Rooms, for    *)
(* any number of requests at once, passwords, recovery codes, purchases,    *)
(* refunds and people.  The theorems are about the composition of           *)
(* MCAccounts: a behaviour of it is one of the part it follows.             *)
(***************************************************************************)
EXTENDS MCAccounts, Sums, SequenceTheorems

-----------------------------------------------------------------------------
(***************************************************************************)
(* The row of the account and what requests loaded of it.                  *)
(***************************************************************************)
UserOps == {"login", "reset", "setup", "confirm", "step up", "disable"}

\* A row that was loaded is not ahead of the stored one, and has its recovery codes
\* while it has its version.
Loaded(doc, u) ==
    /\ u \in UserRow /\ doc \in UserRow /\ doc.version <= u.version
    /\ doc.version = u.version => doc.factor.codes = u.factor.codes

\* What a request carries, next to the row u.
Fits(q, u) ==
    /\ q.op \in UserOps => Loaded(q.doc, u)
    /\ q.op \in {"reset mail", "lock", "drop", "open", "sign out", "reuse", "rotate", "retire"}
         => u \in UserRow
    /\ q.op = "reset" => q.x \in Passwords
    /\ q.op = "verify" => q.doc \in PendingRow
    /\ q.op \in {"step up", "disable"} => q.x \in Shown(q.doc)

\* A code that was accepted once is not among the codes of the row, nor will it be.
CodesSpent(u, us) ==
    /\ \A c \in DOMAIN us :
         us[c] = 0 \/ (us[c] = 1 /\ u \in UserRow /\ c \notin u.factor.codes
                                 /\ c[1] \in 0..u.factor.enrolment)
    /\ u \in UserRow => \A c \in u.factor.codes : c[1] = u.factor.enrolment

UInv ==
    /\ user \in UserRow \cup {None} /\ pending \in PendingRow \cup {None}
    /\ issued \in Nat /\ failures \in Nat
    /\ req = [r \in Requests |-> req[r]]
    /\ \A r \in Requests : Fits(req[r], user)
    /\ (\A s \in 1..Len(sessions) : FALSE) \/ user \in UserRow
    /\ CodesSpent(user, uses)
    /\ CountIsExact

\* The row is never removed, and new codes have a new version.
Follows(u, v) ==
    u \in UserRow => /\ v \in UserRow /\ u.version <= v.version
                     /\ u.version = v.version => v.factor.codes = u.factor.codes

Locks == {"none", "held", "past"}

LEMMA RowFields ==
  /\ \A u \in UserRow : /\ u.password \in Secrets /\ u.fails \in Nat /\ u.version \in Nat
                        /\ u.lock \in Locks /\ u.factor \in FactorRow
  /\ \A f \in FactorRow : /\ f.codes \subseteq Nat \X Codes /\ f.enrolment \in Nat
                          /\ f.enabled \in BOOLEAN
BY DEF UserRow, FactorRow, Locks

LEMMA StillFits ==
  ASSUME NEW q, NEW u, NEW v, Fits(q, u), Follows(u, v)
  PROVE  Fits(q, v)
<1>1. \A doc : Loaded(doc, u) => Loaded(doc, v) BY RowFields DEF Follows, Loaded
<1> QED BY <1>1 DEF Fits, Follows

LEMMA IdleFits == ASSUME NEW u PROVE Fits(Idle, u)
BY DEF Fits, Idle, UserOps

\* The rows that handlers write.
Keeps(u, v) ==
    /\ v \in UserRow /\ v.version = u.version
    /\ v.factor.codes = u.factor.codes /\ v.factor.enrolment = u.factor.enrolment

LEMMA RowWrites ==
  ASSUME NEW u \in UserRow
  PROVE  /\ \A n \in Nat : /\ Keeps(u, [u EXCEPT !.fails = n])
                            /\ [u EXCEPT !.fails = n].fails = n
                            /\ Keeps(u, [u EXCEPT !.otp = n])
                            /\ [u EXCEPT !.otp = n].fails = u.fails
         /\ \A k \in Locks : /\ Keeps(u, [u EXCEPT !.lock = k])
                              /\ [u EXCEPT !.lock = k].fails = u.fails
         /\ \A b \in BOOLEAN : /\ Keeps(u, [u EXCEPT !.linked = b])
                                /\ [u EXCEPT !.linked = b].fails = u.fails
         /\ \A n \in Nat, k \in Locks : /\ Keeps(u, [u EXCEPT !.fails = n, !.lock = k])
                                         /\ [u EXCEPT !.fails = n, !.lock = k].fails = n
         /\ \A pw \in Passwords : /\ Keeps(u, [u EXCEPT !.password = pw])
                                   /\ [u EXCEPT !.password = pw].fails = u.fails
                                   /\ Keeps(u, [u EXCEPT !.password = pw, !.otp = 0])
                                   /\ [u EXCEPT !.password = pw, !.otp = 0].fails = u.fails
         /\ \A f \in FactorRow : /\ [u EXCEPT !.factor = f] \in UserRow
                                  /\ [u EXCEPT !.factor = f].fails = u.fails
                                  /\ [u EXCEPT !.factor = f].version = u.version
                                  /\ [u EXCEPT !.factor = f].factor = f
<1> DEFINE S == Secrets  N == Nat  B == BOOLEAN  L == Locks  F == FactorRow
<1>1. u \in [password : S, fails : N, lock : L, otp : N, linked : B, factor : F, version : N]
  BY DEF UserRow, Locks
<1>2. 0 \in N /\ Passwords \subseteq S BY DEF Secrets
<1>3. UserRow = [password : S, fails : N, lock : L, otp : N, linked : B, factor : F, version : N]
  BY DEF UserRow, Locks
<1> HIDE DEF S, N, B, L, F
<1>4. ASSUME NEW n \in N
      PROVE  /\ Keeps(u, [u EXCEPT !.fails = n]) /\ [u EXCEPT !.fails = n].fails = n
             /\ Keeps(u, [u EXCEPT !.otp = n]) /\ [u EXCEPT !.otp = n].fails = u.fails
  BY <1>1, <1>3, Zenon DEF Keeps
<1>9. ASSUME NEW k \in L
      PROVE  /\ Keeps(u, [u EXCEPT !.lock = k]) /\ [u EXCEPT !.lock = k].fails = u.fails
  BY <1>1, <1>3, Zenon DEF Keeps
<1>5. ASSUME NEW b \in B
      PROVE  /\ Keeps(u, [u EXCEPT !.linked = b]) /\ [u EXCEPT !.linked = b].fails = u.fails
  BY <1>1, <1>3, Zenon DEF Keeps
<1>6. ASSUME NEW n \in N, NEW k \in L
      PROVE  /\ Keeps(u, [u EXCEPT !.fails = n, !.lock = k])
             /\ [u EXCEPT !.fails = n, !.lock = k].fails = n
  BY <1>1, <1>2, <1>3, Zenon DEF Keeps
<1>7. ASSUME NEW pw \in Passwords
      PROVE  /\ Keeps(u, [u EXCEPT !.password = pw]) /\ [u EXCEPT !.password = pw].fails = u.fails
             /\ Keeps(u, [u EXCEPT !.password = pw, !.otp = 0])
             /\ [u EXCEPT !.password = pw, !.otp = 0].fails = u.fails
  <2>1. pw \in S BY <1>2
  <2> QED BY <1>1, <1>2, <1>3, <2>1, Zenon DEF Keeps
<1>8. ASSUME NEW f \in F
      PROVE  /\ [u EXCEPT !.factor = f] \in UserRow
             /\ [u EXCEPT !.factor = f].fails = u.fails
             /\ [u EXCEPT !.factor = f].version = u.version
             /\ [u EXCEPT !.factor = f].factor = f
  BY <1>1, <1>3, Zenon
<1> QED BY <1>4, <1>5, <1>6, <1>7, <1>8, <1>9 DEF N, B, L, F

\* A save that raises the version as it writes the factor.
LEMMA VersionWrites ==
  ASSUME NEW u \in UserRow, NEW f \in FactorRow
  PROVE  LET v == [u EXCEPT !.version = u.version + 1, !.factor = f]
             w == [u EXCEPT !.factor = f, !.version = u.version + 1]
         IN  /\ v \in UserRow /\ v.factor = f /\ v.version = u.version + 1 /\ v.fails = u.fails
             /\ w \in UserRow /\ w.factor = f /\ w.version = u.version + 1 /\ w.fails = u.fails
<1> DEFINE S == Secrets  N == Nat  B == BOOLEAN  L == Locks  F == FactorRow
           n == u.version + 1
<1>1. u \in [password : S, fails : N, lock : L, otp : N, linked : B, factor : F, version : N]
  BY DEF UserRow, Locks
<1>2. n \in N /\ f \in F BY <1>1
<1>3. UserRow = [password : S, fails : N, lock : L, otp : N, linked : B, factor : F, version : N]
  BY DEF UserRow, Locks
<1> HIDE DEF S, N, B, L, F, n
<1>4. LET v == [u EXCEPT !.version = n, !.factor = f]
          w == [u EXCEPT !.factor = f, !.version = n]
      IN  /\ v \in UserRow /\ v.factor = f /\ v.version = n /\ v.fails = u.fails
          /\ w \in UserRow /\ w.factor = f /\ w.version = n /\ w.fails = u.fails
  BY <1>1, <1>2, <1>3, Zenon
<1> QED BY <1>4 DEF n

LEMMA NewUserRow ==
  ASSUME NEW pw \in Secrets
  PROVE  LET u == NewUser(pw) IN
         /\ u \in UserRow /\ u.fails = 0 /\ u.factor.codes = {}
         /\ [u EXCEPT !.linked = TRUE] \in UserRow /\ [u EXCEPT !.linked = TRUE].fails = 0
         /\ [u EXCEPT !.linked = TRUE].factor.codes = {}
<1>1. NoFactor \in FactorRow /\ NoFactor.codes = {} BY DEF NoFactor, FactorRow
<1>2. /\ NewUser(pw) \in UserRow /\ NewUser(pw).fails = 0 /\ NewUser(pw).factor = NoFactor
  BY <1>1 DEF NewUser, UserRow
<1> QED BY <1>1, <1>2, RowWrites DEF Keeps

\* What a step does to the row and to the requests.
RowMoves ==
    /\ user' \in UserRow \cup {None} /\ Follows(user, user')
    /\ pending' \in PendingRow \cup {None} /\ issued' \in Nat /\ failures' \in Nat
    /\ CodesSpent(user', uses') /\ (user' # None => user'.fails = failures')

RequestsMove ==
    /\ req' = [r \in Requests |-> req'[r]]
    /\ \A r \in Requests : req'[r] = req[r] \/ Fits(req'[r], user')

LEMMA UserStep ==
  ASSUME UInv, RowMoves, RequestsMove, sessions' = sessions \/ user' \in UserRow
  PROVE  UInv'
<1>1. \A r \in Requests : Fits(req'[r], user') BY StillFits DEF UInv, RowMoves, RequestsMove
<1>2. (\A s \in 1..Len(sessions') : FALSE) \/ user' \in UserRow
  BY DEF UInv, RowMoves, Follows
<1> QED BY <1>1, <1>2 DEF UInv, RowMoves, RequestsMove, CountIsExact

LEMMA RowStill ==
  ASSUME UInv, user' = user, uses' = uses, failures' = failures, issued' \in Nat,
         pending' \in PendingRow \cup {None}
  PROVE  RowMoves
BY RowFields DEF UInv, RowMoves, Follows, CountIsExact

LEMMA RowKept ==
  ASSUME UInv, user \in UserRow, Keeps(user, user'), uses' = uses, user'.fails = failures',
         failures' \in Nat, issued' \in Nat, pending' \in PendingRow \cup {None}
  PROVE  RowMoves
BY RowFields DEF UInv, RowMoves, Follows, Keeps, CodesSpent

LEMMA Moved ==
  ASSUME UInv, NEW r \in Requests
  PROVE  /\ UNCHANGED req => RequestsMove
         /\ Answers(r) => RequestsMove
         /\ \A op, doc, x :
              Goes(r, op, doc, x) /\ Fits([op |-> op, doc |-> doc, x |-> x], user') => RequestsMove
<1>1. UNCHANGED req => RequestsMove BY DEF RequestsMove, UInv
<1>2. Answers(r) => RequestsMove BY IdleFits DEF Answers, RequestsMove, UInv
<1>3. ASSUME NEW op, NEW doc, NEW x, Goes(r, op, doc, x),
             Fits([op |-> op, doc |-> doc, x |-> x], user')
      PROVE  RequestsMove
  BY <1>3 DEF Goes, RequestsMove, UInv
<1> QED BY <1>1, <1>2, <1>3

\* Steps that leave the row alone.
LEMMA RegistrationU ==
  ASSUME UInv, NEW r \in Requests,
         \/ Register(r) \/ RegistrationMailed(r) \/ ResendVerification(r) \/ OpenLink(r) \/ DropPending(r)
  PROVE  UInv'
<1>0. Fits(req[r], user) BY DEF UInv
<1>1. CASE Register(r)
  <2>1. PICK pw \in Passwords :
          pending' = [id |-> IF pending = None THEN issued + 1 ELSE pending.id,
                      password |-> pw, token |-> issued + 1]
    BY <1>1 DEF Register
  <2>2. issued' \in Nat /\ pending' \in PendingRow BY <1>1, <2>1 DEF Register, UInv, PendingRow
  <2>3. RowMoves BY <1>1, <2>2, RowStill DEF Register
  <2>4. RequestsMove BY <1>1, Moved DEF Register, Fits, UserOps
  <2> QED BY <1>1, <2>3, <2>4, UserStep DEF Register
<1>2. CASE RegistrationMailed(r)
  <2>1. RowMoves BY <1>2, RowStill DEF RegistrationMailed, UInv
  <2>2. RequestsMove BY <1>2, Moved DEF RegistrationMailed
  <2> QED BY <1>2, <2>1, <2>2, UserStep DEF RegistrationMailed
<1>3. CASE ResendVerification(r)
  <2>1. issued' \in Nat /\ pending' \in PendingRow
    BY <1>3 DEF ResendVerification, UInv, PendingRow
  <2>2. RowMoves BY <1>3, <2>1, RowStill DEF ResendVerification
  <2>3. RequestsMove BY <1>3, Moved DEF ResendVerification
  <2> QED BY <1>3, <2>2, <2>3, UserStep DEF ResendVerification
<1>4. CASE OpenLink(r)
  <2>1. RowMoves BY <1>4, RowStill DEF OpenLink, accountVars, UInv
  <2>2. pending \in PendingRow BY <1>4 DEF OpenLink, UInv
  <2>3. RequestsMove BY <1>4, <2>2, Moved DEF OpenLink, Fits, UserOps
  <2> QED BY <1>4, <2>1, <2>3, UserStep DEF OpenLink, accountVars
<1>5. CASE DropPending(r)
  <2>1. pending' \in PendingRow \cup {None} BY <1>5 DEF DropPending, UInv
  <2>2. RowMoves BY <1>5, <2>1, RowStill DEF DropPending, UInv
  <2>3. user \in UserRow BY <1>0, <1>5 DEF DropPending, Continues, Fits
  <2>4. RequestsMove BY <1>5, <2>3, Moved DEF DropPending, Fits, UserOps
  <2> QED BY <1>5, <2>2, <2>4, UserStep DEF DropPending
<1> QED BY <1>1, <1>2, <1>3, <1>4, <1>5

\* The first row is new: no code was ever shown.
LEMMA NewRow ==
  ASSUME UInv, user = None, user' \in UserRow, user'.fails = 0, user'.factor.codes = {},
         failures' = 0, uses' = uses, issued' \in Nat, pending' \in PendingRow \cup {None}
  PROVE  RowMoves
<1>1. user \notin UserRow BY NoneAssumption
<1> QED BY <1>1 DEF UInv, RowMoves, Follows, CodesSpent

LEMMA CreateU ==
  ASSUME UInv, NEW r \in Requests, CreateUser(r)
  PROVE  UInv'
<1>0. req[r].doc \in PendingRow BY DEF CreateUser, Continues, UInv, Fits
<1>1. req[r].doc.password \in Secrets BY <1>0 DEF PendingRow, Secrets
<1>2. CASE user = None
  <2>1. user' \in UserRow /\ user'.fails = 0 /\ user'.factor.codes = {}
    BY <1>1, <1>2, NewUserRow DEF CreateUser
  <2>2. RowMoves BY <1>2, <2>1, NewRow DEF CreateUser, UInv
  <2>3. RequestsMove BY <1>2, <2>1, Moved DEF CreateUser, Fits, UserOps
  <2> QED BY <2>1, <2>2, <2>3, UserStep
<1>3. CASE user # None
  <2>1. pending' \in PendingRow \cup {None} BY <1>3 DEF CreateUser, UInv
  <2>2. RowMoves BY <1>3, <2>1, RowStill DEF CreateUser, UInv
  <2>3. RequestsMove BY <1>3, Moved DEF CreateUser
  <2> QED BY <1>3, <2>2, <2>3, UserStep DEF CreateUser
<1> QED BY <1>2, <1>3

LEMMA GoogleU ==
  ASSUME UInv, NEW r \in Requests, GoogleSignIn(r)
  PROVE  UInv'
<1>1. CASE user = None
  <2>0. None \in Secrets BY DEF Secrets
  <2>1. user' \in UserRow /\ user'.fails = 0 /\ user'.factor.codes = {}
    BY <1>1, <2>0, NewUserRow DEF GoogleSignIn
  <2>2. RowMoves BY <1>1, <2>1, NewRow DEF GoogleSignIn, UInv
  <2>3. RequestsMove BY <2>1, Moved DEF GoogleSignIn, Fits, UserOps
  <2> QED BY <2>1, <2>2, <2>3, UserStep
<1>2. CASE user # None
  <2>0. user \in UserRow BY <1>2 DEF UInv
  <2>1. Keeps(user, user') /\ user'.fails = user.fails BY <1>2, <2>0, RowWrites DEF GoogleSignIn
  <2>2. RowMoves BY <1>2, <2>0, <2>1, RowKept DEF GoogleSignIn, UInv, CountIsExact
  <2>3. RequestsMove BY <2>1, Moved DEF GoogleSignIn, Fits, UserOps, Keeps
  <2> QED BY <2>1, <2>2, <2>3, UserStep DEF Keeps
<1> QED BY <1>1, <1>2

\* Steps that load the row.
LEMMA LoadU ==
  ASSUME UInv, NEW r \in Requests,
         \/ Login(r) \/ CheckCode(r) \/ LoadForSetup(r) \/ LoadForConfirm(r)
         \/ StepUp(r) \/ LoadForDisable(r)
  PROVE  UInv'
<1>0. user \in UserRow /\ Loaded(user, user)
  <2>1. user \in UserRow
    BY DEF Login, CheckCode, LoadForSetup, LoadForConfirm, StepUp, LoadForDisable, LoadForFactor, UInv
  <2> QED BY <2>1, RowFields DEF Loaded
<1>1. UNCHANGED <<accountVars, sessions>>
  BY DEF Login, CheckCode, LoadForSetup, LoadForConfirm, StepUp, LoadForDisable, LoadForFactor
<1>2. RowMoves BY <1>1, RowStill DEF accountVars, UInv
<1>3. user' = user BY <1>1 DEF accountVars
<1>4. RequestsMove
  <2>1. CASE Login(r) BY <2>1, <1>0, <1>3, Moved DEF Login, Fits, UserOps
  <2>2. CASE CheckCode(r) BY <2>2, <1>0, <1>3, Moved DEF CheckCode, Fits, UserOps
  <2>3. CASE LoadForSetup(r) BY <2>3, <1>0, <1>3, Moved DEF LoadForSetup, Fits, UserOps
  <2>4. CASE LoadForConfirm(r) BY <2>4, <1>0, <1>3, Moved DEF LoadForConfirm, Fits, UserOps
  <2>5. CASE StepUp(r) BY <2>5, <1>0, <1>3, Moved DEF StepUp, LoadForFactor, Fits, UserOps
  <2>6. CASE LoadForDisable(r)
    BY <2>6, <1>0, <1>3, Moved DEF LoadForDisable, LoadForFactor, Fits, UserOps
  <2> QED BY <2>1, <2>2, <2>3, <2>4, <2>5, <2>6
<1> QED BY <1>1, <1>2, <1>4, UserStep

\* Logins, and the lockout they count towards.
LEMMA LoginU ==
  ASSUME UInv, NEW r \in Requests,
         WrongPassword(r) \/ Lock(r) \/ ChallengeGiven(r) \/ LoggedIn(r)
  PROVE  UInv'
<1>0. user \in UserRow
  BY DEF WrongPassword, Lock, ChallengeGiven, LoggedIn, Continues, UInv, Fits, Loaded, UserOps
<1>1. user.fails = failures /\ user.fails \in Nat
  BY <1>0, NoneAssumption, RowFields DEF UInv, CountIsExact
<1>2. CASE WrongPassword(r)
  <2> DEFINE n == user.fails + 1
  <2>0. n \in Nat /\ user' = [user EXCEPT !.fails = n] /\ failures' = n
    BY <1>1, <1>2 DEF WrongPassword, Counted
  <2> HIDE DEF n
  <2>1. Keeps(user, user') /\ user'.fails = failures' BY <1>0, <2>0, RowWrites
  <2>2. RowMoves BY <1>0, <1>1, <1>2, <2>1, RowKept DEF WrongPassword, UInv
  <2>3. RequestsMove BY <1>2, <2>1, Moved DEF WrongPassword, Fits, UserOps, Keeps
  <2> QED BY <1>2, <2>2, <2>3, UserStep DEF WrongPassword
<1>3. CASE Lock(r)
  <2>1. Keeps(user, user') /\ user'.fails = user.fails BY <1>0, <1>3, RowWrites DEF Lock, Locks
  <2>2. RowMoves BY <1>0, <1>1, <1>3, <2>1, RowKept DEF Lock, UInv
  <2>3. RequestsMove BY <1>3, Moved DEF Lock
  <2> QED BY <1>3, <2>2, <2>3, UserStep DEF Lock
<1>4. CASE ChallengeGiven(r)
  <2>1. RowMoves BY <1>4, RowStill DEF ChallengeGiven, UInv
  <2>2. RequestsMove BY <1>4, Moved DEF ChallengeGiven
  <2> QED BY <1>4, <2>1, <2>2, UserStep DEF ChallengeGiven
<1>5. CASE LoggedIn(r)
  <2> DEFINE doc == req[r].doc
             n == IF doc.fails > 0 THEN 0 ELSE user.fails
             k == IF doc.lock # "none" THEN "none" ELSE user.lock
             v == [user EXCEPT !.fails = n, !.lock = k]
  <2>0. n \in Nat BY <1>1
  <2>7. k \in Locks BY <1>0, RowFields DEF Locks
  <2>1. Keeps(user, v) /\ v.fails = n
    <3> HIDE DEF n, k
    <3>1. \A m \in Nat, j \in Locks : /\ Keeps(user, [user EXCEPT !.fails = m, !.lock = j])
                                       /\ [user EXCEPT !.fails = m, !.lock = j].fails = m
      BY <1>0, RowWrites
    <3> QED BY <2>0, <2>7, <3>1, Zenon
  <2>2. user' = v BY <1>5 DEF LoggedIn
  <2> HIDE DEF v
  <2>3. failures' = IF doc.fails > 0 THEN 0 ELSE failures BY <1>5 DEF LoggedIn
  <2>4. Keeps(user, user') /\ user'.fails = failures' /\ failures' \in Nat
    BY <2>0, <2>1, <2>2, <2>3, <1>1
  <2>5. RowMoves BY <1>0, <1>5, <2>4, RowKept DEF LoggedIn, UInv
  <2>6. RequestsMove BY <1>5, <2>4, Moved DEF LoggedIn, Fits, UserOps, Keeps
  <2> QED BY <1>5, <2>5, <2>6, UserStep DEF LoggedIn
<1> QED BY <1>2, <1>3, <1>4, <1>5

\* Passwords and reset codes.
LEMMA PasswordU ==
  ASSUME UInv, NEW r \in Requests,
         RequestReset(r) \/ ResetMailed(r) \/ ResetPassword(r) \/ ChangePassword(r)
  PROVE  UInv'
<1>0. user \in UserRow
  <2>1. CASE RequestReset(r) BY <2>1 DEF RequestReset, UInv
  <2>2. CASE ResetMailed(r) BY <2>2 DEF ResetMailed, Continues, UInv, Fits
  <2>3. CASE ResetPassword(r) BY <2>3 DEF ResetPassword, Continues, UInv, Fits, Loaded, UserOps
  <2>4. CASE ChangePassword(r) BY <2>4 DEF ChangePassword, UInv
  <2> QED BY <2>1, <2>2, <2>3, <2>4
<1>1. user.fails = failures /\ failures \in Nat BY <1>0, NoneAssumption DEF UInv, CountIsExact
<1>2. Keeps(user, user') /\ user'.fails = user.fails
  <2>1. CASE RequestReset(r)
    <3> DEFINE n == issued + 1
    <3>0. issued \in Nat BY DEF UInv
    <3>1. n \in Nat BY <3>0
    <3>2. user' = [user EXCEPT !.otp = n] BY <2>1 DEF RequestReset
    <3> HIDE DEF n
    <3> QED BY <3>1, <3>2, <1>0, RowWrites
  <2>2. CASE ResetMailed(r)
    <3>1. Keeps(user, user) BY <1>0 DEF Keeps
    <3>2. user' = user \/ user' = [user EXCEPT !.otp = 0] BY <2>2 DEF ResetMailed
    <3>3. \A n \in Nat : Keeps(user, [user EXCEPT !.otp = n])
                         /\ [user EXCEPT !.otp = n].fails = user.fails
      BY <1>0, RowWrites
    <3>4. Keeps(user, [user EXCEPT !.otp = 0]) /\ [user EXCEPT !.otp = 0].fails = user.fails
      BY <3>3
    <3> QED BY <3>1, <3>2, <3>4, Zenon
  <2>3. CASE ResetPassword(r)
    <3>1. req[r].x \in Passwords BY <2>3 DEF ResetPassword, Continues, UInv, Fits
    <3> QED BY <2>3, <3>1, <1>0, RowWrites DEF ResetPassword
  <2>4. CASE ChangePassword(r)
    <3>1. PICK pw \in Passwords : user' = [user EXCEPT !.password = pw] BY <2>4 DEF ChangePassword
    <3> QED BY <3>1, <1>0, RowWrites
  <2> QED BY <2>1, <2>2, <2>3, <2>4
<1>3. failures' = failures /\ uses' = uses /\ pending' = pending /\ sessions' = sessions
      /\ issued' \in Nat
  <2>1. issued \in Nat BY DEF UInv
  <2>2. issued' = issued \/ issued' = issued + 1
    BY DEF RequestReset, ResetMailed, ResetPassword, ChangePassword
  <2>3. issued' \in Nat BY <2>1, <2>2
  <2>4. CASE RequestReset(r) BY <2>3, <2>4 DEF RequestReset
  <2>5. CASE ResetMailed(r) BY <2>3, <2>5 DEF ResetMailed
  <2>6. CASE ResetPassword(r) BY <2>3, <2>6 DEF ResetPassword
  <2>7. CASE ChangePassword(r) BY <2>3, <2>7 DEF ChangePassword
  <2> QED BY <2>4, <2>5, <2>6, <2>7
<1>4. RowMoves BY <1>0, <1>1, <1>2, <1>3, RowKept DEF UInv
<1>5. RequestsMove
  <2>1. user' \in UserRow BY <1>2 DEF Keeps
  <2> QED BY <2>1, Moved
     DEF RequestReset, ResetMailed, ResetPassword, ChangePassword, Fits, UserOps
<1> QED BY <1>3, <1>4, <1>5, UserStep

\* A second factor is set up, confirmed with a new set of codes, shown, and disabled.
LEMMA SetupU ==
  ASSUME UInv, NEW r \in Requests, Setup2FA(r)
  PROVE  UInv'
<1>0. user \in UserRow /\ user.factor \in FactorRow
  BY RowFields DEF Setup2FA, Continues, UInv, Fits, Loaded, UserOps
<1>1. user.fails = failures BY <1>0, NoneAssumption DEF UInv, CountIsExact
<1> DEFINE f == [user.factor EXCEPT !.pending = TRUE]
<1>2. f \in FactorRow /\ f.codes = user.factor.codes /\ f.enrolment = user.factor.enrolment
  BY <1>0 DEF FactorRow
<1>3. user' = [user EXCEPT !.factor = f] BY DEF Setup2FA
<1> HIDE DEF f
<1>4. Keeps(user, user') /\ user'.fails = user.fails BY <1>0, <1>2, <1>3, RowWrites DEF Keeps
<1>5. RowMoves BY <1>0, <1>1, <1>4, RowKept DEF Setup2FA, UInv
<1>6. RequestsMove BY Moved DEF Setup2FA
<1> QED BY <1>5, <1>6, UserStep DEF Setup2FA

\* The codes are replaced: the new ones were never accepted.
LEMMA NewCodes ==
  ASSUME UInv, user \in UserRow, NEW f \in FactorRow, user.factor.enrolment <= f.enrolment,
         \A c \in f.codes : c[1] = f.enrolment,
         \A c \in f.codes : c \in user.factor.codes \/ c[1] \notin 0..user.factor.enrolment,
         user' \in UserRow, user'.factor = f, user'.version = user.version + 1,
         user'.fails = user.fails, failures' = failures, pending' = pending, issued' = issued,
         uses' = uses \/ \E d \in user.factor.codes \ f.codes : uses' = [uses EXCEPT ![d] = @ + 1]
  PROVE  RowMoves
<1>1. user.factor.enrolment \in Nat /\ f.enrolment \in Nat /\ user.version \in Nat BY RowFields
<1>2. Follows(user, user') BY <1>1 DEF Follows
<1>3. ASSUME NEW c \in DOMAIN uses, uses[c] = 1, c \notin user.factor.codes,
             c[1] \in 0..user.factor.enrolment
      PROVE  c \notin f.codes /\ c[1] \in 0..f.enrolment
  BY <1>1, <1>3
<1>4. ASSUME NEW d \in user.factor.codes \ f.codes, d \in DOMAIN uses
      PROVE  uses[d] = 0 /\ d[1] \in 0..f.enrolment
  BY <1>1, <1>4 DEF UInv, CodesSpent
<1>5. ASSUME NEW c \in DOMAIN uses'
      PROVE  uses'[c] = 0 \/ (uses'[c] = 1 /\ c \notin f.codes /\ c[1] \in 0..f.enrolment)
  <2>0. c \in DOMAIN uses BY <1>5
  <2>1. uses[c] = 0 \/ (uses[c] = 1 /\ c \notin f.codes /\ c[1] \in 0..f.enrolment)
    BY <2>0, <1>3 DEF UInv, CodesSpent
  <2>2. CASE uses' = uses BY <2>1, <2>2
  <2>3. ASSUME NEW d \in user.factor.codes \ f.codes, uses' = [uses EXCEPT ![d] = @ + 1]
        PROVE  uses'[c] = 0 \/ (uses'[c] = 1 /\ c \notin f.codes /\ c[1] \in 0..f.enrolment)
    BY <2>0, <2>1, <2>3, <1>4
  <2> QED BY <2>2, <2>3
<1>6. CodesSpent(user', uses') BY <1>5 DEF CodesSpent
<1>7. user'.fails = failures' BY NoneAssumption DEF UInv, CountIsExact
<1> QED BY <1>2, <1>6, <1>7 DEF RowMoves, UInv

LEMMA FactorU ==
  ASSUME UInv, NEW r \in Requests, Confirm2FA(r) \/ SteppedUp(r) \/ Disable2FA(r)
  PROVE  UInv'
<1> DEFINE doc == req[r].doc
           code == req[r].x
<1>0. /\ user \in UserRow /\ doc \in UserRow /\ user.factor \in FactorRow /\ user.version \in Nat
      /\ SameVersion(doc) => doc.factor.codes = user.factor.codes
  BY RowFields DEF Confirm2FA, SteppedUp, Disable2FA, Continues, UInv, Fits, Loaded, UserOps,
                   SameVersion
<1>1. user.factor.enrolment \in Nat /\ user.factor.codes \subseteq Nat \X Codes
  BY <1>0, RowFields
<1>2. \A c \in user.factor.codes : c[1] = user.factor.enrolment BY <1>0 DEF UInv, CodesSpent
<1>3. CASE Confirm2FA(r)
  <2> DEFINE n == user.factor.enrolment + 1
             f == [enabled |-> user.factor.enabled \/ ~doc.factor.enabled, secret |-> TRUE,
                   pending |-> FALSE, codes |-> Recovery(n), enrolment |-> n]
             v == [user EXCEPT !.version = user.version + 1, !.factor = f]
  <2>1. f \in FactorRow /\ f.codes = Recovery(n) /\ f.enrolment = n
    BY <1>0, <1>1, RowFields DEF FactorRow, Recovery
  <2>2. user' = IF SameVersion(doc) THEN v ELSE user BY <1>3 DEF Confirm2FA
  <2>3. RequestsMove BY <1>3, Moved DEF Confirm2FA
  <2>4. CASE SameVersion(doc)
    <3>1. \A c \in f.codes : c[1] = n BY <2>1 DEF Recovery
    <3>2. user.factor.enrolment <= n /\ n \notin 0..user.factor.enrolment BY <1>1
    <3> HIDE DEF f
    <3>3. v \in UserRow /\ v.factor = f /\ v.version = user.version + 1 /\ v.fails = user.fails
      BY <1>0, <2>1, VersionWrites
    <3> HIDE DEF v
    <3> QED BY <1>0, <1>3, <2>1, <2>2, <2>3, <2>4, <3>1, <3>2, <3>3, NewCodes, UserStep
       DEF Confirm2FA
  <2>5. CASE ~SameVersion(doc)
    BY <1>3, <2>2, <2>3, <2>5, RowStill, UserStep DEF Confirm2FA, UInv
  <2> QED BY <2>4, <2>5
<1>4. CASE SteppedUp(r)
  <2>1. code = None \/ code \in doc.factor.codes
    BY <1>4 DEF SteppedUp, Continues, UInv, Fits, Shown
  <2>2. CASE code = None
    <3>1. user' = user /\ uses' = uses BY <1>4, <2>2 DEF SteppedUp, CountUse
    <3>2. RowMoves BY <1>4, <3>1, RowStill DEF SteppedUp, UInv
    <3>3. RequestsMove BY <1>0, <1>4, <2>2, <3>1, Moved DEF SteppedUp, Fits, UserOps
    <3> QED BY <1>4, <3>2, <3>3, UserStep DEF SteppedUp
  <2>3. CASE code # None /\ SameVersion(doc)
    <3> DEFINE f == [user.factor EXCEPT !.codes = doc.factor.codes \ {code}]
               v == [user EXCEPT !.factor = f, !.version = user.version + 1]
    <3>1. f \in FactorRow /\ f.codes = user.factor.codes \ {code}
          /\ f.enrolment = user.factor.enrolment
      BY <1>0, <1>1, <2>3 DEF FactorRow
    <3>2. user' = v /\ uses' = [uses EXCEPT ![code] = @ + 1]
      BY <1>4, <2>3 DEF SteppedUp, CountUse
    <3>3. code \in user.factor.codes \ f.codes BY <1>0, <2>1, <2>3, <3>1
    <3>4. user.factor.enrolment <= f.enrolment BY <1>1, <3>1
    <3> HIDE DEF f
    <3>5. v \in UserRow /\ v.factor = f /\ v.version = user.version + 1 /\ v.fails = user.fails
      BY <1>0, <3>1, VersionWrites
    <3> HIDE DEF v, code
    <3>6. RowMoves
      BY <1>0, <1>2, <1>4, <3>1, <3>2, <3>3, <3>4, <3>5, NewCodes DEF SteppedUp
    <3>7. RequestsMove BY <1>4, <2>3, <3>2, <3>5, Moved DEF SteppedUp, Fits, UserOps, code
    <3> QED BY <1>4, <3>6, <3>7, UserStep DEF SteppedUp
  <2>4. CASE code # None /\ ~SameVersion(doc)
    <3>1. RowMoves BY <1>4, <2>4, RowStill DEF SteppedUp, UInv
    <3>2. RequestsMove BY <1>4, <2>4, Moved DEF SteppedUp
    <3> QED BY <1>4, <3>1, <3>2, UserStep DEF SteppedUp
  <2> QED BY <2>2, <2>3, <2>4
<1>5. CASE Disable2FA(r)
  <2>0. RequestsMove BY <1>5, Moved DEF Disable2FA
  <2>1. code = None \/ code \in doc.factor.codes
    BY <1>5 DEF Disable2FA, Continues, UInv, Fits, Shown
  <2>2. CASE doc.factor.codes = {}
    <3> DEFINE f == [user.factor EXCEPT !.enabled = FALSE, !.secret = FALSE, !.pending = FALSE]
    <3>1. f \in FactorRow /\ f.codes = user.factor.codes /\ f.enrolment = user.factor.enrolment
      <4> DEFINE C == SUBSET (Nat \X Codes)
      <4>1. user.factor \in [enabled : BOOLEAN, secret : BOOLEAN, pending : BOOLEAN,
                             codes : C, enrolment : Nat] BY <1>0 DEF FactorRow
      <4>2. FactorRow = [enabled : BOOLEAN, secret : BOOLEAN, pending : BOOLEAN,
                         codes : C, enrolment : Nat] BY DEF FactorRow
      <4> HIDE DEF C
      <4>3. FALSE \in BOOLEAN OBVIOUS
      <4> QED BY <4>1, <4>2, <4>3, Zenon
    <3>2. user' = [user EXCEPT !.factor = f] /\ uses' = uses
      BY <1>5, <2>1, <2>2 DEF Disable2FA, CountUse
    <3> HIDE DEF f
    <3>3. Keeps(user, user') /\ user'.fails = user.fails BY <1>0, <3>1, <3>2, RowWrites DEF Keeps
    <3>4. user.fails = failures BY <1>0, NoneAssumption DEF UInv, CountIsExact
    <3>5. RowMoves BY <1>0, <1>5, <3>2, <3>3, <3>4, RowKept DEF Disable2FA, UInv
    <3> QED BY <1>5, <2>0, <3>5, UserStep DEF Disable2FA
  <2>3. CASE doc.factor.codes # {} /\ SameVersion(doc)
    <3> DEFINE f == [NoFactor EXCEPT !.enrolment = user.factor.enrolment]
               v == [user EXCEPT !.factor = f, !.version = user.version + 1]
    <3>1. f \in FactorRow /\ f.codes = {} /\ f.enrolment = user.factor.enrolment
      BY <1>1 DEF FactorRow, NoFactor
    <3>2. /\ user' = v
          /\ uses' = IF code = None THEN uses ELSE [uses EXCEPT ![code] = @ + 1]
      BY <1>5, <2>3 DEF Disable2FA, CountUse
    <3>3. code # None => code \in user.factor.codes \ f.codes BY <1>0, <2>1, <2>3, <3>1
    <3>4. user.factor.enrolment <= f.enrolment BY <1>1, <3>1
    <3> HIDE DEF f
    <3>5. v \in UserRow /\ v.factor = f /\ v.version = user.version + 1 /\ v.fails = user.fails
      BY <1>0, <3>1, VersionWrites
    <3> HIDE DEF v, code
    <3>6. RowMoves
      BY <1>0, <1>2, <1>5, <3>1, <3>2, <3>3, <3>4, <3>5, NewCodes DEF Disable2FA
    <3> QED BY <1>5, <2>0, <3>6, UserStep DEF Disable2FA
  <2>4. CASE doc.factor.codes # {} /\ ~SameVersion(doc)
    <3>1. RowMoves BY <1>5, <2>4, RowStill DEF Disable2FA, UInv
    <3> QED BY <1>5, <2>0, <3>1, UserStep DEF Disable2FA
  <2> QED BY <2>2, <2>3, <2>4
<1> QED BY <1>3, <1>4, <1>5

\* Steps of the sessions.
LEMMA SessionU ==
  ASSUME UInv, NEW r \in Requests,
         \/ OpenSession(r) \/ SignOutOthers(r) \/ PresentToken(r) \/ RevokeFamily(r) \/ Rotate(r)
         \/ Retire(r) \/ RevokeSession(r) \/ RevokeAllOtherSessions(r)
  PROVE  UInv'
<1>0. UNCHANGED accountVars
  BY DEF OpenSession, SignOutOthers, PresentToken, RevokeFamily, Rotate, Retire, RevokeSession,
         RevokeAllOtherSessions
<1>1. RowMoves BY <1>0, RowStill DEF accountVars, UInv
<1>2. user' = user BY <1>0 DEF accountVars
<1>4. CASE OpenSession(r)
  <2>1. user \in UserRow BY <1>4 DEF OpenSession, Continues, UInv, Fits
  <2>2. RequestsMove BY <1>4, Moved DEF OpenSession
  <2> QED BY <1>1, <1>2, <2>1, <2>2, UserStep
<1>5. CASE SignOutOthers(r)
  <2>1. user \in UserRow BY <1>5 DEF SignOutOthers, Continues, UInv, Fits
  <2>2. RequestsMove BY <1>5, Moved DEF SignOutOthers
  <2> QED BY <1>1, <1>2, <2>1, <2>2, UserStep
<1>6. CASE PresentToken(r)
  <2>1. PICK s \in 1..Len(sessions) :
          Goes(r, IF sessions[s].revoked \/ sessions[s].replaced THEN "reuse" ELSE "rotate",
               sessions[s], s)
    BY <1>6 DEF PresentToken
  <2>2. user \in UserRow /\ sessions' = sessions BY <1>6 DEF PresentToken, UInv
  <2>3. RequestsMove BY <1>2, <2>1, <2>2, Moved DEF Fits, UserOps
  <2> QED BY <1>1, <2>2, <2>3, UserStep
<1>7. CASE RevokeSession(r) \/ RevokeAllOtherSessions(r)
  <2>1. user \in UserRow /\ req' = req
    BY <1>7 DEF RevokeSession, RevokeAllOtherSessions, UInv
  <2> QED BY <1>1, <1>2, <2>1, Moved, UserStep
<1>8. CASE RevokeFamily(r) \/ Rotate(r) \/ Retire(r)
  <2>1. user \in UserRow BY <1>8 DEF RevokeFamily, Rotate, Retire, Continues, UInv, Fits
  <2>2. RequestsMove
    BY <1>2, <1>8, <2>1, Moved DEF RevokeFamily, Rotate, Retire, Fits, UserOps
  <2> QED BY <1>1, <1>2, <2>1, <2>2, UserStep
<1> QED BY <1>4, <1>5, <1>6, <1>7, <1>8

LEMMA LapseU ==
  ASSUME UInv, PendingLapses \/ LockLapses \/ CodeLapses \/ SessionLapses
  PROVE  UInv'
<1>1. RequestsMove
  BY DEF PendingLapses, LockLapses, CodeLapses, SessionLapses, RequestsMove, UInv
<1>2. issued \in Nat /\ failures \in Nat /\ pending \in PendingRow \cup {None} BY DEF UInv
<1>3. CASE PendingLapses
  BY <1>1, <1>2, <1>3, RowStill, UserStep DEF PendingLapses
<1>4. CASE SessionLapses
  <2>1. user \in UserRow BY <1>4 DEF SessionLapses, UInv
  <2> QED BY <1>1, <1>2, <1>4, <2>1, RowStill, UserStep DEF SessionLapses, accountVars
<1>5. CASE LockLapses \/ CodeLapses
  <2>1. user \in UserRow BY <1>5 DEF LockLapses, CodeLapses, UInv
  <2>2. user.fails = failures BY <2>1, NoneAssumption DEF UInv, CountIsExact
  <2>3. 0 \in Nat /\ FALSE \in BOOLEAN OBVIOUS
  <2>4. Keeps(user, user') /\ user'.fails = user.fails
    <3>1. user' = [user EXCEPT !.lock = "past"] \/ user' = [user EXCEPT !.otp = 0]
      BY <1>5 DEF LockLapses, CodeLapses
    <3>2. \A n \in Nat : Keeps(user, [user EXCEPT !.otp = n])
                         /\ [user EXCEPT !.otp = n].fails = user.fails
      BY <2>1, RowWrites
    <3>3. \A k \in Locks : Keeps(user, [user EXCEPT !.lock = k])
                           /\ [user EXCEPT !.lock = k].fails = user.fails
      BY <2>1, RowWrites
    <3>4. Keeps(user, [user EXCEPT !.otp = 0]) /\ [user EXCEPT !.otp = 0].fails = user.fails
      BY <3>2
    <3>5. Keeps(user, [user EXCEPT !.lock = "past"])
          /\ [user EXCEPT !.lock = "past"].fails = user.fails
      BY <3>3 DEF Locks
    <3> QED BY <3>1, <3>4, <3>5, Zenon
  <2>5. RowMoves BY <1>2, <1>5, <2>1, <2>2, <2>4, RowKept DEF LockLapses, CodeLapses
  <2> QED BY <1>1, <1>5, <2>5, UserStep DEF LockLapses, CodeLapses
<1> QED BY <1>3, <1>4, <1>5

LEMMA StutterU == UInv /\ UNCHANGED vars => UInv'
<1> SUFFICES ASSUME UInv, UNCHANGED vars PROVE UInv' OBVIOUS
<1>1. RequestsMove BY DEF RequestsMove, UInv, vars
<1>2. RowMoves BY RowStill DEF UInv, vars
<1> QED BY <1>1, <1>2, UserStep DEF vars

LEMMA InitU == Init => UInv
<1> SUFFICES ASSUME Init PROVE UInv OBVIOUS
<1> DEFINE pw == CHOOSE p \in Passwords : TRUE
           v(f) == [NewUser(pw) EXCEPT !.factor = f]
<1>1. pw \in Secrets BY DEF Secrets
<1>2. NewUser(pw) \in UserRow /\ NewUser(pw).fails = 0 BY <1>1, NewUserRow
<1>3. NoFactor \in FactorRow /\ NoFactor.codes = {} BY DEF NoFactor, FactorRow
<1>4. Enrolled \in FactorRow /\ Enrolled.codes = Recovery(0) /\ Enrolled.enrolment = 0
  BY DEF Enrolled, FactorRow, Recovery
<1>5. user = None \/ user = v(NoFactor) \/ user = v(Enrolled) BY DEF Init
<1>6. /\ user \in UserRow \cup {None}
      /\ user # None => user.fails = 0
      /\ user \in UserRow => \A c \in user.factor.codes : c[1] = user.factor.enrolment
  <2> HIDE DEF pw
  <2>1. \A f \in FactorRow : v(f) \in UserRow /\ v(f).fails = 0 /\ v(f).factor = f
    BY <1>2, RowWrites
  <2>2. CASE user = None BY <2>2, NoneAssumption
  <2>3. CASE user = v(NoFactor)
    <3> HIDE DEF v
    <3> QED BY <1>3, <2>1, <2>3
  <2>4. CASE user = v(Enrolled)
    <3>1. \A c \in Recovery(0) : c[1] = 0 BY DEF Recovery
    <3> HIDE DEF v
    <3> QED BY <1>4, <2>1, <2>4, <3>1
  <2> QED BY <1>5, <2>2, <2>3, <2>4
<1>7. \A r \in Requests : Fits(req[r], user) BY IdleFits DEF Init
<1>8. \A c \in DOMAIN uses : uses[c] = 0 BY DEF Init
<1>9. \A s \in 1..Len(sessions) : FALSE BY DEF Init
<1> QED BY <1>6, <1>7, <1>8, <1>9 DEF Init, UInv, CodesSpent, CountIsExact

LEMMA NextU == UInv /\ [Next]_vars => UInv'
<1> SUFFICES ASSUME UInv, [Next]_vars PROVE UInv' OBVIOUS
<1>1. CASE UNCHANGED vars BY <1>1, StutterU
<1>2. CASE PendingLapses \/ LockLapses \/ CodeLapses \/ SessionLapses BY <1>2, LapseU
<1>3. ASSUME NEW r \in Requests,
             \/ Register(r) \/ RegistrationMailed(r) \/ ResendVerification(r)
             \/ OpenLink(r) \/ CreateUser(r) \/ DropPending(r)
             \/ Login(r) \/ WrongPassword(r) \/ Lock(r) \/ ChallengeGiven(r) \/ LoggedIn(r)
             \/ GoogleSignIn(r) \/ OpenSession(r)
             \/ RequestReset(r) \/ ResetMailed(r) \/ CheckCode(r) \/ ResetPassword(r)
             \/ ChangePassword(r) \/ SignOutOthers(r)
             \/ LoadForSetup(r) \/ Setup2FA(r) \/ LoadForConfirm(r) \/ Confirm2FA(r)
             \/ StepUp(r) \/ SteppedUp(r) \/ LoadForDisable(r) \/ Disable2FA(r)
             \/ PresentToken(r) \/ RevokeFamily(r) \/ Rotate(r) \/ Retire(r)
             \/ RevokeSession(r) \/ RevokeAllOtherSessions(r)
      PROVE  UInv'
  BY <1>3, RegistrationU, CreateU, GoogleU, LoadU, LoginU, PasswordU, SetupU, FactorU, SessionU
<1> QED BY <1>1, <1>2, <1>3 DEF Next

LEMMA UGives == UInv => RecoveryOnce /\ CountIsExact
BY DEF UInv, CodesSpent, RecoveryOnce

-----------------------------------------------------------------------------
(***************************************************************************)
(* The sessions, and the sign-ins that showed a second factor.             *)
(***************************************************************************)
\* What a request carries, next to the sessions ss.
Carries(q, ss) ==
    /\ q.op = "open" => q.x \in BOOLEAN
    /\ q.op \in {"rotate", "retire"} => q.x \in 1..Len(ss)
    /\ q.op = "rotate" => q.doc.family = ss[q.x].family /\ q.doc.verified = ss[q.x].verified

\* The parent p of a session cannot be presented unnoticed, or is being retired.
Closed(p, ss, q) ==
    \/ p = 0 \/ ss[p].revoked \/ ss[p].gone
    \/ \E r \in Requests : q[r].op = "retire" /\ q[r].x = p

Placed(s, ss, q) ==
    ss[s].family \in 1..Len(ss) /\ ss[s].parent \in 0..Len(ss) /\ Closed(ss[s].parent, ss, q)

\* Families with a verified session, and sign-ins that will open one more.
Families(ss) == {ss[s].family : s \in {t \in 1..Len(ss) : ss[t].verified}}
Owed(q) == {r \in Requests : q[r].op = "open" /\ q[r].x = TRUE}

Proved(ss, q, n) == n \in Nat /\ Cardinality(Families(ss)) + Cardinality(Owed(q)) <= n

SInv ==
    /\ sessions \in Seq(SessionRow)
    /\ \A r \in Requests : Carries(req[r], sessions)
    /\ \A s \in 1..Len(sessions) : Placed(s, sessions, req)
    /\ Proved(sessions, req, proofs)

\* Sessions are added, marked and retired, and never take another place.
Later(ss, tt) ==
    /\ tt \in Seq(SessionRow) /\ Len(ss) <= Len(tt)
    /\ \A s \in 1..Len(ss) :
         /\ tt[s].family = ss[s].family /\ tt[s].parent = ss[s].parent
         /\ tt[s].verified = ss[s].verified
         /\ ss[s].revoked => tt[s].revoked
         /\ ss[s].gone => tt[s].gone

LEMMA SessionFields ==
  /\ \A ss \in Seq(SessionRow) : Len(ss) \in Nat /\ \A s \in 1..Len(ss) : ss[s] \in SessionRow
  /\ \A x \in SessionRow : /\ x.verified \in BOOLEAN /\ x.revoked \in BOOLEAN
                           /\ x.gone \in BOOLEAN /\ x.family \in Nat /\ x.parent \in Nat
<1>1. \A ss \in Seq(SessionRow) : Len(ss) \in Nat /\ \A s \in 1..Len(ss) : ss[s] \in SessionRow
  OBVIOUS
<1>2. \A x \in SessionRow : /\ x.verified \in BOOLEAN /\ x.revoked \in BOOLEAN
                            /\ x.gone \in BOOLEAN /\ x.family \in Nat /\ x.parent \in Nat
  BY DEF SessionRow
<1> QED BY <1>1, <1>2

LEMMA SameLater == ASSUME SInv PROVE Later(sessions, sessions)
BY SessionFields DEF SInv, Later

LEMMA StillCarries ==
  ASSUME NEW q, NEW ss \in Seq(SessionRow), NEW tt, Carries(q, ss), Later(ss, tt)
  PROVE  Carries(q, tt)
<1>1. Len(ss) \in Nat /\ Len(tt) \in Nat BY SessionFields DEF Later
<1>2. 1..Len(ss) \subseteq 1..Len(tt) BY <1>1 DEF Later
<1> QED BY <1>2 DEF Carries, Later

\* Requests that move carry what they should, and a retirement ends with the session
\* retired.
Hands(q, qq, tt) ==
    \A r \in Requests :
        \/ qq[r] = q[r]
        \/ /\ Carries(qq[r], tt)
           /\ q[r].op = "retire" => tt[q[r].x].revoked \/ tt[q[r].x].gone

LEMMA SessionStep ==
  ASSUME SInv, Later(sessions, sessions'), Hands(req, req', sessions'),
         \A s \in Len(sessions) + 1 .. Len(sessions') : Placed(s, sessions', req'),
         Proved(sessions', req', proofs')
  PROVE  SInv'
<1>0. Len(sessions) \in Nat /\ Len(sessions') \in Nat /\ sessions \in Seq(SessionRow)
  BY SessionFields DEF SInv, Later
<1>1. sessions' \in Seq(SessionRow) /\ Len(sessions) <= Len(sessions') BY DEF Later
<1>2. \A r \in Requests : Carries(req'[r], sessions')
  BY <1>0, StillCarries DEF SInv, Hands
<1>3. ASSUME NEW s \in 1..Len(sessions) PROVE Placed(s, sessions', req')
  <2>1. Placed(s, sessions, req) BY DEF SInv
  <2>2. sessions'[s].family = sessions[s].family /\ sessions'[s].parent = sessions[s].parent
    BY DEF Later
  <2> DEFINE p == sessions[s].parent
  <2>3. p \in 0..Len(sessions) BY <2>1 DEF Placed
  <2>4. Closed(p, sessions', req')
    <3>1. CASE p = 0 BY <3>1 DEF Closed
    <3>2. CASE p # 0 /\ (sessions[p].revoked \/ sessions[p].gone)
      <4>1. p \in 1..Len(sessions) BY <2>3, <3>2, <1>0
      <4> QED BY <3>2, <4>1 DEF Closed, Later
    <3>3. ASSUME NEW r \in Requests, req[r].op = "retire", req[r].x = p
          PROVE  Closed(p, sessions', req')
      BY <3>3 DEF Closed, Hands
    <3> QED BY <2>1, <3>1, <3>2, <3>3 DEF Placed, Closed
  <2>5. 1..Len(sessions) \subseteq 1..Len(sessions')
        /\ 0..Len(sessions) \subseteq 0..Len(sessions') BY <1>0, <1>1
  <2> QED BY <2>1, <2>2, <2>4, <2>5 DEF Placed
<1>4. \A s \in 1..Len(sessions') : s \in 1..Len(sessions) \/ s \in Len(sessions) + 1 .. Len(sessions')
  BY <1>0
<1> QED BY <1>1, <1>2, <1>3, <1>4 DEF SInv

LEMMA Finite ==
  /\ \A q : IsFiniteSet(Owed(q)) /\ Cardinality(Owed(q)) \in Nat
  /\ \A ss \in Seq(SessionRow) :
       IsFiniteSet(Families(ss)) /\ Cardinality(Families(ss)) \in Nat
<1>1. ASSUME NEW q PROVE IsFiniteSet(Owed(q)) /\ Cardinality(Owed(q)) \in Nat
  BY SlotsAssumption, FS_Subset, FS_CardinalityType DEF Owed
<1>2. ASSUME NEW ss \in Seq(SessionRow)
      PROVE  IsFiniteSet(Families(ss)) /\ Cardinality(Families(ss)) \in Nat
  <2> DEFINE D == {t \in 1..Len(ss) : ss[t].verified}
             f == [s \in D |-> ss[s].family]
  <2>1. IsFiniteSet(1..Len(ss)) BY FS_Interval
  <2>2. IsFiniteSet(D) BY <2>1, FS_Subset
  <2>3. IsFiniteSet({f[s] : s \in D})
    <3>1. f \in Surjection(D, {f[s] : s \in D})
      <4> HIDE DEF D
      <4> QED BY DEF Surjection
    <3> QED BY <2>2, <3>1, FS_Surjection
  <2>4. {f[s] : s \in D} = Families(ss) BY DEF Families
  <2> QED BY <2>3, <2>4, FS_CardinalityType
<1> QED BY <1>1, <1>2

LEMMA OneMore ==
  ASSUME NEW S, IsFiniteSet(S), NEW x
  PROVE  /\ IsFiniteSet(S \cup {x}) /\ Cardinality(S \cup {x}) \in Nat
         /\ Cardinality(S \cup {x}) <= Cardinality(S) + 1
<1>1. Cardinality(S) \in Nat BY FS_CardinalityType
<1>2. IsFiniteSet(S \cup {x}) /\ Cardinality(S \cup {x}) \in {Cardinality(S), Cardinality(S) + 1}
  BY FS_AddElement
<1> QED BY <1>1, <1>2

\* Neither a family becomes verified nor a sign-in proved.
LEMMA ProvedStill ==
  ASSUME SInv, Later(sessions, sessions'), Len(sessions') = Len(sessions),
         Owed(req') \subseteq Owed(req), proofs' = proofs
  PROVE  Proved(sessions', req', proofs')
<1>0. sessions \in Seq(SessionRow) BY DEF SInv
<1>1. Families(sessions') = Families(sessions) BY DEF Families, Later
<1>2. Cardinality(Owed(req')) <= Cardinality(Owed(req)) BY Finite, FS_Subset
<1>3. /\ Cardinality(Owed(req')) \in Nat /\ Cardinality(Owed(req)) \in Nat
      /\ Cardinality(Families(sessions)) \in Nat
  BY <1>0, Finite
<1> QED BY <1>1, <1>2, <1>3 DEF Proved, SInv

\* Steps of a request that is not in a session.
Outside(q, p) ==
    /\ q.op \notin {"open", "retire"}
    /\ p.op \notin {"rotate", "retire"} /\ (p.op = "open" => p.x = FALSE)

LEMMA Aside ==
  ASSUME SInv, UNCHANGED <<sessions, proofs>>,
         \A r \in Requests : req'[r] = req[r] \/ Outside(req[r], req'[r])
  PROVE  SInv'
<1>1. Later(sessions, sessions') BY SameLater
<1>2. \A r \in Requests : Outside(req[r], req'[r]) => Carries(req'[r], sessions')
  BY DEF Outside, Carries
<1>3. Hands(req, req', sessions') BY <1>2 DEF Hands, Outside
<1>4. Owed(req') \subseteq Owed(req) BY DEF Owed, Outside
<1>5. Proved(sessions', req', proofs') BY <1>1, <1>4, ProvedStill
<1>6. \A s \in Len(sessions) + 1 .. Len(sessions') : Placed(s, sessions', req')
  BY SessionFields DEF SInv
<1> QED BY <1>1, <1>3, <1>5, <1>6, SessionStep

LEMMA OneMoves ==
  ASSUME UInv, NEW r \in Requests
  PROVE  /\ Answers(r) => /\ req'[r] = Idle /\ req'[r].op = "idle"
                          /\ \A q \in Requests \ {r} : req'[q] = req[q]
         /\ \A op, doc, x : Goes(r, op, doc, x) =>
                /\ req'[r] = [op |-> op, doc |-> doc, x |-> x]
                /\ \A q \in Requests \ {r} : req'[q] = req[q]
<1>1. Idle.op = "idle" BY DEF Idle
<1> QED BY <1>1 DEF UInv, Answers, Goes

LEMMA StartsIdle ==
  ASSUME NEW r \in Requests, Starts(r)
  PROVE  req[r].op = "idle"
BY DEF Starts, Idle

LEMMA MovesAside ==
  ASSUME UInv, SInv, NEW r \in Requests, UNCHANGED <<sessions, proofs>>,
         req[r].op \notin {"open", "retire"}
  PROVE  /\ Answers(r) => SInv'
         /\ \A op, doc, x : Goes(r, op, doc, x) /\ op \notin {"rotate", "retire"}
                                             /\ (op = "open" => x = FALSE) => SInv'
<1>1. CASE Answers(r)
  <2>1. Outside(req[r], req'[r]) BY <1>1, OneMoves DEF Outside, Idle
  <2>2. \A q \in Requests \ {r} : req'[q] = req[q] BY <1>1, OneMoves
  <2> QED BY <2>1, <2>2, Aside
<1>2. ASSUME NEW op, NEW doc, NEW x, Goes(r, op, doc, x), op \notin {"rotate", "retire"},
             op = "open" => x = FALSE
      PROVE  SInv'
  <2> DEFINE now == [op |-> op, doc |-> doc, x |-> x]
  <2>1. now.op = op /\ now.x = x OBVIOUS
  <2>2. req'[r] = now BY <1>2, OneMoves
  <2> HIDE DEF now
  <2>3. Outside(req[r], req'[r]) BY <1>2, <2>1, <2>2 DEF Outside
  <2>4. \A q \in Requests \ {r} : req'[q] = req[q] BY <1>2, OneMoves
  <2> QED BY <2>3, <2>4, Aside
<1> QED BY <1>1, <1>2

LEMMA AccountS ==
  ASSUME UInv, SInv, NEW r \in Requests,
         \/ Register(r) \/ RegistrationMailed(r) \/ ResendVerification(r)
         \/ OpenLink(r) \/ CreateUser(r) \/ DropPending(r)
         \/ Login(r) \/ WrongPassword(r) \/ Lock(r) \/ ChallengeGiven(r) \/ LoggedIn(r)
         \/ GoogleSignIn(r)
  PROVE  SInv'
<1>1. CASE Register(r)
  <2>1. PICK i : Goes(r, "mail", None, i) BY <1>1 DEF Register
  <2>2. Starts(r) /\ UNCHANGED <<sessions, proofs>> BY <1>1 DEF Register
  <2> QED BY <2>1, <2>2, MovesAside, StartsIdle
<1>2. CASE RegistrationMailed(r) BY <1>2, MovesAside DEF RegistrationMailed, Continues
<1>3. CASE ResendVerification(r) BY <1>3, Aside DEF ResendVerification
<1>4. CASE OpenLink(r) BY <1>4, MovesAside, StartsIdle DEF OpenLink, accountVars
<1>5. CASE CreateUser(r) BY <1>5, MovesAside DEF CreateUser, Continues
<1>6. CASE DropPending(r) BY <1>6, MovesAside DEF DropPending, Continues
<1>7. CASE Login(r) BY <1>7, MovesAside, StartsIdle DEF Login, accountVars
<1>8. CASE WrongPassword(r) BY <1>8, MovesAside DEF WrongPassword, Continues
<1>9. CASE Lock(r) BY <1>9, MovesAside DEF Lock, Continues
<1>10. CASE ChallengeGiven(r) BY <1>10, MovesAside DEF ChallengeGiven, Continues
<1>11. CASE LoggedIn(r) BY <1>11, MovesAside DEF LoggedIn, Continues
<1>12. CASE GoogleSignIn(r) BY <1>12, MovesAside, StartsIdle DEF GoogleSignIn
<1> QED BY <1>1, <1>2, <1>3, <1>4, <1>5, <1>6, <1>7, <1>8, <1>9, <1>10, <1>11, <1>12

LEMMA PasswordS ==
  ASSUME UInv, SInv, NEW r \in Requests,
         \/ RequestReset(r) \/ ResetMailed(r) \/ CheckCode(r) \/ ResetPassword(r)
         \/ ChangePassword(r)
         \/ LoadForSetup(r) \/ Setup2FA(r) \/ LoadForConfirm(r) \/ Confirm2FA(r)
         \/ StepUp(r) \/ LoadForDisable(r) \/ Disable2FA(r)
  PROVE  SInv'
<1>1. CASE RequestReset(r) BY <1>1, MovesAside, StartsIdle DEF RequestReset
<1>2. CASE ResetMailed(r) BY <1>2, MovesAside DEF ResetMailed, Continues
<1>3. CASE CheckCode(r) BY <1>3, MovesAside, StartsIdle DEF CheckCode, accountVars
<1>4. CASE ResetPassword(r) BY <1>4, MovesAside DEF ResetPassword, Continues
<1>5. CASE ChangePassword(r) BY <1>5, MovesAside, StartsIdle DEF ChangePassword
<1>6. CASE LoadForSetup(r) BY <1>6, MovesAside, StartsIdle DEF LoadForSetup, accountVars
<1>7. CASE Setup2FA(r) BY <1>7, MovesAside DEF Setup2FA, Continues
<1>8. CASE LoadForConfirm(r) BY <1>8, MovesAside, StartsIdle DEF LoadForConfirm, accountVars
<1>9. CASE Confirm2FA(r) BY <1>9, MovesAside DEF Confirm2FA, Continues
<1>10. CASE StepUp(r)
  BY <1>10, MovesAside, StartsIdle DEF StepUp, LoadForFactor, accountVars
<1>11. CASE LoadForDisable(r)
  BY <1>11, MovesAside, StartsIdle DEF LoadForDisable, LoadForFactor, accountVars
<1>12. CASE Disable2FA(r) BY <1>12, MovesAside DEF Disable2FA, Continues
<1> QED BY <1>1, <1>2, <1>3, <1>4, <1>5, <1>6, <1>7, <1>8, <1>9, <1>10, <1>11, <1>12

\* The sign-in that showed a factor is counted as its session becomes due.
LEMMA SteppedUpS ==
  ASSUME UInv, SInv, NEW r \in Requests, SteppedUp(r)
  PROVE  SInv'
<1>0. req[r].op = "step up" /\ sessions' = sessions BY DEF SteppedUp, Continues
<1>1. CASE Answers(r) /\ UNCHANGED proofs BY <1>0, <1>1, MovesAside
<1>2. CASE Goes(r, "open", None, TRUE) /\ proofs' = proofs + 1
  <2> DEFINE now == [op |-> "open", doc |-> None, x |-> TRUE]
  <2>1. now.op = "open" /\ now.x = TRUE OBVIOUS
  <2>2. req'[r] = now /\ \A q \in Requests \ {r} : req'[q] = req[q] BY <1>2, OneMoves
  <2> HIDE DEF now
  <2>3. Later(sessions, sessions') BY <1>0, SameLater
  <2>4. Hands(req, req', sessions') BY <1>0, <2>1, <2>2 DEF Hands, Carries
  <2>5. Owed(req') \subseteq Owed(req) \cup {r} BY <2>2 DEF Owed
  <2>6. /\ IsFiniteSet(Owed(req) \cup {r}) /\ Cardinality(Owed(req) \cup {r}) \in Nat
        /\ Cardinality(Owed(req) \cup {r}) <= Cardinality(Owed(req)) + 1
    BY Finite, OneMore
  <2>7. Cardinality(Owed(req')) <= Cardinality(Owed(req) \cup {r}) BY <2>5, <2>6, FS_Subset
  <2>8. sessions \in Seq(SessionRow) BY DEF SInv
  <2>9. /\ Cardinality(Owed(req')) \in Nat /\ Cardinality(Owed(req)) \in Nat
        /\ Cardinality(Families(sessions)) \in Nat
    BY <2>8, Finite
  <2>10. Proved(sessions', req', proofs')
    <3>1. Proved(sessions, req, proofs) BY DEF SInv
    <3>2. Families(sessions') = Families(sessions) BY <1>0
    <3>3. Cardinality(Owed(req')) <= Cardinality(Owed(req)) + 1 BY <2>6, <2>7, <2>9
    <3> QED BY <1>2, <2>9, <3>1, <3>2, <3>3 DEF Proved
  <2>11. \A s \in Len(sessions) + 1 .. Len(sessions') : Placed(s, sessions', req')
    <3>1. Len(sessions) \in Nat /\ Len(sessions') = Len(sessions) BY <1>0, <2>8, SessionFields
    <3>2. Len(sessions) + 1 .. Len(sessions') = {} BY <3>1
    <3> QED BY <3>2
  <2> QED BY <2>3, <2>4, <2>10, <2>11, SessionStep
<1> QED BY <1>1, <1>2 DEF SteppedUp

\* A session that is added comes last, and moves no other.
LEMMA Appended ==
  ASSUME SInv, NEW e \in SessionRow, sessions' = Append(sessions, e)
  PROVE  /\ Later(sessions, sessions') /\ Len(sessions') = Len(sessions) + 1
         /\ sessions'[Len(sessions')] = e /\ Len(sessions) \in Nat
         /\ Families(sessions')
              = Families(sessions) \cup (IF e.verified THEN {e.family} ELSE {})
<1>0. sessions \in Seq(SessionRow) /\ Len(sessions) \in Nat BY SessionFields DEF SInv
<1>1. /\ sessions' \in Seq(SessionRow) /\ Len(sessions') = Len(sessions) + 1
      /\ sessions'[Len(sessions')] = e
      /\ \A s \in 1..Len(sessions) : sessions'[s] = sessions[s]
  BY <1>0
<1>2. Later(sessions, sessions') BY <1>0, <1>1 DEF Later
<1>3. \A s : s \in 1..Len(sessions') <=> s \in 1..Len(sessions) \/ s = Len(sessions')
  BY <1>0, <1>1
<1>4. \A f : f \in Families(sessions')
            <=> f \in Families(sessions) \/ (e.verified /\ f = e.family)
  BY <1>1, <1>3 DEF Families
<1> QED BY <1>0, <1>1, <1>2, <1>4

LEMMA OpenSessionS ==
  ASSUME UInv, SInv, NEW r \in Requests, OpenSession(r)
  PROVE  SInv'
<1> DEFINE n == Len(sessions) + 1
           e == [family |-> n, parent |-> 0, revoked |-> FALSE, replaced |-> FALSE,
                 gone |-> FALSE, verified |-> req[r].x]
<1>0. req[r].op = "open" /\ req[r].x \in BOOLEAN /\ sessions \in Seq(SessionRow)
  BY DEF OpenSession, Continues, SInv, Carries
<1>1. sessions' = Append(sessions, e) /\ proofs' = proofs /\ Answers(r)
  BY DEF OpenSession, accountVars
<1>2. n \in Nat /\ n = Len(sessions) + 1 BY <1>0, SessionFields
<1>3. e \in SessionRow /\ e.family = n /\ e.parent = 0 /\ e.verified = req[r].x
  BY <1>0, <1>2 DEF SessionRow
<1> HIDE DEF e, n
<1>4. /\ Later(sessions, sessions') /\ Len(sessions') = n /\ sessions'[n] = e
      /\ Families(sessions') = Families(sessions) \cup (IF req[r].x THEN {n} ELSE {})
  BY <1>1, <1>2, <1>3, Appended
<1>5. req'[r].op = "idle" /\ \A q \in Requests \ {r} : req'[q] = req[q]
  BY <1>1, OneMoves
<1>6. Hands(req, req', sessions') BY <1>0, <1>5 DEF Hands, Carries
<1>7. \A s \in Len(sessions) + 1 .. Len(sessions') : Placed(s, sessions', req')
  BY <1>2, <1>3, <1>4 DEF Placed, Closed
<1>8. Owed(req') = IF req[r].x THEN Owed(req) \ {r} ELSE Owed(req) BY <1>0, <1>5 DEF Owed
<1>9. /\ Cardinality(Owed(req)) \in Nat /\ Cardinality(Families(sessions)) \in Nat
      /\ IsFiniteSet(Owed(req)) /\ IsFiniteSet(Families(sessions))
  BY <1>0, Finite
<1>10. Proved(sessions', req', proofs')
  <2>1. CASE req[r].x = TRUE
    <3>1. r \in Owed(req) BY <1>0, <2>1 DEF Owed
    <3>2. Cardinality(Owed(req')) = Cardinality(Owed(req)) - 1
      BY <1>8, <1>9, <2>1, <3>1, FS_RemoveElement
    <3>3. Cardinality(Families(sessions')) <= Cardinality(Families(sessions)) + 1
      <4>1. Families(sessions') = Families(sessions) \cup {n} BY <1>4, <2>1
      <4> QED BY <1>9, <4>1, OneMore
    <3>4. Cardinality(Families(sessions')) \in Nat BY <1>4, Finite DEF Later
    <3> QED BY <1>1, <1>9, <3>2, <3>3, <3>4 DEF Proved, SInv
  <2>2. CASE req[r].x = FALSE BY <1>1, <1>4, <1>8, <2>2 DEF Proved, SInv
  <2> QED BY <1>0, <2>1, <2>2
<1> QED BY <1>4, <1>6, <1>7, <1>10, SessionStep

\* The new session takes the family and the mark of the one it replaces.
LEMMA RotateS ==
  ASSUME UInv, SInv, NEW r \in Requests, Rotate(r)
  PROVE  SInv'
<1> DEFINE p == req[r].x
           e == [family |-> req[r].doc.family, parent |-> p, revoked |-> FALSE, replaced |-> FALSE,
                 gone |-> FALSE, verified |-> req[r].doc.verified]
           now == [op |-> "retire", doc |-> None, x |-> p]
<1>0. /\ req[r].op = "rotate" /\ p \in 1..Len(sessions) /\ sessions \in Seq(SessionRow)
      /\ req[r].doc.family = sessions[p].family /\ req[r].doc.verified = sessions[p].verified
  BY DEF Rotate, Continues, SInv, Carries
<1>1. sessions' = Append(sessions, e) /\ proofs' = proofs /\ Goes(r, "retire", None, p)
  BY DEF Rotate, accountVars
<1>2. sessions[p] \in SessionRow /\ sessions[p].family \in 1..Len(sessions) /\ p \in Nat
  BY <1>0, SessionFields DEF SInv, Placed
<1>3. e \in SessionRow /\ e.family = sessions[p].family /\ e.parent = p
      /\ e.verified = sessions[p].verified
  BY <1>0, <1>2, SessionFields DEF SessionRow
<1>4. now.op = "retire" /\ now.x = p OBVIOUS
<1>5. req'[r] = now /\ \A q \in Requests \ {r} : req'[q] = req[q] BY <1>1, OneMoves
<1> HIDE DEF e, now
<1>6. /\ Later(sessions, sessions') /\ Len(sessions') = Len(sessions) + 1
      /\ sessions'[Len(sessions')] = e /\ Len(sessions) \in Nat
      /\ Families(sessions')
           = Families(sessions) \cup (IF sessions[p].verified THEN {sessions[p].family} ELSE {})
  BY <1>1, <1>3, Appended
<1> HIDE DEF p
<1>7. Families(sessions') = Families(sessions) BY <1>0, <1>6 DEF Families
<1>8. Owed(req') \subseteq Owed(req) BY <1>4, <1>5 DEF Owed
<1>9. Proved(sessions', req', proofs')
  <2>1. Cardinality(Owed(req')) <= Cardinality(Owed(req)) BY <1>8, Finite, FS_Subset
  <2>2. /\ Cardinality(Owed(req')) \in Nat /\ Cardinality(Owed(req)) \in Nat
        /\ Cardinality(Families(sessions)) \in Nat
    BY <1>0, Finite
  <2> QED BY <1>1, <1>7, <2>1, <2>2 DEF Proved, SInv
<1>10. Hands(req, req', sessions') BY <1>0, <1>4, <1>5, <1>6 DEF Hands, Carries
<1>11. Placed(Len(sessions'), sessions', req')
  <2>1. Closed(p, sessions', req') BY <1>4, <1>5 DEF Closed
  <2> QED BY <1>0, <1>2, <1>3, <1>6, <2>1 DEF Placed
<1>12. \A s \in Len(sessions) + 1 .. Len(sessions') : s = Len(sessions') BY <1>6
<1> QED BY <1>6, <1>9, <1>10, <1>11, <1>12, SessionStep

\* Sessions are marked where they are.
LEMMA Marked ==
  ASSUME SInv, Later(sessions, sessions'), Len(sessions') = Len(sessions), proofs' = proofs,
         Hands(req, req', sessions'), Owed(req') \subseteq Owed(req)
  PROVE  SInv'
<1>1. Proved(sessions', req', proofs') BY ProvedStill
<1>2. \A s \in Len(sessions) + 1 .. Len(sessions') : Placed(s, sessions', req')
  BY SessionFields DEF SInv
<1> QED BY <1>1, <1>2, SessionStep

\* The ways a session is marked, and what stays as it was.
Marks(x, y) ==
    /\ y \in SessionRow /\ y.family = x.family /\ y.parent = x.parent /\ y.verified = x.verified
    /\ x.revoked => y.revoked
    /\ x.gone => y.gone

LEMMA MarkWrites ==
  ASSUME NEW x \in SessionRow
  PROVE  /\ Marks(x, x)
         /\ Marks(x, [x EXCEPT !.gone = TRUE]) /\ [x EXCEPT !.gone = TRUE].gone
         /\ Marks(x, [x EXCEPT !.revoked = TRUE]) /\ [x EXCEPT !.revoked = TRUE].revoked
         /\ Marks(x, Retired(x)) /\ Retired(x).revoked
<1>1. Marks(x, x) BY DEF Marks
<1>2. Marks(x, [x EXCEPT !.gone = TRUE]) /\ [x EXCEPT !.gone = TRUE].gone
  BY DEF Marks, SessionRow
<1>3. Marks(x, [x EXCEPT !.revoked = TRUE]) /\ [x EXCEPT !.revoked = TRUE].revoked
  BY DEF Marks, SessionRow
<1>4. Marks(x, Retired(x)) /\ Retired(x).revoked
  <2> DEFINE y == [[x EXCEPT !.revoked = TRUE] EXCEPT !.replaced = TRUE]
  <2>1. Retired(x) = y BY Zenon DEF Retired
  <2>2. Marks(x, y) /\ y.revoked BY DEF Marks, SessionRow
  <2> QED BY <2>1, <2>2
<1> QED BY <1>1, <1>2, <1>3, <1>4

LEMMA MarkedRows ==
  ASSUME SInv, DOMAIN sessions' = 1..Len(sessions), sessions' = [s \in 1..Len(sessions) |-> sessions'[s]],
         \A s \in 1..Len(sessions) : Marks(sessions[s], sessions'[s])
  PROVE  Later(sessions, sessions') /\ Len(sessions') = Len(sessions)
<1>1. Len(sessions) \in Nat BY SessionFields DEF SInv
<1>2. sessions' \in Seq(SessionRow) /\ Len(sessions') = Len(sessions)
  <2>1. \A s \in 1..Len(sessions) : sessions'[s] \in SessionRow BY DEF Marks
  <2>2. sessions' \in [1..Len(sessions) -> SessionRow] BY <2>1
  <2> QED BY <1>1, <2>2
<1> QED BY <1>1, <1>2 DEF Later, Marks

LEMMA MarkS ==
  ASSUME UInv, SInv, NEW r \in Requests,
         \/ SignOutOthers(r) \/ RevokeFamily(r) \/ Retire(r)
         \/ RevokeSession(r) \/ RevokeAllOtherSessions(r)
  PROVE  SInv'
<1>0. \A s \in 1..Len(sessions) : sessions[s] \in SessionRow BY SessionFields DEF SInv
<1>1. sessions \in Seq(SessionRow) /\ DOMAIN sessions = 1..Len(sessions) BY DEF SInv
<1>2. proofs' = proofs
  BY DEF SignOutOthers, RevokeFamily, Retire, RevokeSession, RevokeAllOtherSessions, accountVars
<1>3. CASE SignOutOthers(r)
  <2>1. sessions' = [s \in 1..Len(sessions) |->
                       IF s = req[r].x THEN sessions[s] ELSE [sessions[s] EXCEPT !.gone = TRUE]]
    BY <1>3 DEF SignOutOthers
  <2>2. Later(sessions, sessions') /\ Len(sessions') = Len(sessions)
    BY <1>0, <2>1, MarkWrites, MarkedRows
  <2>3. req[r].op = "sign out" /\ Answers(r) BY <1>3 DEF SignOutOthers, Continues
  <2>4. req'[r].op = "idle" /\ \A q \in Requests \ {r} : req'[q] = req[q] BY <2>3, OneMoves
  <2>5. Hands(req, req', sessions') BY <2>3, <2>4 DEF Hands, Carries
  <2>6. Owed(req') \subseteq Owed(req) BY <2>4 DEF Owed
  <2> QED BY <1>2, <2>2, <2>5, <2>6, Marked
<1>4. CASE RevokeFamily(r)
  <2>1. sessions' = [s \in 1..Len(sessions) |->
                       IF sessions[s].family = req[r].doc.family
                       THEN [sessions[s] EXCEPT !.revoked = TRUE] ELSE sessions[s]]
    BY <1>4 DEF RevokeFamily
  <2>2. Later(sessions, sessions') /\ Len(sessions') = Len(sessions)
    BY <1>0, <2>1, MarkWrites, MarkedRows
  <2>3. req[r].op = "reuse" /\ Answers(r) BY <1>4 DEF RevokeFamily, Continues
  <2>4. req'[r].op = "idle" /\ \A q \in Requests \ {r} : req'[q] = req[q] BY <2>3, OneMoves
  <2>5. Hands(req, req', sessions') BY <2>3, <2>4 DEF Hands, Carries
  <2>6. Owed(req') \subseteq Owed(req) BY <2>4 DEF Owed
  <2> QED BY <1>2, <2>2, <2>5, <2>6, Marked
<1>5. CASE Retire(r)
  <2> DEFINE p == req[r].x
  <2>1. req[r].op = "retire" /\ Answers(r) /\ p \in 1..Len(sessions)
    BY <1>5 DEF Retire, Continues, SInv, Carries
  <2>2. sessions' = [s \in 1..Len(sessions) |->
                       IF s = p /\ ~sessions[s].gone THEN Retired(sessions[s]) ELSE sessions[s]]
    BY <1>1, <1>5, <2>1 DEF Retire
  <2> HIDE DEF p
  <2>3. Later(sessions, sessions') /\ Len(sessions') = Len(sessions)
    BY <1>0, <2>2, MarkWrites, MarkedRows
  <2>4. req'[r].op = "idle" /\ \A q \in Requests \ {r} : req'[q] = req[q] BY <2>1, OneMoves
  <2>5. sessions'[p].revoked \/ sessions'[p].gone BY <1>0, <2>1, <2>2, MarkWrites
  <2>6. Hands(req, req', sessions') BY <2>4, <2>5 DEF Hands, Carries, p
  <2>7. Owed(req') \subseteq Owed(req) BY <2>4 DEF Owed
  <2> QED BY <1>2, <2>3, <2>6, <2>7, Marked
<1>6. CASE RevokeSession(r)
  <2>1. PICK t \in 1..Len(sessions) : sessions' = [sessions EXCEPT ![t].revoked = TRUE]
    BY <1>6 DEF RevokeSession
  <2>2. sessions' = [s \in 1..Len(sessions) |->
                       IF s = t THEN [sessions[s] EXCEPT !.revoked = TRUE] ELSE sessions[s]]
    BY <1>1, <2>1
  <2>3. Later(sessions, sessions') /\ Len(sessions') = Len(sessions)
    BY <1>0, <2>2, MarkWrites, MarkedRows
  <2>4. req' = req BY <1>6 DEF RevokeSession
  <2> QED BY <1>2, <2>3, <2>4, Marked DEF Hands
<1>7. CASE RevokeAllOtherSessions(r)
  <2>1. PICK t \in 1..Len(sessions) :
          sessions' = [s \in 1..Len(sessions) |->
                         IF s = t THEN sessions[s] ELSE [sessions[s] EXCEPT !.revoked = TRUE]]
    BY <1>7 DEF RevokeAllOtherSessions
  <2>2. Later(sessions, sessions') /\ Len(sessions') = Len(sessions)
    BY <1>0, <2>1, MarkWrites, MarkedRows
  <2>3. req' = req BY <1>7 DEF RevokeAllOtherSessions
  <2> QED BY <1>2, <2>2, <2>3, Marked DEF Hands
<1> QED BY <1>3, <1>4, <1>5, <1>6, <1>7

LEMMA LapseS ==
  ASSUME SInv, SessionLapses
  PROVE  SInv'
<1>0. \A s \in 1..Len(sessions) : sessions[s] \in SessionRow BY SessionFields DEF SInv
<1>1. sessions \in Seq(SessionRow) /\ DOMAIN sessions = 1..Len(sessions) BY DEF SInv
<1>2. PICK t \in 1..Len(sessions) : sessions' = [sessions EXCEPT ![t].gone = TRUE]
  BY DEF SessionLapses
<1>3. sessions' = [s \in 1..Len(sessions) |->
                     IF s = t THEN [sessions[s] EXCEPT !.gone = TRUE] ELSE sessions[s]]
  BY <1>1, <1>2
<1>4. Later(sessions, sessions') /\ Len(sessions') = Len(sessions)
  BY <1>0, <1>3, MarkWrites, MarkedRows
<1>5. req' = req /\ proofs' = proofs BY DEF SessionLapses, accountVars
<1> QED BY <1>4, <1>5, Marked DEF Hands

LEMMA PresentS ==
  ASSUME UInv, SInv, NEW r \in Requests, PresentToken(r)
  PROVE  SInv'
<1>1. PICK s \in 1..Len(sessions) :
        Goes(r, IF sessions[s].revoked \/ sessions[s].replaced THEN "reuse" ELSE "rotate",
             sessions[s], s)
  BY DEF PresentToken
<1>2. req[r].op = "idle" BY StartsIdle DEF PresentToken
<1>3. sessions' = sessions /\ proofs' = proofs BY DEF PresentToken, accountVars
<1>4. CASE sessions[s].revoked \/ sessions[s].replaced
  BY <1>1, <1>2, <1>3, <1>4, MovesAside
<1>5. CASE ~(sessions[s].revoked \/ sessions[s].replaced)
  <2> DEFINE now == [op |-> "rotate", doc |-> sessions[s], x |-> s]
  <2>1. now.op = "rotate" /\ now.doc = sessions[s] /\ now.x = s OBVIOUS
  <2>2. req'[r] = now /\ \A q \in Requests \ {r} : req'[q] = req[q] BY <1>1, <1>5, OneMoves
  <2> HIDE DEF now
  <2>3. Hands(req, req', sessions') BY <1>2, <1>3, <2>1, <2>2 DEF Hands, Carries
  <2>4. Owed(req') \subseteq Owed(req) BY <2>1, <2>2 DEF Owed
  <2> QED BY <1>3, <2>3, <2>4, SameLater, Marked
<1> QED BY <1>4, <1>5

LEMMA InitS == Init => SInv
<1> SUFFICES ASSUME Init PROVE SInv OBVIOUS
<1>1. sessions = <<>> /\ proofs = 0 /\ \A r \in Requests : req[r] = Idle BY DEF Init
<1>2. sessions \in Seq(SessionRow) /\ 1..Len(sessions) = {} BY <1>1
<1>3. \A r \in Requests : req[r].op = "idle" BY <1>1 DEF Idle
<1>4. Families(sessions) = {} /\ Owed(req) = {} BY <1>2, <1>3 DEF Families, Owed
<1>5. Proved(sessions, req, proofs) BY <1>1, <1>4, FS_EmptySet DEF Proved
<1> QED BY <1>2, <1>3, <1>5 DEF SInv, Carries

LEMMA NextS == UInv /\ SInv /\ [Next]_vars => SInv'
<1> SUFFICES ASSUME UInv, SInv, [Next]_vars PROVE SInv' OBVIOUS
<1>1. CASE UNCHANGED vars BY <1>1, Aside DEF vars
<1>2. CASE PendingLapses \/ LockLapses \/ CodeLapses
  BY <1>2, Aside DEF PendingLapses, LockLapses, CodeLapses
<1>3. CASE SessionLapses BY <1>3, LapseS
<1>4. ASSUME NEW r \in Requests,
             \/ Register(r) \/ RegistrationMailed(r) \/ ResendVerification(r)
             \/ OpenLink(r) \/ CreateUser(r) \/ DropPending(r)
             \/ Login(r) \/ WrongPassword(r) \/ Lock(r) \/ ChallengeGiven(r) \/ LoggedIn(r)
             \/ GoogleSignIn(r) \/ OpenSession(r)
             \/ RequestReset(r) \/ ResetMailed(r) \/ CheckCode(r) \/ ResetPassword(r)
             \/ ChangePassword(r) \/ SignOutOthers(r)
             \/ LoadForSetup(r) \/ Setup2FA(r) \/ LoadForConfirm(r) \/ Confirm2FA(r)
             \/ StepUp(r) \/ SteppedUp(r) \/ LoadForDisable(r) \/ Disable2FA(r)
             \/ PresentToken(r) \/ RevokeFamily(r) \/ Rotate(r) \/ Retire(r)
             \/ RevokeSession(r) \/ RevokeAllOtherSessions(r)
      PROVE  SInv'
  BY <1>4, AccountS, PasswordS, SteppedUpS, OpenSessionS, RotateS, MarkS, PresentS
<1> QED BY <1>1, <1>2, <1>3, <1>4 DEF Next

LEMMA SGives == SInv => VerifiedIsProved /\ ParentRetired
<1> SUFFICES ASSUME SInv PROVE VerifiedIsProved /\ ParentRetired OBVIOUS
<1>1. Cardinality(Families(sessions)) <= proofs
  <2>1. sessions \in Seq(SessionRow) /\ Proved(sessions, req, proofs) BY DEF SInv
  <2>2. Cardinality(Families(sessions)) \in Nat /\ Cardinality(Owed(req)) \in Nat BY <2>1, Finite
  <2> QED BY <2>1, <2>2 DEF Proved
<1>2. VerifiedIsProved BY <1>1 DEF VerifiedIsProved, Families
<1>3. ParentRetired BY DEF SInv, Placed, Closed, ParentRetired
<1> QED BY <1>2, <1>3

\* A recovery code is accepted once, the counter of wrong passwords is exact, verified
\* families are covered by sign-ins that showed a factor, and a rotated session is
\* retired or about to be: for any number of requests at once.
THEOREM AccountsKept == AccountsSpec => []AccountsSound
<1>1. AccountsInit => UInv /\ SInv BY InitU, InitS DEF AccountsInit
<1>2. ASSUME UInv /\ SInv,
             [AccountsNext]_<<vars, ipVars, cacheVars, educatorVars, refundVars, roomVars, part>>
      PROVE  (UInv /\ SInv)'
  <2>1. [Next]_vars BY <1>2 DEF AccountsNext
  <2> QED BY <1>2, <2>1, NextU, NextS
<1>3. UInv /\ SInv => AccountsSound BY UGives, SGives DEF AccountsSound
<1> QED BY <1>1, <1>2, <1>3, PTL DEF AccountsSpec

-----------------------------------------------------------------------------
(***************************************************************************)
(* The refunds, for any number of handlers, purchases and refunds.         *)
(***************************************************************************)
RefundMade(r, f) == f[r].status # "none"

\* What a handler that carries q may rely on, whatever the others did meanwhile.
Relies(q, t, l, e, f, n) ==
    /\ q.pc = "create" => q.on \in Purchases /\ t[q.on] # "pending"
    /\ q.pc \notin {"idle", "create"} => q.on \in RefundIds /\ RefundMade(q.on, f)
    /\ q.pc \in {"verify", "revoke", "unenroll", "confirm", "mark refunded"} => n[q.on] = "paid"
    /\ q.version <= l.version
    /\ q.version = l.version => q.items \subseteq l.items
    /\ q.pc \in {"submit", "answer", "verify", "revoke"} /\ f[q.on].of \notin q.items
         => f[q.on].of \notin l.items
    /\ q.pc \in {"unenroll", "confirm", "mark refunded"} => f[q.on].of \notin l.items
    /\ q.pc \in {"confirm", "mark refunded"} => f[q.on].of \notin e

\* A refund is of a purchase that was confirmed, and a reverse payment of a refund.
MadeOfPaid(t, f, n) ==
    \A r \in RefundIds :
        /\ RefundMade(r, f) => f[r].of \in Purchases /\ t[f[r].of] # "pending"
        /\ n[r] # "none" => RefundMade(r, f)

AllRely(q, t, l, e, f, n) == \A c \in Requests : Relies(q[c], t, l, e, f, n)

RefundInv ==
    /\ Refunds!TypeOK
    /\ MadeOfPaid(tx, refund, network)
    /\ AllRely(refunding, tx, library, enrolled, refund, network)
    /\ Refunds!OneActive /\ Refunds!RefundedIsPaid /\ Refunds!KeptUntilPaid /\ Refunds!StaysRevoked

\* What no step undoes.
RefundsOnward ==
    /\ \A t \in Purchases : tx[t] # "pending" =>
         /\ tx'[t] # "pending"
         /\ t \notin library.items => t \notin library'.items
         /\ t \notin enrolled => t \notin enrolled'
    /\ \A r \in RefundIds :
         /\ RefundMade(r, refund) => RefundMade(r, refund') /\ refund'[r].of = refund[r].of
         /\ network[r] = "paid" => network'[r] = "paid"
    /\ library.version <= library'.version
    /\ library'.version = library.version => library.items \subseteq library'.items

LEMMA RefundStill ==
  ASSUME Refunds!TypeOK, Refunds!TypeOK', MadeOfPaid(tx, refund, network), RefundsOnward, NEW c \in Requests,
         Relies(refunding[c], tx, library, enrolled, refund, network)
  PROVE  Relies(refunding[c], tx', library', enrolled', refund', network')
<1> DEFINE q == refunding[c]
<1>1. /\ library.version \in Nat /\ library'.version \in Nat /\ q.version \in Nat
  BY DEF Refunds!TypeOK, Refunds!CallRecord
<1> HIDE DEF q
<1>2. /\ q.version <= library'.version
      /\ q.version = library'.version => q.items \subseteq library'.items
  <2>1. q.version <= library.version /\ (q.version = library.version => q.items \subseteq library.items)
    BY DEF Relies, q
  <2>2. /\ library.version <= library'.version
        /\ library'.version = library.version => library.items \subseteq library'.items
    BY DEF RefundsOnward
  <2> QED BY <1>1, <2>1, <2>2
<1>3. q.pc \notin {"idle", "create"} =>
        /\ q.on \in RefundIds /\ RefundMade(q.on, refund') /\ refund'[q.on].of = refund[q.on].of
        /\ refund[q.on].of \in Purchases /\ tx[refund[q.on].of] # "pending"
  BY DEF RefundsOnward, Relies, MadeOfPaid, q
<1> QED BY <1>2, <1>3 DEF RefundsOnward, Relies, q

LEMMA RefundsRely ==
  ASSUME RefundInv, Refunds!TypeOK', RefundsOnward,
         \A c \in Requests : \/ refunding'[c] = refunding[c]
                          \/ Relies(refunding'[c], tx', library', enrolled', refund', network')
  PROVE  AllRely(refunding', tx', library', enrolled', refund', network')
BY RefundStill DEF RefundInv, AllRely

\* A handler that goes on, or ends, with nothing else changed.
LEMMA RefundStep ==
  ASSUME RefundInv, Refunds!TypeOK', UNCHANGED <<tx, library, enrolled, refund, network>>,
         \A c \in Requests : \/ refunding'[c] = refunding[c]
                          \/ Relies(refunding'[c], tx, library, enrolled, refund, network)
  PROVE  RefundInv'
<1>1. RefundsOnward BY DEF RefundsOnward, RefundInv, Refunds!TypeOK
<1>2. AllRely(refunding', tx', library', enrolled', refund', network') BY <1>1, RefundsRely
<1> QED
  BY <1>2
    DEF RefundInv, MadeOfPaid, Refunds!OneActive, Refunds!RefundedIsPaid,
        Refunds!KeptUntilPaid, Refunds!StaysRevoked

LEMMA RefundFields ==
  ASSUME Refunds!TypeOK
  PROVE  /\ \A c \in Requests : /\ refunding[c].pc \in Refunds!Steps /\ refunding[c].items \subseteq Purchases
                             /\ refunding[c].on \in Purchases \cup RefundIds \cup {None}
                             /\ refunding[c].version \in Nat
         /\ \A r \in RefundIds : /\ refund[r].of \in Purchases \cup {None}
                                 /\ refund[r].status \in Refunds!Status
         /\ library.items \subseteq Purchases /\ library.version \in Nat
BY DEF Refunds!TypeOK, Refunds!CallRecord

\* What a handler becomes when it goes to pc, ends or loads a refund.
LEMMA RefundMoves ==
  ASSUME Refunds!TypeOK, NEW c \in Requests
  PROVE  /\ \A pc \in Refunds!Steps : Refunds!Goto(c, pc) =>
              /\ refunding' \in [Requests -> Refunds!CallRecord]
              /\ refunding'[c].pc = pc /\ refunding'[c].on = refunding[c].on
              /\ refunding'[c].items = refunding[c].items /\ refunding'[c].version = refunding[c].version
              /\ \A d \in Requests \ {c} : refunding'[d] = refunding[d]
         /\ Refunds!End(c) =>
              /\ refunding' \in [Requests -> Refunds!CallRecord]
              /\ refunding'[c].pc = "idle" /\ refunding'[c].items = {} /\ refunding'[c].version = 0
              /\ \A d \in Requests \ {c} : refunding'[d] = refunding[d]
         /\ \A pc \in Refunds!Steps, on \in Purchases \cup RefundIds :
              refunding' = [refunding EXCEPT ![c] = Refunds!At(pc, on)] =>
              /\ refunding' \in [Requests -> Refunds!CallRecord]
              /\ refunding'[c].pc = pc /\ refunding'[c].on = on
              /\ refunding'[c].items = {} /\ refunding'[c].version = 0
              /\ \A d \in Requests \ {c} : refunding'[d] = refunding[d]
<1>1. ASSUME NEW q \in Refunds!CallRecord, refunding' = [refunding EXCEPT ![c] = q]
      PROVE  refunding' \in [Requests -> Refunds!CallRecord] /\ refunding'[c] = q /\ \A d \in Requests \ {c} : refunding'[d] = refunding[d]
  BY <1>1 DEF Refunds!TypeOK
<1>2. Refunds!Idle \in Refunds!CallRecord /\ Refunds!Idle.pc = "idle" /\ Refunds!Idle.items = {} /\ Refunds!Idle.version = 0
  BY DEF Refunds!Idle, Refunds!Steps, Refunds!CallRecord
<1>3. ASSUME NEW pc \in Refunds!Steps
      PROVE  LET q == [refunding[c] EXCEPT !.pc = pc]
             IN  /\ q \in Refunds!CallRecord /\ q.pc = pc /\ q.on = refunding[c].on /\ q.items = refunding[c].items
                 /\ q.version = refunding[c].version
  BY DEF Refunds!TypeOK, Refunds!CallRecord
<1>4. ASSUME NEW pc \in Refunds!Steps, NEW on \in Purchases \cup RefundIds
      PROVE  /\ Refunds!At(pc, on) \in Refunds!CallRecord /\ Refunds!At(pc, on).pc = pc /\ Refunds!At(pc, on).on = on
             /\ Refunds!At(pc, on).items = {} /\ Refunds!At(pc, on).version = 0
  <2> DEFINE q == [[Refunds!Idle EXCEPT !.pc = pc] EXCEPT !.on = on]
  <2>1. Refunds!At(pc, on) = q BY Zenon DEF Refunds!At
  <2>2. q \in Refunds!CallRecord /\ q.pc = pc /\ q.on = on /\ q.items = {} /\ q.version = 0
    BY DEF Refunds!Idle, Refunds!CallRecord
  <2> QED BY <2>1, <2>2
<1>5. ASSUME NEW pc \in Refunds!Steps, Refunds!Goto(c, pc) PROVE refunding' = [refunding EXCEPT ![c] = [refunding[c] EXCEPT !.pc = pc]]
  BY <1>5 DEF Refunds!Goto
<1>6. \A pc \in Refunds!Steps : Refunds!Goto(c, pc) =>
        /\ refunding' \in [Requests -> Refunds!CallRecord] /\ refunding'[c].pc = pc /\ refunding'[c].on = refunding[c].on
        /\ refunding'[c].items = refunding[c].items /\ refunding'[c].version = refunding[c].version
        /\ \A d \in Requests \ {c} : refunding'[d] = refunding[d]
  BY <1>1, <1>3, <1>5
<1>7. Refunds!End(c) => /\ refunding' \in [Requests -> Refunds!CallRecord] /\ refunding'[c].pc = "idle" /\ refunding'[c].items = {}
                /\ refunding'[c].version = 0 /\ \A d \in Requests \ {c} : refunding'[d] = refunding[d]
  BY <1>1, <1>2 DEF Refunds!End
<1>8. ASSUME NEW pc \in Refunds!Steps, NEW on \in Purchases \cup RefundIds,
             refunding' = [refunding EXCEPT ![c] = Refunds!At(pc, on)]
      PROVE  /\ refunding' \in [Requests -> Refunds!CallRecord] /\ refunding'[c].pc = pc /\ refunding'[c].on = on
             /\ refunding'[c].items = {} /\ refunding'[c].version = 0
             /\ \A d \in Requests \ {c} : refunding'[d] = refunding[d]
  <2>1. Refunds!At(pc, on) \in Refunds!CallRecord BY <1>4
  <2>2. /\ refunding' \in [Requests -> Refunds!CallRecord] /\ refunding'[c] = Refunds!At(pc, on)
        /\ \A d \in Requests \ {c} : refunding'[d] = refunding[d]
    BY <1>1, <1>8, <2>1
  <2> QED BY <1>4, <2>2
<1> QED BY <1>6, <1>7, <1>8

\* Nothing is asked of a handler that ended.
LEMMA RefundIdle ==
  ASSUME NEW q, q.pc = "idle", q.items = {}, q.version = 0, Refunds!TypeOK, NEW t, NEW e, NEW f, NEW n
  PROVE  Relies(q, t, library, e, f, n)
BY RefundFields DEF Relies

\* A handler that loaded a refund relies on its being there.
LEMMA RefundLoaded ==
  ASSUME NEW q, q.items = {}, q.version = 0, Refunds!TypeOK,
         \/ q.pc = "create" /\ q.on \in Purchases /\ tx[q.on] # "pending"
         \/ /\ q.pc \in {"approved", "rejected", "resolved", "dispute"}
            /\ q.on \in RefundIds /\ RefundMade(q.on, refund)
  PROVE  Relies(q, tx, library, enrolled, refund, network)
<1>1. 0 <= library.version /\ {} \subseteq library.items BY RefundFields
<1>2. CASE q.pc = "create" BY <1>1, <1>2 DEF Relies
<1>3. CASE q.pc \in {"approved", "rejected", "resolved", "dispute"} BY <1>1, <1>3 DEF Relies
<1> QED BY <1>2, <1>3

\* Loads and the answers of the network.
LEMMA RefundLoads ==
  ASSUME RefundInv, NEW c \in Requests,
         \/ \E t \in Purchases : Refunds!RequestRefund(c, t)
         \/ \E r \in RefundIds :
               \/ Refunds!LoadDispute(c, r) \/ Refunds!LoadSubmit(c, r)
               \/ \E to \in {"approved", "rejected", "resolved"} : Refunds!LoadRefund(c, r, to)
         \/ Refunds!Submitted(c) \/ Refunds!SubmitFails(c) \/ (\E good \in BOOLEAN : Refunds!Verify(c, good)) \/ Refunds!Lose(c)
  PROVE  RefundInv'
<1>0. Refunds!TypeOK /\ Relies(refunding[c], tx, library, enrolled, refund, network)
  BY DEF RefundInv, AllRely
<1>1. UNCHANGED <<tx, library, enrolled, refund, network>>
  BY
    DEF Refunds!RequestRefund, Refunds!LoadDispute, Refunds!LoadSubmit, Refunds!LoadRefund,
        Refunds!Submitted, Refunds!SubmitFails, Refunds!Verify, Refunds!Lose
<1>2. /\ refunding' \in [Requests -> Refunds!CallRecord]
      /\ Relies(refunding'[c], tx, library, enrolled, refund, network)
      /\ \A d \in Requests \ {c} : refunding'[d] = refunding[d]
  <2>1. ASSUME NEW t \in Purchases, Refunds!RequestRefund(c, t) PROVE <1>2
    <3>1. tx[t] # "pending" /\ refunding' = [refunding EXCEPT ![c] = Refunds!At("create", t)] /\ "create" \in Refunds!Steps
      BY <2>1 DEF Refunds!RequestRefund, Refunds!Steps
    <3>2. /\ refunding' \in [Requests -> Refunds!CallRecord]
          /\ refunding'[c].pc = "create" /\ refunding'[c].on = t
          /\ refunding'[c].items = {} /\ refunding'[c].version = 0
          /\ \A d \in Requests \ {c} : refunding'[d] = refunding[d]
      BY <1>0, <3>1, RefundMoves
    <3>3. Relies(refunding'[c], tx, library, enrolled, refund, network)
      BY <1>0, <3>1, <3>2, RefundLoaded
    <3> QED BY <3>2, <3>3
  <2>2. ASSUME NEW r \in RefundIds, Refunds!LoadDispute(c, r) PROVE <1>2
    <3>1. /\ RefundMade(r, refund) /\ refunding' = [refunding EXCEPT ![c] = Refunds!At("dispute", r)]
          /\ "dispute" \in Refunds!Steps
      BY <2>2 DEF Refunds!LoadDispute, Refunds!Steps, RefundMade
    <3>2. /\ refunding' \in [Requests -> Refunds!CallRecord]
          /\ refunding'[c].pc = "dispute" /\ refunding'[c].on = r
          /\ refunding'[c].items = {} /\ refunding'[c].version = 0
          /\ \A d \in Requests \ {c} : refunding'[d] = refunding[d]
      BY <1>0, <3>1, RefundMoves
    <3>3. Relies(refunding'[c], tx, library, enrolled, refund, network)
      BY <1>0, <3>1, <3>2, RefundLoaded
    <3> QED BY <3>2, <3>3
  <2>3. ASSUME NEW r \in RefundIds, NEW to \in {"approved", "rejected", "resolved"},
               Refunds!LoadRefund(c, r, to)
        PROVE  <1>2
    <3>1. RefundMade(r, refund) /\ refunding' = [refunding EXCEPT ![c] = Refunds!At(to, r)] /\ to \in Refunds!Steps
      BY <2>3 DEF Refunds!LoadRefund, Refunds!Decides, Refunds!Steps, RefundMade
    <3>2. /\ refunding' \in [Requests -> Refunds!CallRecord]
          /\ refunding'[c].pc = to /\ refunding'[c].on = r
          /\ refunding'[c].items = {} /\ refunding'[c].version = 0
          /\ \A d \in Requests \ {c} : refunding'[d] = refunding[d]
      BY <1>0, <3>1, RefundMoves
    <3>3. Relies(refunding'[c], tx, library, enrolled, refund, network)
      BY <1>0, <3>1, <3>2, RefundLoaded
    <3> QED BY <3>2, <3>3
  <2>4. ASSUME NEW r \in RefundIds, Refunds!LoadSubmit(c, r) PROVE <1>2
    <3> DEFINE q == [pc |-> "submit", on |-> r, items |-> library.items, version |-> library.version]
    <3>1. RefundMade(r, refund) /\ refunding' = [refunding EXCEPT ![c] = q]
      BY <2>4 DEF Refunds!LoadSubmit, RefundMade
    <3>2. /\ q \in Refunds!CallRecord
          /\ Relies(q, tx, library, enrolled, refund, network)
      <4>1. /\ q.pc = "submit" /\ q.on = r /\ q.items = library.items
            /\ q.version = library.version /\ library.items \subseteq Purchases
            /\ library.version \in Nat /\ "submit" \in Refunds!Steps
        BY <1>0, RefundFields DEF Refunds!Steps
      <4>2. q \in Refunds!CallRecord BY <4>1 DEF Refunds!CallRecord
      <4> HIDE DEF q
      <4> QED BY <3>1, <4>1, <4>2 DEF Relies
    <3> HIDE DEF q
    <3> QED BY <1>0, <3>1, <3>2 DEF Refunds!TypeOK
  <2>5. CASE Refunds!Submitted(c)
    <3>1. Refunds!Goto(c, "verify") /\ "verify" \in Refunds!Steps /\ refunding[c].pc = "answer" /\ network[refunding[c].on] = "paid"
      BY <2>5 DEF Refunds!Submitted, Refunds!Steps
    <3> QED BY <1>0, <3>1, RefundMoves DEF Relies
  <2>6. CASE Refunds!SubmitFails(c)
    <3>1. Refunds!Goto(c, "fail") /\ "fail" \in Refunds!Steps /\ refunding[c].pc \in {"submit", "answer"}
      BY <2>6 DEF Refunds!SubmitFails, Refunds!Steps
    <3> QED BY <1>0, <3>1, RefundMoves DEF Relies
  <2>7. ASSUME NEW good \in BOOLEAN, Refunds!Verify(c, good) PROVE <1>2
    <3>1. /\ Refunds!Goto(c, "revoke") \/ Refunds!Goto(c, "fail")
          /\ {"revoke", "fail"} \subseteq Refunds!Steps /\ refunding[c].pc = "verify"
      BY <2>7 DEF Refunds!Verify, Refunds!Steps
    <3>2. CASE Refunds!Goto(c, "revoke") BY <1>0, <3>1, <3>2, RefundMoves DEF Relies
    <3>3. CASE Refunds!Goto(c, "fail") BY <1>0, <3>1, <3>3, RefundMoves DEF Relies
    <3> QED BY <3>1, <3>2, <3>3
  <2>8. CASE Refunds!Lose(c)
    <3>1. Refunds!End(c) BY <2>8 DEF Refunds!Lose
    <3> QED BY <1>0, <3>1, RefundMoves, RefundIdle
  <2> QED BY <2>1, <2>2, <2>3, <2>4, <2>5, <2>6, <2>7, <2>8
<1>3. Refunds!TypeOK' BY <1>0, <1>1, <1>2 DEF Refunds!TypeOK
<1> QED BY <1>1, <1>2, <1>3, RefundStep

\* A handler that goes to another step after Onward changes, or ends.
LEMMA RefundGoesOn ==
  ASSUME RefundInv, Refunds!TypeOK', RefundsOnward, NEW c \in Requests, NEW pc \in Refunds!Steps, Refunds!Goto(c, pc),
         {refunding[c].pc, pc} \cap {"idle", "create"} = {},
         pc \in {"verify", "revoke", "unenroll", "confirm", "mark refunded"}
           => network'[refunding[c].on] = "paid",
         pc \in {"submit", "answer", "verify", "revoke"}
           => refunding[c].pc \in {"submit", "answer", "verify", "revoke"},
         pc \in {"unenroll", "confirm", "mark refunded"}
           => refund'[refunding[c].on].of \notin library'.items,
         pc \in {"confirm", "mark refunded"} => refund'[refunding[c].on].of \notin enrolled'
  PROVE  AllRely(refunding', tx', library', enrolled', refund', network')
<1>1. Refunds!TypeOK /\ Relies(refunding[c], tx, library, enrolled, refund, network)
      /\ MadeOfPaid(tx, refund, network)
  BY DEF RefundInv, AllRely
<1>2. Relies(refunding[c], tx', library', enrolled', refund', network') BY <1>1, RefundStill
<1>3. /\ refunding'[c].pc = pc /\ refunding'[c].on = refunding[c].on /\ refunding'[c].items = refunding[c].items
      /\ refunding'[c].version = refunding[c].version /\ \A d \in Requests \ {c} : refunding'[d] = refunding[d]
  BY <1>1, RefundMoves
<1>4. Relies(refunding'[c], tx', library', enrolled', refund', network') BY <1>2, <1>3 DEF Relies
<1> QED BY <1>3, <1>4, RefundsRely

LEMMA RefundEnds ==
  ASSUME RefundInv, Refunds!TypeOK', RefundsOnward, NEW c \in Requests, Refunds!End(c)
  PROVE  AllRely(refunding', tx', library', enrolled', refund', network')
<1>1. /\ refunding'[c].pc = "idle" /\ refunding'[c].items = {} /\ refunding'[c].version = 0
      /\ \A d \in Requests \ {c} : refunding'[d] = refunding[d]
  BY RefundMoves DEF RefundInv
<1>2. 0 <= library'.version BY DEF Refunds!TypeOK
<1>3. Relies(refunding'[c], tx', library', enrolled', refund', network') BY <1>1, <1>2 DEF Relies
<1> QED BY <1>1, <1>3, RefundsRely

\* A save of a status: the index keeps a second refund from becoming active.
LEMMA RefundSaved ==
  ASSUME RefundInv, NEW r \in RefundIds, NEW into \in Refunds!Status \ {"none"}, RefundMade(r, refund),
         Refunds!SaveStatus(r, into), UNCHANGED <<tx, library, enrolled, network>>,
         refunding' \in [Requests -> Refunds!CallRecord]
  PROVE  /\ Refunds!TypeOK' /\ RefundsOnward /\ refund'[r].of = refund[r].of /\ MadeOfPaid(tx', refund', network')
         /\ Refunds!OneActive' /\ Refunds!KeptUntilPaid'
         /\ (into = "confirmed" => network[r] = "paid") => Refunds!RefundedIsPaid'
         /\ (into = "confirmed" => refund[r].of \notin library.items /\ refund[r].of \notin enrolled)
              => Refunds!StaysRevoked'
<1>0. Refunds!TypeOK BY DEF RefundInv
<1>1. /\ refund' \in [RefundIds -> [of : Purchases \cup {None}, status : Refunds!Status]]
      /\ refund'[r].of = refund[r].of /\ refund'[r].status = into
      /\ \A o \in RefundIds \ {r} : refund'[o] = refund[o]
  BY <1>0 DEF Refunds!SaveStatus, Refunds!TypeOK
<1>2. \A o \in RefundIds : /\ refund'[o].of = refund[o].of
                           /\ RefundMade(o, refund) <=> RefundMade(o, refund')
  BY <1>1 DEF RefundMade
<1>3. Refunds!TypeOK' BY <1>0, <1>1 DEF Refunds!TypeOK
<1>4. RefundsOnward BY <1>0, <1>2 DEF RefundsOnward, Refunds!TypeOK
<1>5. MadeOfPaid(tx', refund', network') BY <1>2 DEF MadeOfPaid, RefundInv
<1>6. Refunds!OneActive'
  <2>1. into \in Refunds!Active => \A o \in RefundIds \ {r} :
          ~(refund[o].of = refund[r].of /\ refund[o].status \in Refunds!Active)
    BY DEF Refunds!SaveStatus, Refunds!Free
  <2> QED BY <1>1, <1>2, <2>1 DEF Refunds!OneActive, RefundInv
<1>7. Refunds!KeptUntilPaid' BY DEF Refunds!KeptUntilPaid, RefundInv
<1>8. (into = "confirmed" => network[r] = "paid") => Refunds!RefundedIsPaid'
  BY <1>1, <1>2 DEF Refunds!RefundedIsPaid, RefundInv
<1>9. (into = "confirmed" => refund[r].of \notin library.items /\ refund[r].of \notin enrolled)
        => Refunds!StaysRevoked'
  BY <1>1, <1>2 DEF Refunds!StaysRevoked, RefundInv
<1> QED BY <1>1, <1>3, <1>4, <1>5, <1>6, <1>7, <1>8, <1>9

LEMMA RefundSaves ==
  ASSUME RefundInv, NEW c \in Requests,
         Refunds!SaveDecision(c) \/ Refunds!SaveDispute(c) \/ Refunds!SaveFailed(c) \/ Refunds!ConfirmRefund(c)
  PROVE  RefundInv'
<1> DEFINE r == refunding[c].on
<1>0. Refunds!TypeOK /\ Relies(refunding[c], tx, library, enrolled, refund, network)
  BY DEF RefundInv, AllRely
<1>1. r \in RefundIds /\ RefundMade(r, refund)
  BY <1>0
    DEF Refunds!SaveDecision, Refunds!SaveDispute, Refunds!SaveFailed, Refunds!ConfirmRefund,
        Relies
<1>2. UNCHANGED <<tx, library, enrolled, network>>
  BY DEF Refunds!SaveDecision, Refunds!SaveDispute, Refunds!SaveFailed, Refunds!ConfirmRefund
<1>3. CASE Refunds!SaveDecision(c) \/ Refunds!SaveFailed(c)
  <2>1. PICK into \in {"approved", "rejected", "resolved", "failed"} :
          Refunds!SaveStatus(r, into) /\ Refunds!End(c)
    BY <1>3 DEF Refunds!SaveDecision, Refunds!SaveFailed
  <2>2. into \in Refunds!Status \ {"none"} /\ into # "confirmed"
    BY DEF Refunds!Status, Refunds!Active
  <2>3. refunding' \in [Requests -> Refunds!CallRecord] BY <1>0, <2>1, RefundMoves
  <2> HIDE DEF r
  <2>4. /\ Refunds!TypeOK' /\ RefundsOnward /\ MadeOfPaid(tx', refund', network')
        /\ Refunds!OneActive' /\ Refunds!KeptUntilPaid' /\ Refunds!RefundedIsPaid' /\ Refunds!StaysRevoked'
    BY <1>1, <1>2, <2>1, <2>2, <2>3, RefundSaved
  <2>5. AllRely(refunding', tx', library', enrolled', refund', network') BY <2>1, <2>4, RefundEnds
  <2> QED BY <2>4, <2>5 DEF RefundInv
<1>4. CASE Refunds!SaveDispute(c)
  <2>1. Refunds!SaveStatus(r, "disputed") /\ Refunds!Goto(c, "mark disputed") /\ refunding[c].pc = "dispute"
    BY <1>4 DEF Refunds!SaveDispute
  <2>2. "disputed" \in Refunds!Status \ {"none"} /\ "mark disputed" \in Refunds!Steps
    BY DEF Refunds!Status, Refunds!Active, Refunds!Steps
  <2>3. refunding' \in [Requests -> Refunds!CallRecord] BY <1>0, <2>1, <2>2, RefundMoves
  <2> HIDE DEF r
  <2>4. /\ Refunds!TypeOK' /\ RefundsOnward /\ MadeOfPaid(tx', refund', network')
        /\ Refunds!OneActive' /\ Refunds!KeptUntilPaid' /\ Refunds!RefundedIsPaid' /\ Refunds!StaysRevoked'
    BY <1>1, <1>2, <2>1, <2>2, <2>3, RefundSaved
  <2>5. AllRely(refunding', tx', library', enrolled', refund', network')
    BY <2>1, <2>2, <2>4, RefundGoesOn
  <2> QED BY <2>4, <2>5 DEF RefundInv
<1>5. CASE Refunds!ConfirmRefund(c)
  <2>1. Refunds!SaveStatus(r, "confirmed") /\ Refunds!Goto(c, "mark refunded") /\ refunding[c].pc = "confirm"
    BY <1>5 DEF Refunds!ConfirmRefund
  <2>2. "confirmed" \in Refunds!Status \ {"none"} /\ "mark refunded" \in Refunds!Steps
    BY DEF Refunds!Status, Refunds!Active, Refunds!Steps
  <2>3. refunding' \in [Requests -> Refunds!CallRecord] BY <1>0, <2>1, <2>2, RefundMoves
  <2>4. network[r] = "paid" /\ refund[r].of \notin library.items /\ refund[r].of \notin enrolled
    BY <1>0, <2>1 DEF Relies
  <2>5. r = refunding[c].on OBVIOUS
  <2> HIDE DEF r
  <2>6. /\ Refunds!TypeOK' /\ RefundsOnward /\ MadeOfPaid(tx', refund', network') /\ refund'[r].of = refund[r].of
        /\ Refunds!OneActive' /\ Refunds!KeptUntilPaid' /\ Refunds!RefundedIsPaid' /\ Refunds!StaysRevoked'
    BY <1>1, <1>2, <2>1, <2>2, <2>3, <2>4, RefundSaved
  <2>7. AllRely(refunding', tx', library', enrolled', refund', network')
    BY <1>2, <2>1, <2>2, <2>4, <2>5, <2>6, RefundGoesOn
  <2> QED BY <2>6, <2>7 DEF RefundInv
<1> QED BY <1>3, <1>4, <1>5

\* A transaction is marked once its refund is disputed or paid.
LEMMA RefundMarks ==
  ASSUME RefundInv, NEW c \in Requests, Refunds!MarkDisputed(c) \/ Refunds!MarkRefunded(c)
  PROVE  RefundInv'
<1> DEFINE r == refunding[c].on
           p == refund[r].of
<1>0. Refunds!TypeOK /\ Relies(refunding[c], tx, library, enrolled, refund, network)
  BY DEF RefundInv, AllRely
<1>1. r \in RefundIds /\ RefundMade(r, refund) /\ (Refunds!MarkRefunded(c) => network[r] = "paid")
  BY <1>0 DEF Refunds!MarkDisputed, Refunds!MarkRefunded, Relies
<1>2. p \in Purchases /\ tx[p] # "pending" BY <1>1 DEF RefundInv, MadeOfPaid
<1>3. UNCHANGED <<library, enrolled, refund, network>> /\ Refunds!End(c)
  BY DEF Refunds!MarkDisputed, Refunds!MarkRefunded
<1>4. PICK mark \in {"disputed", "refunded"} :
        tx' = [tx EXCEPT ![p] = mark] /\ (mark = "refunded" => Refunds!MarkRefunded(c))
  BY DEF Refunds!MarkDisputed, Refunds!MarkRefunded
<1> HIDE DEF p
<1>5. /\ tx' \in [Purchases -> {"pending", "confirmed", "refunded", "disputed"}]
      /\ tx'[p] = mark /\ \A t \in Purchases \ {p} : tx'[t] = tx[t]
  BY <1>0, <1>2, <1>4 DEF Refunds!TypeOK
<1>6. refunding' \in [Requests -> Refunds!CallRecord] BY <1>0, <1>3, RefundMoves
<1>7. Refunds!TypeOK' BY <1>0, <1>3, <1>5, <1>6 DEF Refunds!TypeOK
<1>8. RefundsOnward BY <1>0, <1>2, <1>3, <1>5 DEF RefundsOnward, Refunds!TypeOK
<1>9. AllRely(refunding', tx', library', enrolled', refund', network')
  BY <1>3, <1>7, <1>8, RefundEnds
<1>10. \A t \in Purchases : tx'[t] # "pending" <=> tx[t] # "pending" BY <1>2, <1>5
<1>11. MadeOfPaid(tx', refund', network') BY <1>3, <1>10 DEF MadeOfPaid, RefundInv
<1>12. Refunds!KeptUntilPaid' BY <1>3, <1>10 DEF Refunds!KeptUntilPaid, RefundInv
<1>13. Refunds!RefundedIsPaid' BY <1>1, <1>3, <1>4, <1>5 DEF Refunds!RefundedIsPaid, RefundInv, p
<1> QED
  BY <1>3, <1>7, <1>9, <1>11, <1>12, <1>13 DEF RefundInv, Refunds!OneActive,
     Refunds!StaysRevoked

\* A new refund takes a free document, and its purchase has no active one.
LEMMA RefundCreates ==
  ASSUME RefundInv, NEW c \in Requests, NEW r \in RefundIds, Refunds!CreateRefund(c, r)
  PROVE  RefundInv'
<1> DEFINE p == refunding[c].on
           new == [of |-> p, status |-> "requested"]
<1>0. Refunds!TypeOK /\ Relies(refunding[c], tx, library, enrolled, refund, network)
  BY DEF RefundInv, AllRely
<1>1. /\ p \in Purchases /\ tx[p] # "pending" /\ ~RefundMade(r, refund) /\ network[r] = "none"
      /\ \A o \in RefundIds \ {r} : ~(refund[o].of = p /\ refund[o].status \in Refunds!Active)
  BY <1>0
    DEF Refunds!CreateRefund, Relies, RefundMade, Refunds!NoRefund, RefundInv, MadeOfPaid,
        Refunds!Free
<1>2. UNCHANGED <<tx, library, enrolled, network>> /\ Refunds!End(c) BY DEF Refunds!CreateRefund
<1>3. new.of = p /\ new.status = "requested" /\ refund' = [refund EXCEPT ![r] = new]
  BY DEF Refunds!CreateRefund
<1>4. new \in [of : Purchases \cup {None}, status : Refunds!Status]
  BY <1>1 DEF Refunds!Status, Refunds!Active
<1> HIDE DEF p, new
<1>5. /\ refund' \in [RefundIds -> [of : Purchases \cup {None}, status : Refunds!Status]]
      /\ refund'[r].of = p /\ refund'[r].status = "requested"
      /\ \A o \in RefundIds \ {r} : refund'[o] = refund[o]
  BY <1>0, <1>3, <1>4 DEF Refunds!TypeOK
<1>6. refunding' \in [Requests -> Refunds!CallRecord] BY <1>0, <1>2, RefundMoves
<1>7. Refunds!TypeOK' BY <1>0, <1>2, <1>5, <1>6 DEF Refunds!TypeOK
<1>8. RefundsOnward BY <1>0, <1>1, <1>2, <1>5 DEF RefundsOnward, Refunds!TypeOK, RefundMade
<1>9. AllRely(refunding', tx', library', enrolled', refund', network')
  BY <1>2, <1>7, <1>8, RefundEnds
<1>10. MadeOfPaid(tx', refund', network')
  BY <1>1, <1>2, <1>5 DEF MadeOfPaid, RefundMade, RefundInv
<1>11. Refunds!OneActive' BY <1>1, <1>5 DEF Refunds!OneActive, RefundInv
<1>12. Refunds!RefundedIsPaid'
  <2>1. \A o \in RefundIds : network[o] = "paid" => o # r BY <1>1
  <2> QED BY <1>1, <1>2, <1>5, <2>1 DEF Refunds!RefundedIsPaid, RefundInv
<1>13. Refunds!KeptUntilPaid' BY <1>2 DEF Refunds!KeptUntilPaid, RefundInv
<1>14. Refunds!StaysRevoked' BY <1>2, <1>5 DEF Refunds!StaysRevoked, RefundInv
<1> QED BY <1>7, <1>9, <1>10, <1>11, <1>12, <1>13, <1>14 DEF RefundInv

\* The network is given a payment, applies it or drops it; never takes one back.
LEMMA RefundNetwork ==
  ASSUME RefundInv, NEW r \in RefundIds, RefundMade(r, refund), UNCHANGED <<tx, library, enrolled, refund>>,
         NEW now \in {"none", "sent", "paid", "expired"}, network' = [network EXCEPT ![r] = now],
         network[r] = "paid" => now = "paid", refunding' \in [Requests -> Refunds!CallRecord]
  PROVE  /\ Refunds!TypeOK' /\ RefundsOnward /\ MadeOfPaid(tx', refund', network')
         /\ Refunds!OneActive' /\ Refunds!RefundedIsPaid' /\ Refunds!KeptUntilPaid' /\ Refunds!StaysRevoked'
<1>0. Refunds!TypeOK BY DEF RefundInv
<1>1. /\ network' \in [RefundIds -> {"none", "sent", "paid", "expired"}]
      /\ network'[r] = now /\ \A o \in RefundIds \ {r} : network'[o] = network[o]
  BY <1>0 DEF Refunds!TypeOK
<1>2. Refunds!TypeOK' BY <1>0, <1>1 DEF Refunds!TypeOK
<1>3. RefundsOnward BY <1>0, <1>1 DEF RefundsOnward, Refunds!TypeOK
<1>4. MadeOfPaid(tx', refund', network') BY <1>1 DEF MadeOfPaid, RefundInv
<1>5. \A o \in RefundIds : network[o] = "paid" => network'[o] = "paid" BY <1>1
<1> QED
  BY <1>2, <1>3, <1>4, <1>5
    DEF RefundInv, Refunds!OneActive, Refunds!RefundedIsPaid, Refunds!KeptUntilPaid,
        Refunds!StaysRevoked

LEMMA RefundSends ==
  ASSUME RefundInv, NEW c \in Requests, Refunds!SendXdr(c)
  PROVE  RefundInv'
<1> DEFINE r == refunding[c].on
           now == IF network[r] = "none" THEN "sent" ELSE network[r]
<1>0. Refunds!TypeOK /\ Relies(refunding[c], tx, library, enrolled, refund, network)
  BY DEF RefundInv, AllRely
<1>1. r \in RefundIds /\ RefundMade(r, refund) /\ refunding[c].pc = "submit"
  BY <1>0 DEF Refunds!SendXdr, Relies
<1>2. /\ network' = [network EXCEPT ![r] = now] /\ UNCHANGED <<tx, library, enrolled, refund>>
      /\ Refunds!Goto(c, "answer") /\ "answer" \in Refunds!Steps
  BY DEF Refunds!SendXdr, Refunds!Steps
<1>3. now \in {"none", "sent", "paid", "expired"} /\ (network[r] = "paid" => now = "paid")
  BY <1>0, <1>1 DEF Refunds!TypeOK
<1>4. refunding' \in [Requests -> Refunds!CallRecord] BY <1>0, <1>2, RefundMoves
<1> HIDE DEF r, now
<1>5. /\ Refunds!TypeOK' /\ RefundsOnward /\ MadeOfPaid(tx', refund', network')
      /\ Refunds!OneActive' /\ Refunds!RefundedIsPaid' /\ Refunds!KeptUntilPaid' /\ Refunds!StaysRevoked'
  BY <1>1, <1>2, <1>3, <1>4, RefundNetwork
<1>6. AllRely(refunding', tx', library', enrolled', refund', network')
  BY <1>1, <1>2, <1>5, RefundGoesOn
<1> QED BY <1>5, <1>6 DEF RefundInv

LEMMA RefundSettles ==
  ASSUME RefundInv, NEW r \in RefundIds, NEW outcome \in {"paid", "expired"}, Refunds!Settle(r, outcome)
  PROVE  RefundInv'
<1>1. RefundMade(r, refund) BY DEF Refunds!Settle, RefundInv, MadeOfPaid
<1>2. refunding' \in [Requests -> Refunds!CallRecord]
  BY DEF Refunds!Settle, RefundInv, Refunds!TypeOK
<1>3. /\ Refunds!TypeOK' /\ RefundsOnward /\ MadeOfPaid(tx', refund', network')
      /\ Refunds!OneActive' /\ Refunds!RefundedIsPaid' /\ Refunds!KeptUntilPaid' /\ Refunds!StaysRevoked'
  BY <1>1, <1>2, RefundNetwork DEF Refunds!Settle
<1>4. AllRely(refunding', tx', library', enrolled', refund', network')
  BY <1>3, RefundsRely DEF Refunds!Settle
<1> QED BY <1>3, <1>4 DEF RefundInv

\* The item is taken from the buyer, and the buyer from the course: the money was paid.
LEMMA RefundRevokes ==
  ASSUME RefundInv, NEW c \in Requests, Refunds!RevokeBuyer(c)
  PROVE  RefundInv'
<1> DEFINE r == refunding[c].on
           p == refund[r].of
           q == refunding[c]
<1>0. Refunds!TypeOK /\ Relies(q, tx, library, enrolled, refund, network)
  BY DEF RefundInv, AllRely
<1>1. /\ r \in RefundIds /\ RefundMade(r, refund) /\ network[r] = "paid" /\ q.pc = "revoke"
      /\ q.version \in Nat /\ q.items \subseteq Purchases /\ library.version \in Nat
      /\ q.version = library.version => q.items \subseteq library.items
      /\ p \notin q.items => p \notin library.items
  BY <1>0, RefundFields DEF Refunds!RevokeBuyer, Relies
<1>2. UNCHANGED <<tx, enrolled, refund, network>> /\ Refunds!Goto(c, "unenroll") /\ "unenroll" \in Refunds!Steps
  BY DEF Refunds!RevokeBuyer, Refunds!Steps
<1> DEFINE new == [items |-> q.items \ {p}, version |-> library.version + 1]
<1>3. \/ q.version = library.version /\ library' = new
      \/ p \notin q.items /\ library' = library
  BY DEF Refunds!RevokeBuyer
<1>4. new.items = q.items \ {p} /\ new.version = library.version + 1
      /\ new \in [items : SUBSET Purchases, version : Nat]
  BY <1>1
<1> HIDE DEF new, p
<1>5. /\ library' \in [items : SUBSET Purchases, version : Nat]
      /\ p \notin library'.items /\ library'.items \subseteq library.items
      /\ library.version <= library'.version
      /\ library'.version = library.version => library' = library
  BY <1>0, <1>1, <1>3, <1>4 DEF Refunds!TypeOK
<1>6. refunding' \in [Requests -> Refunds!CallRecord] BY <1>0, <1>2, RefundMoves
<1>7. Refunds!TypeOK' BY <1>0, <1>2, <1>5, <1>6 DEF Refunds!TypeOK
<1>8. RefundsOnward BY <1>0, <1>2, <1>5 DEF RefundsOnward, Refunds!TypeOK
<1>9. AllRely(refunding', tx', library', enrolled', refund', network')
  BY <1>1, <1>2, <1>5, <1>7, <1>8, RefundGoesOn DEF p
<1>10. Refunds!KeptUntilPaid' BY <1>1, <1>2 DEF Refunds!KeptUntilPaid
<1>11. Refunds!StaysRevoked' BY <1>2, <1>5 DEF Refunds!StaysRevoked, RefundInv
<1> QED
  BY <1>2, <1>7, <1>9, <1>10, <1>11
    DEF RefundInv, MadeOfPaid, Refunds!OneActive, Refunds!RefundedIsPaid

LEMMA RefundUnenrolls ==
  ASSUME RefundInv, NEW c \in Requests, Refunds!Unenroll(c)
  PROVE  RefundInv'
<1> DEFINE r == refunding[c].on
           p == refund[r].of
<1>0. Refunds!TypeOK /\ Relies(refunding[c], tx, library, enrolled, refund, network)
  BY DEF RefundInv, AllRely
<1>1. /\ r \in RefundIds /\ RefundMade(r, refund) /\ network[r] = "paid" /\ refunding[c].pc = "unenroll"
      /\ p \notin library.items
  BY <1>0 DEF Refunds!Unenroll, Relies
<1>2. /\ UNCHANGED <<tx, library, refund, network>> /\ Refunds!Goto(c, "confirm") /\ "confirm" \in Refunds!Steps
      /\ enrolled' = enrolled \ {p}
  BY DEF Refunds!Unenroll, Refunds!Steps
<1>3. refunding' \in [Requests -> Refunds!CallRecord] BY <1>0, <1>2, RefundMoves
<1>4. Refunds!TypeOK' BY <1>0, <1>2, <1>3 DEF Refunds!TypeOK
<1>5. RefundsOnward BY <1>0, <1>2 DEF RefundsOnward, Refunds!TypeOK
<1>6. AllRely(refunding', tx', library', enrolled', refund', network')
  BY <1>1, <1>2, <1>4, <1>5, RefundGoesOn
<1>7. Refunds!KeptUntilPaid' BY <1>1, <1>2 DEF Refunds!KeptUntilPaid
<1>8. Refunds!StaysRevoked' BY <1>2 DEF Refunds!StaysRevoked, RefundInv
<1> QED
  BY <1>2, <1>4, <1>6, <1>7, <1>8
    DEF RefundInv, MadeOfPaid, Refunds!OneActive, Refunds!RefundedIsPaid

\* A purchase is confirmed before any refund of it.
LEMMA RefundGrants ==
  ASSUME RefundInv, NEW t \in Purchases, NEW bump \in {0, 1}, Refunds!Grant(t, bump)
  PROVE  RefundInv'
<1> DEFINE new == [items |-> library.items \cup {t}, version |-> library.version + bump]
<1>0. Refunds!TypeOK /\ library.version \in Nat /\ library.items \subseteq Purchases
  BY RefundFields DEF RefundInv
<1>1. /\ tx[t] = "pending" /\ tx' = [tx EXCEPT ![t] = "confirmed"] /\ library' = new
      /\ enrolled' = enrolled \cup {t} /\ UNCHANGED <<refund, network, refunding>>
  BY DEF Refunds!Grant
<1>2. /\ new.items = library.items \cup {t} /\ new.version \in Nat
      /\ library.version <= new.version /\ new \in [items : SUBSET Purchases, version : Nat]
  BY <1>0
<1> HIDE DEF new
<1>3. /\ tx' \in [Purchases -> {"pending", "confirmed", "refunded", "disputed"}]
      /\ tx'[t] = "confirmed" /\ \A p \in Purchases \ {t} : tx'[p] = tx[p]
  BY <1>0, <1>1 DEF Refunds!TypeOK
<1>4. Refunds!TypeOK' BY <1>0, <1>1, <1>2, <1>3 DEF Refunds!TypeOK
<1>5. RefundsOnward BY <1>0, <1>1, <1>2, <1>3 DEF RefundsOnward, Refunds!TypeOK
<1>6. AllRely(refunding', tx', library', enrolled', refund', network')
  BY <1>1, <1>4, <1>5, RefundsRely
<1>7. MadeOfPaid(tx', refund', network') BY <1>1, <1>3 DEF MadeOfPaid, RefundMade, RefundInv
<1>8. Refunds!RefundedIsPaid' BY <1>1, <1>3 DEF Refunds!RefundedIsPaid, RefundInv
<1>9. Refunds!KeptUntilPaid' BY <1>1, <1>2, <1>3 DEF Refunds!KeptUntilPaid, RefundInv
<1>10. Refunds!StaysRevoked'
  <2>1. \A r \in RefundIds : refund[r].status = "confirmed" => refund[r].of # t
    BY <1>1 DEF RefundInv, MadeOfPaid, RefundMade
  <2> QED BY <1>1, <1>2, <2>1 DEF Refunds!StaysRevoked, RefundInv
<1> QED BY <1>1, <1>4, <1>6, <1>7, <1>8, <1>9, <1>10 DEF RefundInv, Refunds!OneActive

LEMMA RefundInit == Refunds!Init => RefundInv
<1> SUFFICES ASSUME Refunds!Init PROVE RefundInv OBVIOUS
<1>1. Refunds!Idle.pc = "idle" /\ Refunds!Idle.items = {} /\ Refunds!Idle.version = 0 /\ Refunds!Idle \in Refunds!CallRecord
  BY DEF Refunds!Idle, Refunds!CallRecord, Refunds!Steps
<1>2. Refunds!NoRefund.of = None /\ Refunds!NoRefund.status = "none"
      /\ Refunds!NoRefund \in [of : Purchases \cup {None}, status : Refunds!Status]
  BY DEF Refunds!NoRefund, Refunds!Status
<1>3. Refunds!TypeOK BY <1>1, <1>2 DEF Refunds!Init, Refunds!TypeOK
<1>4. \A c \in Requests : refunding[c].pc = "idle" /\ refunding[c].items = {} /\ refunding[c].version = 0
  BY <1>1 DEF Refunds!Init
<1>5. AllRely(refunding, tx, library, enrolled, refund, network)
  BY <1>3, <1>4, RefundIdle DEF AllRely
<1>6. \A r \in RefundIds : refund[r].status = "none" /\ network[r] = "none"
  BY <1>2 DEF Refunds!Init
<1>7. \A t \in Purchases : tx[t] = "pending" BY DEF Refunds!Init
<1> QED BY <1>3, <1>5, <1>6, <1>7
   DEF RefundInv, MadeOfPaid, RefundMade, Refunds!OneActive, Refunds!Active,
       Refunds!RefundedIsPaid, Refunds!KeptUntilPaid, Refunds!StaysRevoked

LEMMA RefundNext == RefundInv /\ (Refunds!Next \/ UNCHANGED refundVars) => RefundInv'
<1> SUFFICES ASSUME RefundInv, Refunds!Next \/ UNCHANGED refundVars PROVE RefundInv' OBVIOUS
<1>1. CASE UNCHANGED refundVars
  <2>1. Refunds!TypeOK' BY <1>1 DEF RefundInv, Refunds!TypeOK, refundVars
  <2> QED BY <1>1, <2>1, RefundStep DEF refundVars
<1>2. ASSUME NEW c \in Requests, Refunds!Handle(c) \/ Refunds!Lose(c) PROVE RefundInv'
  BY <1>2, RefundLoads, RefundSaves, RefundMarks, RefundCreates, RefundSends, RefundRevokes,
     RefundUnenrolls
    DEF Refunds!Handle
<1>3. ASSUME NEW t \in Purchases, NEW bump \in {0, 1}, Refunds!Grant(t, bump) PROVE RefundInv'
  BY <1>3, RefundGrants
<1>4. ASSUME NEW r \in RefundIds, NEW outcome \in {"paid", "expired"}, Refunds!Settle(r, outcome)
      PROVE  RefundInv'
  BY <1>4, RefundSettles
<1> QED BY <1>1, <1>2, <1>3, <1>4 DEF Refunds!Next

\* A purchase has one refund in progress, only what the network paid is recorded as
\* refunded, and the item stays until a payment was made and is gone once it is
\* confirmed: for any number of handlers, purchases and refunds.
THEOREM RefundsKept == AccountsSpec => []RefundsSound
<1>1. AccountsInit => RefundInv BY RefundInit DEF AccountsInit
<1>2. /\ RefundInv
      /\ [AccountsNext]_<<vars, ipVars, cacheVars, educatorVars, refundVars, roomVars, part>>
      => RefundInv'
  BY RefundNext DEF AccountsNext
<1>3. RefundInv => RefundsSound BY DEF RefundInv, RefundsSound
<1> QED BY <1>1, <1>2, <1>3, PTL DEF AccountsSpec

\* Every variable of the refunds has its type, for any number of handlers, purchases and
\* refunds.
THEOREM RefundsTyped == AccountsSpec => []Refunds!TypeOK
<1>1. AccountsInit => RefundInv BY RefundInit DEF AccountsInit
<1>2. /\ RefundInv
      /\ [AccountsNext]_<<vars, ipVars, cacheVars, educatorVars, refundVars, roomVars, part>>
      => RefundInv'
  BY RefundNext DEF AccountsNext
<1>3. RefundInv => Refunds!TypeOK BY DEF RefundInv
<1> QED BY <1>1, <1>2, <1>3, PTL DEF AccountsSpec

-----------------------------------------------------------------------------
(***************************************************************************)
(* What is kept of addresses, answers and educators has a cause.           *)
(***************************************************************************)
\* Calls that counted a failure over the threshold and will count the offense.
Striking(q) == {c \in Calls : q[c].at \in {"clear", "block", "list", "offend"}}

\* An offense under way or counted is worth a failure, the first one a whole threshold.
Struck(q, n, m) ==
    n + Cardinality(Striking(q)) > 0 => m >= Thresholds[0] + (n + Cardinality(Striking(q))) - 1

IpStep == {"idle", "read", "count", "clear", "block", "list", "offend", "forgive", "pardon", "unlist"}

IpInv ==
    /\ failKey \in Nat /\ offenseKey \in Nat /\ blockKey \in Nat /\ recorded \in Nat
    /\ applied \in Nat /\ ipCall \in [Calls -> [at : IpStep, tier : 0..Permanent]]
    /\ failKey <= recorded /\ offenseKey <= applied /\ blockKey <= applied + 1
    /\ \A c \in Calls : ipCall[c].tier <= applied
    /\ Struck(ipCall, applied, recorded)

LEMMA StrikingFinite ==
  \A q : IsFiniteSet(Striking(q)) /\ Cardinality(Striking(q)) \in Nat
BY TiersAssumption, FS_Subset, FS_CardinalityType DEF Striking

Strikes == {"clear", "block", "list", "offend"}

\* What a command does to the keys, and why a call may strike after it.
IpKeys(tier) ==
    /\ failKey' \in Nat /\ offenseKey' \in Nat /\ blockKey' \in Nat /\ recorded' \in Nat
    /\ applied' \in Nat /\ failKey' <= recorded' /\ offenseKey' <= applied'
    /\ blockKey' <= applied' + 1 /\ tier \in 0..Permanent /\ tier <= applied'
    /\ recorded <= recorded' /\ applied <= applied'

IpCause(c, at) ==
    \/ applied' = applied /\ (c \notin Striking(ipCall) => at \notin Strikes)
    \/ /\ applied' = applied /\ recorded' = recorded + 1 /\ at = "clear"
       /\ applied > 0 \/ recorded' >= Thresholds[0]
    \/ applied' = applied + 1 /\ c \in Striking(ipCall) /\ at = "idle"

LEMMA IpMoves ==
  ASSUME IpInv, NEW c \in Calls, NEW at \in IpStep, NEW tier,
         Ip!Goes(c, at, tier), IpKeys(tier), IpCause(c, at)
  PROVE  IpInv'
<1> DEFINE now == [at |-> at, tier |-> tier]
           N == Cardinality(Striking(ipCall))
           M == Cardinality(Striking(ipCall'))
<1>1. now.at = at /\ now.tier = tier /\ now \in [at : IpStep, tier : 0..Permanent]
  BY DEF IpKeys
<1>2. /\ ipCall' \in [Calls -> [at : IpStep, tier : 0..Permanent]] /\ ipCall'[c] = now
      /\ \A d \in Calls \ {c} : ipCall'[d] = ipCall[d]
  <2>1. ipCall' = [ipCall EXCEPT ![c] = now] BY DEF Ip!Goes
  <2> HIDE DEF now
  <2> QED BY <1>1, <2>1 DEF IpInv
<1> HIDE DEF now
<1>3. Striking(ipCall') = IF at \in Strikes
                          THEN Striking(ipCall) \cup {c} ELSE Striking(ipCall) \ {c}
  BY <1>1, <1>2 DEF Striking, Strikes
<1>4. N \in Nat /\ M \in Nat BY StrikingFinite
<1>5. /\ M <= N + 1
      /\ at \notin Strikes => M <= N
      /\ c \in Striking(ipCall) => M <= N
      /\ c \in Striking(ipCall) /\ at = "idle" => M = N - 1
  <2>0. IsFiniteSet(Striking(ipCall)) /\ "idle" \notin Strikes BY StrikingFinite DEF Strikes
  <2>1. CASE at \in Strikes /\ c \in Striking(ipCall)
    <3>1. Striking(ipCall') = Striking(ipCall) BY <2>1, <1>3
    <3> QED BY <2>0, <2>1, <3>1, <1>4
  <2>2. CASE at \in Strikes /\ c \notin Striking(ipCall)
    <3>1. M = N + 1 BY <2>0, <2>2, <1>3, FS_AddElement
    <3> HIDE DEF M, N
    <3> QED BY <2>2, <3>1, <1>4
  <2>3. CASE at \notin Strikes /\ c \in Striking(ipCall)
    <3>1. M = N - 1 BY <2>0, <2>3, <1>3, FS_RemoveElement
    <3> HIDE DEF M, N
    <3> QED BY <2>3, <3>1, <1>4
  <2>4. CASE at \notin Strikes /\ c \notin Striking(ipCall)
    <3>1. Striking(ipCall') = Striking(ipCall) BY <2>4, <1>3
    <3> QED BY <2>4, <3>1, <1>4
  <2> QED BY <2>1, <2>2, <2>3, <2>4
<1>6. Thresholds[0] \in Nat BY TiersAssumption
<1> HIDE DEF N, M
<1>7. /\ Struck(ipCall, applied, recorded) /\ applied \in Nat /\ recorded \in Nat
      /\ recorded' \in Nat /\ recorded <= recorded'
  BY DEF IpInv, IpKeys
<1>8. Struck(ipCall', applied', recorded')
  <2>1. N = Cardinality(Striking(ipCall)) /\ M = Cardinality(Striking(ipCall')) BY DEF N, M
  <2>2. applied + N > 0 => recorded >= Thresholds[0] + (applied + N) - 1
    BY <1>7, <2>1 DEF Struck
  <2>3. applied' + M > 0 => recorded' >= Thresholds[0] + (applied' + M) - 1
    <3>1. CASE applied' = applied /\ M <= N BY <3>1, <2>2, <1>4, <1>6, <1>7
    <3>2. CASE applied' = applied /\ recorded' = recorded + 1
               /\ (applied > 0 \/ recorded' >= Thresholds[0])
      BY <3>2, <2>2, <1>4, <1>5, <1>6, <1>7
    <3>3. CASE applied' = applied + 1 /\ M = N - 1 BY <3>3, <2>2, <1>4, <1>6, <1>7
    <3> QED BY <3>1, <3>2, <3>3, <1>5 DEF IpCause
  <2> QED BY <2>1, <2>3 DEF Struck
<1>9. \A d \in Calls : ipCall'[d].tier <= applied'
  <2>1. \A d \in Calls : ipCall[d].tier \in Nat /\ ipCall[d].tier <= applied BY TiersAssumption DEF IpInv
  <2>2. tier <= applied' /\ applied <= applied' /\ applied' \in Nat BY DEF IpKeys
  <2> QED BY <1>1, <1>2, <1>7, <2>1, <2>2
<1> QED BY <1>2, <1>8, <1>9 DEF IpInv, IpKeys

LEMMA IpCalls ==
  ASSUME IpInv, NEW c \in Calls,
         \/ Ip!RecordFailure(c) \/ Ip!ReadOffenses(c) \/ Ip!CountFailure(c) \/ Ip!ClearFailures(c)
         \/ Ip!SetBlock(c) \/ Ip!AddToIndex(c) \/ Ip!CountOffense(c)
         \/ Ip!Unblock(c) \/ Ip!ForgiveFailures(c) \/ Ip!PardonOffenses(c) \/ Ip!FindFree(c)
         \/ Ip!RemoveFromIndex(c) \/ Ip!RedisFails(c)
  PROVE  IpInv'
<1> DEFINE q == ipCall[c]
<1>0. /\ failKey \in Nat /\ offenseKey \in Nat /\ blockKey \in Nat /\ recorded \in Nat
      /\ applied \in Nat /\ failKey <= recorded /\ offenseKey <= applied /\ blockKey <= applied + 1
      /\ q.tier \in 0..Permanent /\ q.tier <= applied /\ 0 \in 0..Permanent /\ 0 <= applied
      /\ Permanent \in Nat
  BY TiersAssumption DEF IpInv
<1>1. c \in Striking(ipCall) <=> q.at \in Strikes BY DEF Striking, Strikes
<1>2. {"idle", "read", "count", "clear", "block", "list", "offend", "forgive", "pardon", "unlist"}
        \subseteq IpStep
  BY DEF IpStep
<1>3. Ip!Ends(c) => Ip!Goes(c, "idle", 0) BY DEF Ip!Ends, Ip!Goes, Ip!Idle
<1> HIDE DEF q
<1> DEFINE Same == UNCHANGED <<recorded, applied>>
           Keys == /\ failKey' \in {0, failKey} /\ offenseKey' \in {0, offenseKey}
                   /\ blockKey' \in {0, blockKey, q.tier + 1} /\ Same
<1>4. ASSUME NEW tier \in 0..Permanent, tier <= applied, Keys PROVE IpKeys(tier)
  BY <1>0, <1>4 DEF IpKeys
<1>5. ASSUME NEW at \in IpStep, NEW tier \in 0..Permanent, tier <= applied, Keys, Ip!Goes(c, at, tier),
             at \in Strikes => q.at \in Strikes
      PROVE  IpInv'
  <2>1. IpKeys(tier) BY <1>4, <1>5
  <2>2. IpCause(c, at) BY <1>1, <1>5 DEF IpCause
  <2> HIDE DEF Keys
  <2> QED BY <1>5, <2>1, <2>2, IpMoves
<1>6. CASE Ip!RecordFailure(c) \/ Ip!FindFree(c)
  <2>1. Keys /\ (Ip!Goes(c, "read", 0) \/ Ip!Goes(c, "unlist", 0))
    BY <1>6 DEF Ip!RecordFailure, Ip!FindFree
  <2> HIDE DEF Keys
  <2> QED BY <1>0, <1>2, <1>5, <2>1 DEF Strikes
<1>7. CASE Ip!ReadOffenses(c)
  <2> DEFINE tier == Ip!Tier(offenseKey)
  <2>1. tier \in 0..Permanent /\ tier <= applied BY <1>0 DEF Ip!Tier, Ip!Least
  <2>2. Keys /\ Ip!Goes(c, "count", tier) BY <1>7 DEF Ip!ReadOffenses
  <2> HIDE DEF tier, Keys
  <2> QED BY <1>2, <1>5, <2>1, <2>2 DEF Strikes
<1>8. CASE Ip!CountFailure(c)
  <2>1. /\ q.at = "count" /\ failKey' = failKey + 1 /\ recorded' = recorded + 1
        /\ UNCHANGED <<offenseKey, blockKey, applied>>
        /\ IF failKey' < Thresholds[q.tier] THEN Ip!Ends(c) ELSE Ip!Goes(c, "clear", q.tier)
    BY <1>8 DEF Ip!CountFailure, q
  <2>2. IpKeys(0) /\ IpKeys(q.tier) BY <1>0, <2>1 DEF IpKeys
  <2>3. CASE failKey' < Thresholds[q.tier]
    <3>1. Ip!Goes(c, "idle", 0) BY <1>3, <2>1, <2>3
    <3>2. IpCause(c, "idle") BY <2>1 DEF IpCause, Strikes
    <3> QED BY <1>2, <2>2, <3>1, <3>2, IpMoves
  <2>4. CASE ~(failKey' < Thresholds[q.tier])
    <3>1. Ip!Goes(c, "clear", q.tier) BY <2>1, <2>4
    <3>2. applied > 0 \/ recorded' >= Thresholds[0]
      <4>1. Thresholds[q.tier] \in Nat BY <1>0, TiersAssumption
      <4>2. CASE q.tier = 0 BY <1>0, <2>1, <2>4, <4>1, <4>2
      <4>3. CASE q.tier # 0 BY <1>0, <4>3
      <4> QED BY <4>2, <4>3
    <3>3. IpCause(c, "clear") BY <2>1, <3>2 DEF IpCause
    <3> QED BY <1>2, <2>2, <3>1, <3>3, IpMoves
  <2> QED BY <2>3, <2>4
<1>9. CASE Ip!ClearFailures(c) \/ Ip!SetBlock(c) \/ Ip!AddToIndex(c)
  <2>1. /\ Keys /\ q.at \in Strikes
        /\ \/ Ip!Goes(c, "block", q.tier) \/ Ip!Goes(c, "list", q.tier) \/ Ip!Goes(c, "offend", 0)
    BY <1>9 DEF Ip!ClearFailures, Ip!SetBlock, Ip!AddToIndex, Strikes, q
  <2> HIDE DEF Keys
  <2> QED BY <1>0, <1>2, <1>5, <2>1
<1>10. CASE Ip!CountOffense(c)
  <2>1. Ip!Goes(c, "idle", 0) BY <1>3, <1>10 DEF Ip!CountOffense
  <2>2. /\ q.at = "offend" /\ UNCHANGED <<failKey, blockKey, recorded>>
        /\ offenseKey' = offenseKey + 1 /\ applied' = applied + 1
    BY <1>10 DEF Ip!CountOffense, q
  <2>3. IpKeys(0) BY <1>0, <2>2 DEF IpKeys
  <2>4. IpCause(c, "idle") BY <1>1, <2>2 DEF IpCause, Strikes
  <2> QED BY <1>2, <2>1, <2>3, <2>4, IpMoves
<1>11. CASE Ip!Unblock(c) \/ Ip!ForgiveFailures(c) \/ Ip!PardonOffenses(c)
  <2>1. /\ Keys
        /\ \/ Ip!Goes(c, "forgive", 0) \/ Ip!Goes(c, "pardon", 0) \/ Ip!Goes(c, "unlist", 0)
    BY <1>11 DEF Ip!Unblock, Ip!ForgiveFailures, Ip!PardonOffenses
  <2> HIDE DEF Keys
  <2> QED BY <1>0, <1>2, <1>5, <2>1 DEF Strikes
<1>12. CASE Ip!RemoveFromIndex(c) \/ Ip!RedisFails(c)
  <2>1. Keys /\ Ip!Goes(c, "idle", 0) BY <1>3, <1>12 DEF Ip!RemoveFromIndex, Ip!RedisFails
  <2> HIDE DEF Keys
  <2> QED BY <1>0, <1>2, <1>5, <2>1 DEF Strikes
<1> QED BY <1>6, <1>7, <1>8, <1>9, <1>10, <1>11, <1>12

LEMMA IpNext == IpInv /\ (Ip!Next \/ UNCHANGED ipVars) => IpInv'
<1>1. IpInv /\ UNCHANGED ipVars => IpInv' BY DEF IpInv, ipVars, Striking, Struck
<1>2. ASSUME IpInv, NEW c \in Calls,
             \/ Ip!RecordFailure(c) \/ Ip!ReadOffenses(c) \/ Ip!CountFailure(c)
             \/ Ip!ClearFailures(c) \/ Ip!SetBlock(c) \/ Ip!AddToIndex(c) \/ Ip!CountOffense(c)
             \/ Ip!Unblock(c) \/ Ip!ForgiveFailures(c) \/ Ip!PardonOffenses(c) \/ Ip!FindFree(c)
             \/ Ip!RemoveFromIndex(c) \/ Ip!RedisFails(c)
      PROVE  IpInv'
  BY <1>2, IpCalls
<1>3. ASSUME IpInv, Ip!Lapse PROVE IpInv'
  <2>1. /\ UNCHANGED <<ipCall, recorded, applied>> /\ failKey' \in {0, failKey}
        /\ offenseKey' \in {0, offenseKey} /\ blockKey' \in {0, blockKey}
    BY <1>3 DEF Ip!Lapse
  <2> QED BY <1>3, <2>1 DEF IpInv, Striking, Struck
<1> QED BY <1>1, <1>2, <1>3 DEF Ip!Next

LEMMA IpInit == Ip!Init => IpInv
<1> SUFFICES ASSUME Ip!Init PROVE IpInv OBVIOUS
<1>1. Ip!Idle.at = "idle" /\ Ip!Idle.tier = 0 /\ Ip!Idle \in [at : IpStep, tier : 0..Permanent]
  BY TiersAssumption DEF Ip!Idle, IpStep
<1>2. ipCall \in [Calls -> [at : IpStep, tier : 0..Permanent]]
      /\ \A c \in Calls : ipCall[c].tier = 0 /\ ipCall[c].at = "idle"
  BY <1>1 DEF Ip!Init
<1>3. Striking(ipCall) = {} BY <1>2 DEF Striking
<1>4. Struck(ipCall, 0, 0) BY <1>3, FS_EmptySet DEF Struck
<1> QED BY <1>2, <1>4 DEF Ip!Init, IpInv

LEMMA IpGives == IpInv => Ip!TierEarned
<1> SUFFICES ASSUME IpInv PROVE Ip!TierEarned OBVIOUS
<1>1. Thresholds[0] \in Nat /\ Cardinality(Striking(ipCall)) \in Nat /\ applied \in Nat
      /\ recorded \in Nat
  BY TiersAssumption, StrikingFinite DEF IpInv
<1>2. Struck(ipCall, applied, recorded) /\ blockKey <= applied + 1 BY DEF IpInv
<1> QED BY <1>1, <1>2 DEF Struck, Ip!TierEarned

CachedAnswer == [answer : 0..MaxWrites, late : BOOLEAN]

CacheInv ==
    /\ entry = None \/ entry \in CachedAnswer
    /\ writer \in [Writers -> {"idle", "written", "delete"}]
    /\ Cache!FreshUnlessRaced

LEMMA CacheNext == CacheInv /\ (Cache!Next \/ UNCHANGED cacheVars) => CacheInv'
<1>1. CacheInv /\ UNCHANGED cacheVars => CacheInv'
  BY DEF CacheInv, cacheVars, Cache!FreshUnlessRaced
<1>2. ASSUME CacheInv, NEW r \in Readers, Cache!Miss(r) \/ Cache!Compute(r)
      PROVE  CacheInv'
  BY <1>2 DEF CacheInv, Cache!FreshUnlessRaced, Cache!Miss, Cache!Compute
<1>3. ASSUME CacheInv, NEW r \in Readers, Cache!Store(r)
      PROVE  CacheInv'
  <2> DEFINE now == [answer |-> reader[r], late |-> reader[r] # row]
  <2>1. now \in CachedAnswer /\ (now.answer # row => now.late) BY <1>3 DEF Cache!Store, CachedAnswer
  <2>2. entry' = now \/ entry' = entry BY <1>3 DEF Cache!Store
  <2> HIDE DEF now
  <2> QED BY <1>3, <2>1, <2>2 DEF CacheInv, Cache!FreshUnlessRaced, Cache!Store
<1>4. ASSUME CacheInv, NEW w \in Writers, Cache!Write(w)
      PROVE  CacheInv'
  <2>1. writer' \in [Writers -> {"idle", "written", "delete"}] /\ writer'[w] # "idle"
    BY <1>4 DEF CacheInv, Cache!Write, Cache!At
  <2> QED BY <1>4, <2>1 DEF CacheInv, Cache!FreshUnlessRaced, Cache!Write
<1>5. ASSUME CacheInv, NEW w \in Writers, Cache!ListKeys(w) \/ Cache!DeleteKeys(w)
      PROVE  CacheInv'
  <2>1. /\ writer' \in [Writers -> {"idle", "written", "delete"}] /\ row' = row
        /\ \/ writer'[w] # "idle" /\ entry' = entry
           \/ entry' = None
           \/ entry # None /\ entry' = [entry EXCEPT !.late = TRUE]
    BY <1>5 DEF CacheInv, Cache!ListKeys, Cache!DeleteKeys, Cache!At
  <2>2. CASE writer'[w] # "idle" /\ entry' = entry
    BY <1>5, <2>1, <2>2 DEF CacheInv, Cache!FreshUnlessRaced
  <2>3. CASE entry' = None BY <2>1, <2>3 DEF CacheInv, Cache!FreshUnlessRaced
  <2>4. CASE entry # None /\ entry' = [entry EXCEPT !.late = TRUE]
    <3>1. entry \in CachedAnswer BY <1>5, <2>4 DEF CacheInv
    <3>2. entry' \in CachedAnswer /\ entry'.late BY <2>4, <3>1 DEF CachedAnswer
    <3> QED BY <2>1, <3>2 DEF CacheInv, Cache!FreshUnlessRaced
  <2> QED BY <2>1, <2>2, <2>3, <2>4
<1>6. ASSUME CacheInv, Cache!Expire \/ Cache!Toggle PROVE CacheInv'
  BY <1>6 DEF CacheInv, Cache!FreshUnlessRaced, Cache!Expire, Cache!Toggle
<1> QED BY <1>1, <1>2, <1>3, <1>4, <1>5, <1>6 DEF Cache!Next

EducatorInv ==
    /\ status \in [Applications -> {None, "pending", "approved", "rejected"}]
    /\ verified \in BOOLEAN
    /\ \A a, b \in Applications : status[a] = "pending" /\ status[b] = "pending" => a = b
    /\ \A a \in Applications : status[a] = "approved" => verified
    /\ verified => approvals # {}

LEMMA EducatorNext == EducatorInv /\ (Educator!Next \/ UNCHANGED educatorVars) => EducatorInv'
<1>1. EducatorInv /\ UNCHANGED educatorVars => EducatorInv' BY DEF EducatorInv, educatorVars
<1>2. ASSUME EducatorInv, NEW c \in Reviewing,
             Educator!FindApplication(c) \/ Educator!LoadForReview(c) \/ Educator!Fail(c)
      PROVE  EducatorInv'
  BY <1>2 DEF EducatorInv, Educator!FindApplication, Educator!LoadForReview, Educator!Fail
<1>3. ASSUME EducatorInv, NEW c \in Reviewing, Educator!Resubmit(c) \/ Educator!Create(c)
      PROVE  EducatorInv'
  <2>1. PICK a : \/ status' = status
                 \/ Educator!Free(a, "pending") /\ status' = [status EXCEPT ![a] = "pending"]
    BY <1>3 DEF Educator!Resubmit, Educator!Create
  <2>2. verified' = verified /\ approvals' = approvals
    BY <1>3 DEF Educator!Resubmit, Educator!Create
  <2> QED BY <1>3, <2>1, <2>2 DEF EducatorInv, Educator!Free
<1>4. ASSUME EducatorInv, NEW c \in Reviewing, Educator!Review(c)
      PROVE  EducatorInv'
  BY <1>4 DEF EducatorInv, Educator!Review
<1> QED BY <1>1, <1>2, <1>3, <1>4 DEF Educator!Next

LEMMA EducatorGives == EducatorInv => Educator!EducatorSound
<1> SUFFICES ASSUME EducatorInv PROVE Educator!EducatorSound OBVIOUS
<1> DEFINE waiting == {a \in Applications : status[a] = "pending"}
<1>1. Cardinality(waiting) <= 1
  <2>1. CASE waiting = {} BY <2>1, FS_EmptySet
  <2>2. CASE waiting # {}
    <3>1. PICK a \in waiting : TRUE BY <2>2
    <3>2. waiting = {a} BY <3>1 DEF EducatorInv
    <3> QED BY <3>2, FS_Singleton
  <2> QED BY <2>1, <2>2
<1>2. (\E a \in Applications : status[a] = "approved") => verified BY DEF EducatorInv
<1>3. verified => approvals # {} BY DEF EducatorInv
<1>4. Educator!Cardinality(waiting) = Cardinality(waiting)
  BY DEF Educator!Cardinality, Cardinality
<1> QED BY <1>1, <1>2, <1>3, <1>4, Zenon DEF Educator!EducatorSound

\* The tier of a block and the offenses behind it come from failures that were counted, an
\* answer older than its row was raced or outlived a time without Redis, and an educator's
\* mark comes from an approval: for any number of calls, readers, writers and reviewers.
THEOREM CausesKept == AccountsSpec => []StateIsEarned
<1>1. AccountsInit => IpInv /\ CacheInv /\ EducatorInv
  <2>1. Cache!Init => CacheInv BY DEF Cache!Init, CacheInv, Cache!FreshUnlessRaced
  <2>2. Educator!Init => EducatorInv BY ReviewsAssumption DEF Educator!Init, EducatorInv
  <2> QED BY <2>1, <2>2, IpInit DEF AccountsInit
<1>2. ASSUME IpInv /\ CacheInv /\ EducatorInv,
             [AccountsNext]_<<vars, ipVars, cacheVars, educatorVars, refundVars, roomVars, part>>
      PROVE  (IpInv /\ CacheInv /\ EducatorInv)'
  <2>1. /\ Ip!Next \/ UNCHANGED ipVars
        /\ Cache!Next \/ UNCHANGED cacheVars
        /\ Educator!Next \/ UNCHANGED educatorVars
    BY <1>2 DEF AccountsNext
  <2> QED BY <1>2, <2>1, IpNext, CacheNext, EducatorNext
<1>3. IpInv /\ CacheInv /\ EducatorInv => StateIsEarned
  BY IpGives, EducatorGives DEF CacheInv, StateIsEarned
<1> QED BY <1>1, <1>2, <1>3, PTL DEF AccountsSpec

-----------------------------------------------------------------------------
(***************************************************************************)
(* The documents of Rooms, for any number of requests and people.          *)
(***************************************************************************)
RoomTopics == {"space", "recording", "reel", "upload", "quiz", "preferences", "profile",
               "bundle", "signin", "sockets"}

\* Every slot holds a request, of the topic the behaviour follows.
Slot == {"op", "at", "copy", "body"}
Slots == DOMAIN asking = Requests /\ \A q \in Requests : DOMAIN asking[q] = Slot

\* The topic a request between two of its steps belongs to.
BelongsTo(a) ==
    CASE a.op = "update" /\ a.at = "write" -> "space"
      [] a.op \in {"finalise", "delete"} -> "recording"
      [] a.op = "comment" -> "reel"
      [] a.op = "attempt" -> "quiz"
      [] a.op \in {"get", "set"} -> "preferences"
      [] a.op = "profile" -> "profile"
      [] a.op = "create" /\ a.at \in {"upload", "validate"} -> "upload"
      [] a.op = "create" /\ a.at = "create" -> "bundle"
      [] a.op = "update" /\ a.at = "save" -> "bundle"
      [] a.op = "verify" -> "signin"
      [] a.op = "subscribe" -> "sockets"
      [] OTHER -> "none"

AllBelong(t) == \A q \in Requests : asking[q] = Rooms!Idle \/ BelongsTo(asking[q]) = t

\* One request moves, and no other.
Moves(q) ==
    /\ about' = about /\ Slots' /\ asks' \in {asks, asks + 1}
    /\ \A p \in Requests \ {q} : asking'[p] = asking[p]

LEMMA AskMoves ==
  ASSUME Slots, NEW q \in Requests, NEW s, NEW op, NEW at, NEW copy, NEW body,
         Rooms!Ask(q, s, op, at, copy, body)
  PROVE  /\ Moves(q) /\ about = s /\ asks' = asks + 1 /\ asking[q] = Rooms!Idle
         /\ asking'[q] = [op |-> op, at |-> at, copy |-> copy, body |-> body]
BY DEF Rooms!Ask, Moves, Slots, Slot

LEMMA GoesMoves ==
  ASSUME Slots, NEW q \in Requests, NEW at, Rooms!Goes(q, at)
  PROVE  /\ Moves(q) /\ asks' = asks /\ asking'[q].op = asking[q].op /\ asking'[q].at = at
         /\ asking'[q].copy = asking[q].copy /\ asking'[q].body = asking[q].body
BY DEF Rooms!Goes, Moves, Slots, Slot

LEMMA AnswersMoves ==
  ASSUME Slots, NEW q \in Requests, Rooms!Answers(q)
  PROVE  Moves(q) /\ asks' = asks /\ asking'[q] = Rooms!Idle
BY DEF Rooms!Answers, Moves, Slots, Slot, Rooms!Idle

LEMMA SingleMoves ==
  ASSUME Slots, NEW s, Rooms!Single(s)
  PROVE  about' = about /\ about = s /\ asks' = asks + 1 /\ asking' = asking /\ Slots'
BY DEF Rooms!Single, Slots

-----------------------------------------------------------------------------
(* The space *)

SpaceDoc == [exists : BOOLEAN, status : Rooms!Statuses,
             members : [Readers -> 0..1], waiting : [Readers -> 0..1]]
SpaceHistory == [members : SUBSET Readers, waiting : SUBSET Readers, overwrote : BOOLEAN]

On(counts) == {m \in Readers : counts[m] > 0}

\* The update carries a status, or the list that was loaded with one person put on it or off.
SpaceRequest(a) ==
    /\ a.copy \in SpaceDoc
    /\ \/ a.body \in [status : Rooms!Statuses]
       \/ \E l \in Rooms!Lists, m \in Readers :
            a.body = [list |-> l, who |-> m,
                      now |-> [a.copy[l] EXCEPT ![m] = IF @ = 0 THEN 1 ELSE 0]]

SpaceInv ==
    /\ held \in SpaceDoc /\ told \in SpaceHistory
    /\ \A q \in Requests : asking[q] # Rooms!Idle => SpaceRequest(asking[q])
    /\ ~told.overwrote => \A l \in Rooms!Lists : told[l] = On(held[l])

LEMMA SpaceAsks ==
  ASSUME Slots, SpaceInv, about = "space", AllBelong("space"), NEW q \in Requests, Rooms!LoadUpdate(q)
  PROVE  Slots' /\ SpaceInv' /\ AllBelong("space")' /\ about' = about
<1>1. held' = held /\ told' = told BY DEF Rooms!LoadUpdate
<1>2. PICK body : /\ Rooms!Ask(q, "space", "update", "write", held, body)
                  /\ \/ \E s \in Rooms!Statuses : body = [status |-> s]
                     \/ \E l \in Rooms!Lists, m \in Readers :
                          body = [list |-> l, who |-> m,
                                  now |-> [held[l] EXCEPT ![m] = IF @ = 0 THEN 1 ELSE 0]]
  <2>1. CASE \E s \in Rooms!Statuses :
                Rooms!Ask(q, "space", "update", "write", held, [status |-> s])
    BY <2>1
  <2>2. CASE \E l \in Rooms!Lists, m \in Readers :
               Rooms!Ask(q, "space", "update", "write", held,
                   [list |-> l, who |-> m,
                    now |-> [held[l] EXCEPT ![m] = IF @ = 0 THEN 1 ELSE 0]])
    BY <2>2
  <2> QED BY <2>1, <2>2 DEF Rooms!LoadUpdate
<1>3. /\ Moves(q) /\ asking'[q] = [op |-> "update", at |-> "write", copy |-> held, body |-> body]
  BY <1>2, AskMoves
<1>4. SpaceRequest(asking'[q]) BY <1>2, <1>3 DEF SpaceRequest, SpaceInv
<1>5. BelongsTo(asking'[q]) = "space" BY <1>3 DEF BelongsTo
<1> QED BY <1>1, <1>3, <1>4, <1>5 DEF Moves, SpaceInv, AllBelong

LEMMA SpaceWrites ==
  ASSUME SpaceInv, NEW l \in Rooms!Lists, NEW m \in Readers, Rooms!AddTo(l, m) \/ Rooms!RemoveFrom(l, m)
  PROVE  /\ held' \in SpaceDoc /\ told' \in SpaceHistory
         /\ ~told'.overwrote => \A k \in Rooms!Lists : told'[k] = On(held'[k])
<1>1. CASE Rooms!AddTo(l, m)
  BY <1>1 DEF SpaceInv, Rooms!AddTo, SpaceDoc, SpaceHistory, On, Rooms!Lists
<1>2. CASE Rooms!RemoveFrom(l, m)
  BY <1>2 DEF SpaceInv, Rooms!RemoveFrom, SpaceDoc, SpaceHistory, On, Rooms!Lists
<1> QED BY <1>1, <1>2

LEMMA SpaceUpdates ==
  ASSUME SpaceInv, Slots, NEW q \in Requests, Rooms!UpdateSpace(q)
  PROVE  /\ held' \in SpaceDoc /\ told' \in SpaceHistory
         /\ ~told'.overwrote => \A k \in Rooms!Lists : told'[k] = On(held'[k])
<1> DEFINE b == asking[q].body
           c == asking[q].copy
<1>1. SpaceRequest(asking[q])
  <2>1. Rooms!At(q, "update", "write") BY DEF Rooms!UpdateSpace
  <2>2. asking[q] # Rooms!Idle BY <2>1 DEF Rooms!At, Rooms!Idle
  <2> QED BY <2>2 DEF SpaceInv
<1>2. CASE ~held.exists BY <1>2 DEF SpaceInv, Rooms!UpdateSpace
<1>3. CASE held.exists /\ b \in [status : Rooms!Statuses]
  <2>1. held' = [held EXCEPT !.status = b.status] /\ told' = told /\ b.status \in Rooms!Statuses
    BY <1>3 DEF Rooms!UpdateSpace
  <2> QED BY <2>1 DEF SpaceInv, SpaceDoc, Rooms!Lists
<1>4. ASSUME held.exists, NEW l \in Rooms!Lists, NEW m \in Readers,
             b = [list |-> l, who |-> m, now |-> [c[l] EXCEPT ![m] = IF @ = 0 THEN 1 ELSE 0]]
      PROVE  /\ held' \in SpaceDoc /\ told' \in SpaceHistory
             /\ ~told'.overwrote => \A k \in Rooms!Lists : told'[k] = On(held'[k])
  <2> DEFINE was == c[l]
             now == [was EXCEPT ![m] = IF @ = 0 THEN 1 ELSE 0]
             list == IF now[m] > 0 THEN told[l] \cup {m} ELSE told[l] \ {m}
  <2>1. was \in [Readers -> 0..1] BY <1>1 DEF SpaceRequest, SpaceDoc, Rooms!Lists
  <2>2. now \in [Readers -> 0..1] /\ now[m] = (IF was[m] = 0 THEN 1 ELSE 0)
        /\ \A x \in Readers \ {m} : now[x] = was[x]
    BY <2>1
  <2>3. b.list = l /\ b.who = m /\ b.now = now /\ "status" \notin DOMAIN b BY <1>4
  <2> HIDE DEF now
  <2>4. /\ held' = [held EXCEPT ![l] = now]
        /\ told' = [told EXCEPT ![l] = list, !.overwrote = @ \/ was # held[l]]
    BY <1>4, <2>3 DEF Rooms!UpdateSpace
  <2> HIDE DEF b, was
  <2>5. held' \in SpaceDoc /\ held'[l] = now /\ \A k \in Rooms!Lists \ {l} : held'[k] = held[k]
    BY <2>2, <2>4 DEF SpaceInv, SpaceDoc, Rooms!Lists
  <2>6. /\ told' \in SpaceHistory /\ told'[l] = list
        /\ \A k \in Rooms!Lists \ {l} : told'[k] = told[k]
    BY <2>4 DEF SpaceInv, SpaceHistory, Rooms!Lists
  <2>7. ~told'.overwrote => ~told.overwrote /\ was = held[l]
    BY <2>4 DEF SpaceInv, SpaceHistory, Rooms!Lists
  <2>8. ASSUME ~told'.overwrote PROVE told'[l] = On(now)
    <3>1. told[l] = On(was) BY <2>7, <2>8 DEF SpaceInv
    <3> QED BY <2>2, <2>6, <3>1 DEF On
  <2> QED BY <2>5, <2>6, <2>7, <2>8 DEF SpaceInv
<1> QED BY <1>1, <1>2, <1>3, <1>4 DEF SpaceRequest

LEMMA SpaceNext ==
  ASSUME Slots, SpaceInv, about = "space", AllBelong("space"), Rooms!SpaceNext
  PROVE  Slots' /\ SpaceInv' /\ AllBelong("space")' /\ about' = about
<1>1. ASSUME NEW l \in Rooms!Lists, NEW m \in Readers, Rooms!AddTo(l, m) \/ Rooms!RemoveFrom(l, m)
      PROVE  Slots' /\ SpaceInv' /\ AllBelong("space")' /\ about' = about
  <2>1. Rooms!Single("space") BY <1>1 DEF Rooms!AddTo, Rooms!RemoveFrom
  <2> QED BY <1>1, <2>1, SpaceWrites, SingleMoves DEF SpaceInv, AllBelong
<1>2. ASSUME NEW q \in Requests, Rooms!UpdateSpace(q)
      PROVE  Slots' /\ SpaceInv' /\ AllBelong("space")' /\ about' = about
  <2>1. Rooms!Answers(q) BY <1>2 DEF Rooms!UpdateSpace
  <2> QED BY <1>2, <2>1, SpaceUpdates, AnswersMoves DEF SpaceInv, AllBelong, Moves
<1>3. ASSUME Rooms!DeleteSpace
      PROVE  Slots' /\ SpaceInv' /\ AllBelong("space")' /\ about' = about
  <2>1. Rooms!Single("space") /\ told' = told /\ held' = [held EXCEPT !.exists = FALSE]
    BY <1>3 DEF Rooms!DeleteSpace
  <2>2. held' \in SpaceDoc /\ \A l \in Rooms!Lists : held'[l] = held[l]
    BY <2>1 DEF SpaceInv, SpaceDoc, Rooms!Lists
  <2> QED BY <2>1, <2>2, SingleMoves DEF SpaceInv, AllBelong
<1> QED BY <1>1, <1>2, <1>3, SpaceAsks DEF Rooms!SpaceNext

\* Of lists without repetitions the size is a count.
LEMMA CountIsSize ==
  ASSUME NEW f \in [Readers -> 0..1], IsFiniteSet(Readers)
  PROVE  SumOn(f, Readers) = Cardinality(On(f))
<1> DEFINE z == [m \in Readers |-> 0]
<1>1. /\ \A m \in Readers : z[m] \in Int /\ z[m] = 0 /\ f[m] = IF m \in On(f) THEN z[m] + 1 ELSE z[m]
      /\ On(f) \in SUBSET Readers
  BY DEF On
<1> HIDE DEF z
<1>2. SumOn(z, Readers) = 0 BY <1>1, SumZero
<1>3. SumOn(f, Readers) = SumOn(z, Readers) + Cardinality(On(f)) BY <1>1, SumMarks
<1>4. Cardinality(On(f)) \in Nat BY <1>1, FS_Subset, FS_CardinalityType
<1> QED BY <1>2, <1>3, <1>4

LEMMA RoomSums == \A f, T : Rooms!SumFunctionOnSet(f, T) = SumOn(f, T)
BY DEF Rooms!SumFunctionOnSet, Rooms!FoldFunctionOnSet, Rooms!MapThenFoldSet,
       SumOn, SumFunctionOnSet, FoldFunctionOnSet, MapThenFoldSet

LEMMA SpaceGives == SpaceInv => Rooms!ListsKept
<1> SUFFICES ASSUME SpaceInv PROVE Rooms!ListsKept OBVIOUS
<1>1. \A l \in Rooms!Lists : held[l] \in [Readers -> 0..1] BY DEF SpaceInv, SpaceDoc, Rooms!Lists
<1>2. \A l \in Rooms!Lists : Rooms!OnList(l) = IF held.exists THEN On(held[l]) ELSE {}
  BY DEF Rooms!OnList, On
<1>3. ASSUME NEW l \in Rooms!Lists PROVE Rooms!CountOf(l) = Rooms!Cardinality(Rooms!OnList(l))
  <2>1. Rooms!CountOf(l) = IF held.exists THEN SumOn(held[l], Readers) ELSE 0
    BY RoomSums DEF Rooms!CountOf
  <2>2. Rooms!Cardinality(Rooms!OnList(l)) = Cardinality(Rooms!OnList(l))
    BY DEF Rooms!Cardinality, Cardinality
  <2> QED BY <1>1, <1>2, <2>1, <2>2, CountIsSize, FS_EmptySet, RoomsAssumption
<1> QED BY <1>2, <1>3 DEF Rooms!ListsKept, Rooms!IsOn, SpaceInv, On

-----------------------------------------------------------------------------
(* The recording *)

RecordingDoc == [exists : BOOLEAN, ready : BOOLEAN, asset : 0..2]

RecordingRequest(a) ==
    /\ a.copy \in RecordingDoc
    /\ \/ a.op = "finalise" /\ a.at = "save" /\ a.body \in [asset : 0..2]
       \/ a.op = "delete" /\ a.at \in {"destroy", "delete"}

\* A deletion whose asset may be gone is about to delete the document.
Deleting(q) == asking[q].op = "delete" /\ asking[q].at = "delete"

RecordingInv ==
    /\ held \in [doc : RecordingDoc, assets : SUBSET (1..2)]
    /\ told \in [begun : BOOLEAN, stopped : BOOLEAN, deleted : BOOLEAN]
    /\ \A q \in Requests : asking[q] # Rooms!Idle => RecordingRequest(asking[q]) /\ told.begun
    /\ told.deleted \/ held.doc.exists => told.begun
    /\ told.deleted => ~held.doc.exists
    /\ held.assets # 1..2 => told.stopped \/ told.deleted \/ \E q \in Requests : Deleting(q)

\* What the actions below show of the next state.
RecordingStep == Slots' /\ RecordingInv' /\ AllBelong("recording")' /\ about' = about

LEMMA RecordingStarts ==
  ASSUME Slots, RecordingInv, AllBelong("recording"), NEW asset \in 0..1, Rooms!StartRecording(asset)
  PROVE  RecordingStep
<1> DEFINE doc == [exists |-> TRUE, ready |-> FALSE, asset |-> asset]
<1>1. /\ Rooms!Single("recording") /\ ~told.begun
      /\ held' = [held EXCEPT !.doc = doc] /\ told' = [told EXCEPT !.begun = TRUE]
  BY DEF Rooms!StartRecording
<1>2. doc \in RecordingDoc BY DEF RecordingDoc
<1> HIDE DEF doc
<1>3. held' \in [doc : RecordingDoc, assets : SUBSET (1..2)] /\ held'.assets = held.assets
  BY <1>1, <1>2 DEF RecordingInv
<1>4. told' \in [begun : BOOLEAN, stopped : BOOLEAN, deleted : BOOLEAN] /\ told'.begun
      /\ ~told'.deleted /\ ~told.deleted /\ told'.stopped = told.stopped
  BY <1>1 DEF RecordingInv
<1>5. asking' = asking /\ about' = about /\ Slots' BY <1>1, SingleMoves
<1> QED BY <1>3, <1>4, <1>5 DEF RecordingStep, RecordingInv, AllBelong, Deleting

LEMMA RecordingLoads ==
  ASSUME Slots, RecordingInv, AllBelong("recording"), NEW q \in Requests,
         Rooms!LoadToDelete(q) \/ \E asset \in {0, 2} : Rooms!LoadToFinalise(q, asset)
  PROVE  RecordingStep
<1>1. /\ held' = held /\ told' = told /\ held.doc.exists /\ held.doc \in RecordingDoc
  BY DEF Rooms!LoadToDelete, Rooms!LoadToFinalise, RecordingInv
<1>2. PICK op, at, body : /\ Rooms!Ask(q, "recording", op, at, held.doc, body)
                          /\ \/ op = "finalise" /\ at = "save" /\ body \in [asset : 0..2]
                             \/ op = "delete" /\ at \in {"destroy", "delete"}
  <2>1. CASE Rooms!LoadToDelete(q) BY <2>1 DEF Rooms!LoadToDelete
  <2>2. ASSUME NEW asset \in {0, 2}, Rooms!LoadToFinalise(q, asset)
        PROVE  Rooms!Ask(q, "recording", "finalise", "save", held.doc, [asset |-> asset])
               /\ [asset |-> asset] \in [asset : 0..2]
    BY <2>2 DEF Rooms!LoadToFinalise
  <2> QED BY <2>1, <2>2
<1>3. /\ Moves(q) /\ asking[q] = Rooms!Idle
      /\ asking'[q] = [op |-> op, at |-> at, copy |-> held.doc, body |-> body]
  BY <1>2, AskMoves
<1>4. RecordingRequest(asking'[q]) /\ BelongsTo(asking'[q]) = "recording"
  BY <1>1, <1>2, <1>3 DEF RecordingRequest, BelongsTo
<1>5. \A p \in Requests : Deleting(p) => Deleting(p)' BY <1>3 DEF Moves, Deleting, Rooms!Idle
<1> QED BY <1>1, <1>3, <1>4, <1>5 DEF RecordingStep, RecordingInv, AllBelong, Moves

LEMMA RecordingFinal ==
  ASSUME Slots, RecordingInv, AllBelong("recording"), NEW q \in Requests, Rooms!FinaliseRecording(q)
  PROVE  RecordingStep
<1> DEFINE asset == asking[q].body.asset
<1>1. Rooms!At(q, "finalise", "save") /\ Rooms!Answers(q) /\ told' = told
  BY DEF Rooms!FinaliseRecording
<1>2. asking[q] # Rooms!Idle BY <1>1 DEF Rooms!At, Rooms!Idle
<1>3. asset \in 0..2 BY <1>1, <1>2 DEF RecordingInv, RecordingRequest, Rooms!At
<1>4. PICK kept \in 0..2 :
        held' = IF ~held.doc.exists THEN held
                ELSE [held EXCEPT !.doc.ready = TRUE, !.doc.asset = kept]
  <2>1. CASE asset \in {0, asking[q].copy.asset}
    BY <2>1 DEF Rooms!FinaliseRecording, RecordingInv, RecordingDoc
  <2>2. CASE asset \notin {0, asking[q].copy.asset}
    BY <1>3, <2>2 DEF Rooms!FinaliseRecording
  <2> QED BY <2>1, <2>2
<1>5. /\ held' \in [doc : RecordingDoc, assets : SUBSET (1..2)] /\ held'.assets = held.assets
      /\ held'.doc.exists = held.doc.exists
  BY <1>4 DEF RecordingInv, RecordingDoc
<1>6. Moves(q) /\ asking'[q] = Rooms!Idle BY <1>1, AnswersMoves
<1>7. \A p \in Requests : Deleting(p) => Deleting(p)' BY <1>1, <1>6 DEF Moves, Deleting, Rooms!At
<1> QED BY <1>1, <1>2, <1>5, <1>6, <1>7 DEF RecordingStep, RecordingInv, AllBelong, Moves

LEMMA RecordingDeletes ==
  ASSUME Slots, RecordingInv, AllBelong("recording"), NEW q \in Requests,
         \/ Rooms!DeleteRecording(q) \/ Rooms!DeleteStops(q)
         \/ \E works \in BOOLEAN : Rooms!DestroyAsset(q, works)
  PROVE  RecordingStep
<1>1. CASE Rooms!DeleteRecording(q)
  <2>1. /\ Rooms!At(q, "delete", "delete") /\ Rooms!Answers(q)
        /\ held' = [held EXCEPT !.doc = Rooms!NoRecording]
        /\ told' = [told EXCEPT !.deleted = TRUE]
    BY <1>1 DEF Rooms!DeleteRecording
  <2>2. asking[q] # Rooms!Idle BY <2>1 DEF Rooms!At, Rooms!Idle
  <2>3. held' \in [doc : RecordingDoc, assets : SUBSET (1..2)] /\ ~held'.doc.exists
    <3>1. Rooms!NoRecording \in RecordingDoc /\ ~Rooms!NoRecording.exists
      BY DEF RecordingDoc, Rooms!NoRecording
    <3> QED BY <2>1, <3>1 DEF RecordingInv
  <2>5. /\ told' \in [begun : BOOLEAN, stopped : BOOLEAN, deleted : BOOLEAN]
        /\ told'.deleted /\ told'.begun = told.begun
    BY <2>1 DEF RecordingInv
  <2>4. Moves(q) /\ asking'[q] = Rooms!Idle BY <2>1, AnswersMoves
  <2> QED BY <2>2, <2>3, <2>4, <2>5 DEF RecordingStep, RecordingInv, AllBelong, Moves
<1>2. CASE Rooms!DeleteStops(q)
  <2>1. /\ Rooms!At(q, "delete", "delete") /\ Rooms!Answers(q)
        /\ held' = held /\ told' = [told EXCEPT !.stopped = TRUE]
    BY <1>2 DEF Rooms!DeleteStops
  <2>2. asking[q] # Rooms!Idle BY <2>1 DEF Rooms!At, Rooms!Idle
  <2>3. /\ told' \in [begun : BOOLEAN, stopped : BOOLEAN, deleted : BOOLEAN]
        /\ told'.stopped /\ told'.begun = told.begun /\ told'.deleted = told.deleted
    BY <2>1 DEF RecordingInv
  <2>4. Moves(q) /\ asking'[q] = Rooms!Idle BY <2>1, AnswersMoves
  <2> QED BY <2>1, <2>2, <2>3, <2>4 DEF RecordingStep, RecordingInv, AllBelong, Moves
<1>3. ASSUME NEW works \in BOOLEAN, Rooms!DestroyAsset(q, works) PROVE RecordingStep
  <2>1. Rooms!At(q, "delete", "destroy") /\ Rooms!Goes(q, "delete") /\ told' = told
        /\ held' = IF works THEN [held EXCEPT !.assets = @ \ {asking[q].copy.asset}] ELSE held
    BY <1>3 DEF Rooms!DestroyAsset
  <2>2. asking[q] # Rooms!Idle BY <2>1 DEF Rooms!At, Rooms!Idle
  <2>3. held' \in [doc : RecordingDoc, assets : SUBSET (1..2)] /\ held'.doc = held.doc
    BY <2>1 DEF RecordingInv
  <2>4. /\ Moves(q) /\ asking'[q].op = "delete" /\ asking'[q].at = "delete"
        /\ asking'[q].copy = asking[q].copy
    BY <2>1, GoesMoves DEF Rooms!At
  <2>5. Deleting(q)' /\ BelongsTo(asking'[q]) = "recording" /\ RecordingRequest(asking'[q])
    BY <2>2, <2>4 DEF Deleting, BelongsTo, RecordingRequest, RecordingInv
  <2> QED BY <2>1, <2>2, <2>3, <2>4, <2>5 DEF RecordingStep, RecordingInv, AllBelong, Moves
<1> QED BY <1>1, <1>2, <1>3

LEMMA RecordingNext ==
  ASSUME Slots, RecordingInv, AllBelong("recording"), Rooms!RecordingNext
  PROVE  RecordingStep
BY RecordingStarts, RecordingLoads, RecordingFinal, RecordingDeletes DEF Rooms!RecordingNext

LEMMA RecordingGives == RecordingInv => Rooms!RecordingPlays
<1> SUFFICES ASSUME RecordingInv PROVE Rooms!RecordingPlays OBVIOUS
<1>1. Rooms!Resting => ~\E q \in Requests : Deleting(q) BY DEF Rooms!Resting, Deleting, Rooms!Idle
<1>2. held.doc.asset \in 0..2 BY DEF RecordingInv, RecordingDoc
<1> QED BY <1>1, <1>2 DEF RecordingInv, Rooms!RecordingPlays, Rooms!ListedRecording

-----------------------------------------------------------------------------
(* The reel and the profile: what is stored is what the requests did *)

LEMMA ReelNext ==
  ASSUME Slots, Rooms!ReelKept, AllBelong("reel"), Rooms!ReelNext
  PROVE  Slots' /\ Rooms!ReelKept' /\ AllBelong("reel")' /\ about' = about
<1>1. ASSUME Rooms!Single("reel"), Rooms!ReelKept'
      PROVE  Slots' /\ Rooms!ReelKept' /\ AllBelong("reel")' /\ about' = about
  BY <1>1, SingleMoves DEF AllBelong
<1>2. ASSUME NEW counter, NEW amount, Rooms!Increment(counter, amount)
      PROVE  Rooms!Single("reel") /\ Rooms!ReelKept'
  BY <1>2 DEF Rooms!Increment, Rooms!ReelKept
<1>3. ASSUME NEW c, Rooms!RemoveComment(c) PROVE Rooms!Single("reel") /\ Rooms!ReelKept'
  BY <1>3 DEF Rooms!RemoveComment, Rooms!ReelKept
<1>4. ASSUME NEW m, Rooms!AddComment(m) PROVE Rooms!Single("reel") /\ Rooms!ReelKept'
  BY <1>4 DEF Rooms!AddComment, Rooms!ReelKept
<1>5. ASSUME NEW c, NEW m, Rooms!DeleteReelComment(c, m)
      PROVE  Rooms!Single("reel") /\ Rooms!ReelKept'
  BY <1>5 DEF Rooms!DeleteReelComment, Rooms!ReelKept
<1>6. ASSUME NEW q \in Requests, Rooms!AddReelComment(q)
      PROVE  Slots' /\ Rooms!ReelKept' /\ AllBelong("reel")' /\ about' = about
  <2>1. Rooms!Answers(q) /\ Rooms!ReelKept' BY <1>6 DEF Rooms!AddReelComment, Rooms!ReelKept
  <2> QED BY <2>1, AnswersMoves DEF Moves, AllBelong
<1>7. ASSUME NEW q \in Requests, NEW m \in Readers, Rooms!LoadReel(q, m)
      PROVE  Slots' /\ Rooms!ReelKept' /\ AllBelong("reel")' /\ about' = about
  <2>1. /\ Rooms!Ask(q, "reel", "comment", "save", held.comments, [n |-> asks, by |-> m])
        /\ Rooms!ReelKept'
    BY <1>7 DEF Rooms!LoadReel, Rooms!ReelKept
  <2>2. /\ Moves(q)
        /\ asking'[q] = [op |-> "comment", at |-> "save", copy |-> held.comments,
                         body |-> [n |-> asks, by |-> m]]
    BY <2>1, AskMoves
  <2>3. BelongsTo(asking'[q]) = "reel" BY <2>2 DEF BelongsTo
  <2> QED BY <2>1, <2>2, <2>3 DEF Moves, AllBelong
<1> QED BY <1>1, <1>2, <1>3, <1>4, <1>5, <1>6, <1>7 DEF Rooms!ReelNext, Rooms!Register

ProfileInv == Rooms!ProfileKept /\ held \in [Rooms!Fields -> BOOLEAN]

LEMMA ProfileNext ==
  ASSUME Slots, ProfileInv, AllBelong("profile"), Rooms!ProfileNext
  PROVE  Slots' /\ ProfileInv' /\ AllBelong("profile")' /\ about' = about
<1>1. ASSUME NEW q \in Requests, Rooms!BeginProfile(q)
      PROVE  Slots' /\ ProfileInv' /\ AllBelong("profile")' /\ about' = about
  <2>1. PICK at, body : Rooms!Ask(q, "profile", "profile", at, None, body)
    BY <1>1 DEF Rooms!BeginProfile
  <2>2. Moves(q) /\ asking'[q] = [op |-> "profile", at |-> at, copy |-> None, body |-> body]
    BY <2>1, AskMoves
  <2>3. BelongsTo(asking'[q]) = "profile" BY <2>2 DEF BelongsTo
  <2>4. held' = held /\ told' = told BY <1>1 DEF Rooms!BeginProfile
  <2> QED BY <2>2, <2>3, <2>4 DEF Moves, AllBelong, ProfileInv, Rooms!ProfileKept
<1>2. ASSUME NEW q \in Requests, Rooms!AvatarUploaded(q)
      PROVE  Slots' /\ ProfileInv' /\ AllBelong("profile")' /\ about' = about
  <2>1. Rooms!At(q, "profile", "upload") /\ Rooms!Goes(q, "write") /\ held' = held /\ told' = told
    BY <1>2 DEF Rooms!AvatarUploaded
  <2>2. Moves(q) /\ asking'[q].op = "profile" BY <2>1, GoesMoves DEF Rooms!At
  <2>3. BelongsTo(asking'[q]) = "profile" BY <2>2 DEF BelongsTo
  <2> QED BY <2>1, <2>2, <2>3 DEF Moves, AllBelong, ProfileInv, Rooms!ProfileKept
<1>3. ASSUME NEW q \in Requests, Rooms!ProfileFails(q)
      PROVE  Slots' /\ ProfileInv' /\ AllBelong("profile")' /\ about' = about
  <2>1. Rooms!Answers(q) /\ held' = held /\ told' = told BY <1>3 DEF Rooms!ProfileFails
  <2> QED BY <2>1, AnswersMoves DEF Moves, AllBelong, ProfileInv, Rooms!ProfileKept
<1>4. ASSUME NEW q \in Requests, Rooms!WriteProfile(q)
      PROVE  Slots' /\ ProfileInv' /\ AllBelong("profile")' /\ about' = about
  <2> DEFINE fill == asking[q].body.fill
             clear == asking[q].body.clear
  <2>1. /\ Rooms!Answers(q)
        /\ held' = [f \in Rooms!Fields |-> f \in fill \/ (held[f] /\ f \notin clear)]
        /\ told' = [f \in Rooms!Fields |-> IF f \in fill THEN TRUE
                                           ELSE IF f \in clear THEN FALSE ELSE told[f]]
    BY <1>4 DEF Rooms!WriteProfile, Rooms!Edited
  <2>2. told = held /\ \A f \in Rooms!Fields : held[f] \in BOOLEAN
    BY DEF ProfileInv, Rooms!ProfileKept
  <2> HIDE DEF fill, clear
  <2>3. \A f \in Rooms!Fields : (f \in fill \/ (held[f] /\ f \notin clear))
          = (IF f \in fill THEN TRUE ELSE IF f \in clear THEN FALSE ELSE held[f])
    BY <2>2, Zenon
  <2>4. held' = told' BY <2>1, <2>2, <2>3
  <2>5. held' \in [Rooms!Fields -> BOOLEAN] BY <2>1
  <2> QED BY <2>1, <2>4, <2>5, AnswersMoves DEF Moves, AllBelong, ProfileInv, Rooms!ProfileKept
<1> QED BY <1>1, <1>2, <1>3, <1>4 DEF Rooms!ProfileNext

-----------------------------------------------------------------------------
(* The preferences *)

Syncing(q) == asking[q].op = "set" /\ asking[q].at = "sync"

Chosen == [Rooms!Preferences -> Int]

\* Until two updates of the language overlap or a write to the profile fails, there is at
\* most one such write under way, of the language that was chosen last; else it was done.
LanguageFollows ==
    ~told.drifted =>
        /\ \A p, q \in Requests : Syncing(p) /\ Syncing(q) => p = q
        /\ \A q \in Requests : Syncing(q) => asking[q].body["language"] = told.last["language"]
        /\ (\A q \in Requests : ~Syncing(q)) /\ told.last["language"] # 0 =>
               held.language = told.last["language"]

PreferencesInv ==
    /\ DOMAIN held = {"stored", "language"} /\ held.stored \in Chosen \cup {None}
    /\ DOMAIN told = {"last", "drifted"} /\ told.last \in Chosen /\ told.drifted \in BOOLEAN
    /\ held.stored # None => held.stored = told.last
    /\ held.stored = None => told.last = Rooms!Defaults
    /\ LanguageFollows

PreferencesStep == Slots' /\ PreferencesInv' /\ AllBelong("preferences")' /\ about' = about

LEMMA DefaultsChosen == Rooms!Defaults \in Chosen /\ "language" \in Rooms!Preferences /\ None \notin Chosen
<1>1. "language" \in Rooms!Preferences BY DEF Rooms!Preferences, Rooms!Groups
<1> QED BY <1>1, RoomsAssumption DEF Rooms!Defaults, Chosen

LEMMA PreferencesRead ==
  ASSUME Slots, PreferencesInv, AllBelong("preferences"), NEW q \in Requests,
         Rooms!LoadPreferences(q) \/ Rooms!CreatePreferences(q)
  PROVE  PreferencesStep
<1>1. CASE Rooms!LoadPreferences(q)
  <2>1. Rooms!Ask(q, "preferences", "get", "create", None, None) /\ held' = held /\ told' = told
    BY <1>1 DEF Rooms!LoadPreferences
  <2>2. /\ Moves(q) /\ asking[q] = Rooms!Idle
        /\ asking'[q] = [op |-> "get", at |-> "create", copy |-> None, body |-> None]
    BY <2>1, AskMoves
  <2>3. BelongsTo(asking'[q]) = "preferences" /\ ~Syncing(q) /\ ~Syncing(q)'
    BY <2>2 DEF BelongsTo, Syncing, Rooms!Idle
  <2>4. \A p \in Requests : (Syncing(p)' <=> Syncing(p)) /\ (Syncing(p) => asking'[p] = asking[p])
    BY <2>2, <2>3 DEF Moves, Syncing
  <2>5. LanguageFollows' BY <2>1, <2>4 DEF LanguageFollows, PreferencesInv
  <2> QED BY <2>1, <2>2, <2>3, <2>5 DEF PreferencesStep, PreferencesInv, AllBelong, Moves
<1>2. CASE Rooms!CreatePreferences(q)
  <2>1. /\ Rooms!At(q, "get", "create") /\ Rooms!Answers(q) /\ told' = told
        /\ held' = IF held.stored = None THEN [held EXCEPT !.stored = Rooms!Defaults] ELSE held
    BY <1>2 DEF Rooms!CreatePreferences
  <2>2. Moves(q) /\ asking'[q] = Rooms!Idle BY <2>1, AnswersMoves
  <2>3. ~Syncing(q) /\ ~Syncing(q)' BY <2>1, <2>2 DEF Syncing, Rooms!Idle, Rooms!At
  <2>4. \A p \in Requests : (Syncing(p)' <=> Syncing(p)) /\ (Syncing(p) => asking'[p] = asking[p])
    BY <2>2, <2>3 DEF Moves, Syncing
  <2>5. /\ DOMAIN held' = {"stored", "language"} /\ held'.language = held.language
        /\ held'.stored = told.last
    BY <2>1 DEF PreferencesInv
  <2>6. LanguageFollows' BY <2>1, <2>4, <2>5 DEF LanguageFollows, PreferencesInv
  <2> QED BY <2>1, <2>2, <2>5, <2>6, DefaultsChosen DEF PreferencesStep, PreferencesInv, AllBelong, Moves
<1> QED BY <1>1, <1>2

LEMMA PreferencesSync ==
  ASSUME Slots, PreferencesInv, AllBelong("preferences"), NEW q \in Requests,
         NEW works \in BOOLEAN, Rooms!SyncLanguage(q, works)
  PROVE  PreferencesStep
<1> DEFINE language == asking[q].body["language"]
<1>1. /\ Rooms!At(q, "set", "sync") /\ Rooms!Answers(q)
      /\ held' = IF works THEN [held EXCEPT !.language = language] ELSE held
      /\ told' = [told EXCEPT !.drifted = @ \/ ~works]
  BY DEF Rooms!SyncLanguage
<1>2. Moves(q) /\ asking'[q] = Rooms!Idle BY <1>1, AnswersMoves
<1>3. Syncing(q) /\ ~Syncing(q)' BY <1>1, <1>2 DEF Syncing, Rooms!Idle, Rooms!At
<1>4. \A p \in Requests \ {q} : asking'[p] = asking[p] /\ (Syncing(p)' <=> Syncing(p))
  BY <1>2 DEF Moves, Syncing
<1>5. /\ DOMAIN held' = {"stored", "language"} /\ held'.stored = held.stored
      /\ works => held'.language = language
  BY <1>1 DEF PreferencesInv
<1>6. /\ DOMAIN told' = {"last", "drifted"} /\ told'.last = told.last /\ told'.drifted \in BOOLEAN
      /\ ~told'.drifted => ~told.drifted /\ works
  BY <1>1 DEF PreferencesInv
<1>7. LanguageFollows'
  <2> SUFFICES ASSUME ~told'.drifted
               PROVE  LanguageFollows'
    BY DEF LanguageFollows
  <2>1. /\ \A p, r \in Requests : Syncing(p) /\ Syncing(r) => p = r
        /\ language = told.last["language"]
    BY <1>3, <1>6 DEF LanguageFollows, PreferencesInv
  <2>2. \A p \in Requests : ~Syncing(p)' BY <1>3, <1>4, <2>1
  <2> QED BY <1>5, <1>6, <2>1, <2>2 DEF LanguageFollows
<1> QED BY <1>2, <1>5, <1>6, <1>7 DEF PreferencesStep, PreferencesInv, AllBelong, Moves

LEMMA PreferencesUpdate ==
  ASSUME Slots, PreferencesInv, AllBelong("preferences"), NEW q \in Requests,
         NEW body \in Rooms!Bodies, about = "preferences", Rooms!UpdatePreferences(q, body)
  PROVE  PreferencesStep
<1> DEFINE language == "language" \in DOMAIN body
           overlaps == \E p \in Requests : Syncing(p)
           new == [p \in Rooms!Preferences |-> IF p \in DOMAIN body THEN body[p] ELSE told.last[p]]
<1>1. /\ DOMAIN body \subseteq Rooms!Preferences /\ \A p \in DOMAIN body : body[p] \in Int
  BY DEF Rooms!Bodies
<1>2. Rooms!Current = told.last BY DEF PreferencesInv, Rooms!Current
<1>3. /\ held' = [held EXCEPT !.stored = new]
      /\ told' = [told EXCEPT !.last = new, !.drifted = @ \/ (language /\ overlaps)]
      /\ IF language THEN Rooms!Ask(q, "preferences", "set", "sync", None, body)
         ELSE Rooms!Single("preferences")
  BY <1>2 DEF Rooms!UpdatePreferences, Rooms!Merged, Rooms!At, Syncing
<1>4. new \in Chosen BY <1>1 DEF Chosen, PreferencesInv
<1>5. language => new["language"] = body["language"] BY DefaultsChosen
<1>6. ~language => new["language"] = told.last["language"] BY DefaultsChosen
<1> HIDE DEF new
<1>7. /\ DOMAIN held' = {"stored", "language"} /\ held'.stored = new
      /\ held'.language = held.language
  BY <1>3 DEF PreferencesInv
<1>8. /\ DOMAIN told' = {"last", "drifted"} /\ told'.last = new /\ told'.drifted \in BOOLEAN
      /\ ~told'.drifted => ~told.drifted /\ ~(language /\ overlaps)
  BY <1>3 DEF PreferencesInv
<1>9. CASE language
  <2>1. /\ Moves(q) /\ asking[q] = Rooms!Idle
        /\ asking'[q] = [op |-> "set", at |-> "sync", copy |-> None, body |-> body]
    BY <1>3, <1>9, AskMoves
  <2>2. BelongsTo(asking'[q]) = "preferences" /\ Syncing(q)' /\ asking'[q].body = body
    BY <2>1 DEF BelongsTo, Syncing
  <2>3. \A p \in Requests \ {q} : Syncing(p)' <=> Syncing(p) BY <2>1 DEF Moves, Syncing
  <2>4. LanguageFollows'
    <3> SUFFICES ASSUME ~told'.drifted PROVE LanguageFollows' BY DEF LanguageFollows
    <3>1. \A p \in Requests \ {q} : ~Syncing(p)' BY <1>8, <1>9, <2>3
    <3> QED BY <1>5, <1>8, <1>9, <2>2, <3>1 DEF LanguageFollows
  <2> QED BY <1>4, <1>7, <1>8, <2>1, <2>2, <2>4, DefaultsChosen
          DEF PreferencesStep, PreferencesInv, AllBelong, Moves
<1>10. CASE ~language
  <2>1. about' = about /\ asking' = asking /\ Slots' BY <1>3, <1>10, SingleMoves
  <2>2. LanguageFollows'
    BY <1>6, <1>7, <1>8, <1>10, <2>1 DEF LanguageFollows, PreferencesInv, Syncing
  <2> QED BY <1>4, <1>7, <1>8, <2>1, <2>2, DefaultsChosen
          DEF PreferencesStep, PreferencesInv, AllBelong
<1> QED BY <1>9, <1>10

LEMMA PreferencesNext ==
  ASSUME Slots, PreferencesInv, AllBelong("preferences"), about = "preferences", Rooms!PreferencesNext
  PROVE  PreferencesStep
BY PreferencesRead, PreferencesSync, PreferencesUpdate DEF Rooms!PreferencesNext

LEMMA PreferencesGives == PreferencesInv => Rooms!PreferencesKept
<1>1. Rooms!Resting => \A q \in Requests : ~Syncing(q) BY DEF Rooms!Resting, Syncing, Rooms!Idle
<1> QED BY <1>1 DEF PreferencesInv, LanguageFollows, Rooms!PreferencesKept

-----------------------------------------------------------------------------
(* The sockets *)

PaymentRooms == {Rooms!PaymentRoom(p) : p \in Rooms!Payments}

\* Whoever is connected is in her room, and otherwise in rooms of payments of hers.
Joined(u, rooms) ==
    IF u \in Readers
    THEN /\ Rooms!UserRoom(u) \in rooms
         /\ \A r \in rooms : \/ r = Rooms!UserRoom(u)
                             \/ \E p \in Rooms!Payments :
                                  r = Rooms!PaymentRoom(p) /\ u \in Rooms!PartiesOf(p)
    ELSE u \in {None, "gone"} /\ rooms = {}

SocketDoc ==
    /\ DOMAIN held = {"user", "rooms"}
    /\ DOMAIN held.user = Rooms!Sockets /\ DOMAIN held.rooms = Rooms!Sockets
    /\ \A s \in Rooms!Sockets : Joined(held.user[s], held.rooms[s])

SocketsInv ==
    /\ SocketDoc
    /\ \A q \in Requests : asking[q] # Rooms!Idle =>
           asking[q].body \in [socket : Rooms!Sockets, payment : Rooms!Payments]

SocketsStep == Slots' /\ SocketsInv' /\ AllBelong("sockets")' /\ about' = about

\* The other sockets stay where they are.
LEMMA Rest ==
  ASSUME SocketDoc, NEW s \in Rooms!Sockets, NEW u, NEW rooms, Joined(u, rooms),
         \/ held' = [held EXCEPT !.user[s] = u, !.rooms[s] = rooms]
         \/ held' = [held EXCEPT !.rooms[s] = rooms] /\ u = held.user[s]
         \/ held' = held /\ u = held.user[s] /\ rooms = held.rooms[s]
  PROVE  SocketDoc'
<1>1. /\ DOMAIN held' = {"user", "rooms"}
      /\ DOMAIN held'.user = Rooms!Sockets /\ DOMAIN held'.rooms = Rooms!Sockets
      /\ held'.user[s] = u /\ held'.rooms[s] = rooms
      /\ \A t \in Rooms!Sockets \ {s} : held'.user[t] = held.user[t] /\ held'.rooms[t] = held.rooms[t]
  BY DEF SocketDoc
<1> QED BY <1>1 DEF SocketDoc

LEMMA SocketsMove ==
  ASSUME Slots, SocketsInv, AllBelong("sockets"), about = "sockets", NEW s \in Rooms!Sockets,
         \/ Rooms!Disconnect(s) \/ \E m \in Readers : Rooms!Connect(s, m)
         \/ \E p \in Rooms!Payments : Rooms!Unsubscribe(s, p)
  PROVE  SocketsStep
<1>1. Joined(held.user[s], held.rooms[s]) BY DEF SocketsInv, SocketDoc
<1>2. SocketDoc'
  <2>1. CASE Rooms!Disconnect(s)
    <3>1. Joined("gone", {}) BY RoomsAssumption DEF Joined
    <3> QED BY <2>1, <3>1, Rest DEF Rooms!Disconnect, SocketsInv
  <2>2. ASSUME NEW m \in Readers, Rooms!Connect(s, m)
        PROVE  SocketDoc'
    <3>1. Joined(m, {Rooms!UserRoom(m)}) BY DEF Joined
    <3>2. held' = [held EXCEPT !.user[s] = m, !.rooms[s] = {Rooms!UserRoom(m)}]
      BY <2>2 DEF Rooms!Connect
    <3> QED BY <3>1, <3>2, Rest DEF SocketsInv
  <2>3. ASSUME NEW p \in Rooms!Payments, Rooms!Unsubscribe(s, p)
        PROVE  SocketDoc'
    <3> DEFINE u == held.user[s]
               rooms == held.rooms[s] \ {Rooms!PaymentRoom(p)}
    <3>1. Joined(u, rooms)
      BY <1>1, <2>3 DEF Joined, Rooms!Unsubscribe, Rooms!UserRoom, Rooms!PaymentRoom
    <3>2. held' = [held EXCEPT !.rooms[s] = rooms] BY <2>3 DEF Rooms!Unsubscribe
    <3> HIDE DEF rooms
    <3> QED BY <3>1, <3>2, Rest DEF SocketsInv
  <2> QED BY <2>1, <2>2, <2>3
<1>3. about' = about /\ asking' = asking /\ Slots'
  BY SingleMoves DEF Rooms!Disconnect, Rooms!Connect, Rooms!Unsubscribe, Slots
<1> QED BY <1>2, <1>3, Rest DEF SocketsStep, SocketsInv, AllBelong

LEMMA SocketsAsk ==
  ASSUME Slots, SocketsInv, AllBelong("sockets"), NEW s \in Rooms!Sockets, NEW q \in Requests,
         NEW p \in Rooms!Payments, Rooms!LoadPayment(s, q, p)
  PROVE  SocketsStep
<1>1. /\ Rooms!Ask(q, "sockets", "subscribe", "join", None, [socket |-> s, payment |-> p])
      /\ held' = held
  BY DEF Rooms!LoadPayment
<1>2. /\ Moves(q)
      /\ asking'[q] = [op |-> "subscribe", at |-> "join", copy |-> None,
                       body |-> [socket |-> s, payment |-> p]]
  BY <1>1, AskMoves
<1>3. /\ BelongsTo(asking'[q]) = "sockets"
      /\ asking'[q].body \in [socket : Rooms!Sockets, payment : Rooms!Payments]
  BY <1>2 DEF BelongsTo
<1>4. SocketDoc' BY <1>1 DEF SocketsInv, SocketDoc
<1> QED BY <1>2, <1>3, <1>4 DEF SocketsStep, SocketsInv, AllBelong, Moves

LEMMA SocketsJoin ==
  ASSUME Slots, SocketsInv, AllBelong("sockets"), NEW q \in Requests, Rooms!JoinPayment(q)
  PROVE  SocketsStep
<1> DEFINE s == asking[q].body.socket
           p == asking[q].body.payment
           u == held.user[s]
           rooms == IF u \in Readers /\ u \in Rooms!PartiesOf(p)
                    THEN held.rooms[s] \cup {Rooms!PaymentRoom(p)} ELSE held.rooms[s]
<1>1. Rooms!At(q, "subscribe", "join") /\ Rooms!Answers(q) BY DEF Rooms!JoinPayment
<1>2. asking[q] # Rooms!Idle BY <1>1 DEF Rooms!At, Rooms!Idle
<1>3. s \in Rooms!Sockets /\ p \in Rooms!Payments BY <1>2 DEF SocketsInv
<1>4. Joined(u, rooms) BY <1>3 DEF SocketsInv, SocketDoc, Joined
<1>5. u \in Readers /\ u \in Rooms!PartiesOf(p) => held' = [held EXCEPT !.rooms[s] = rooms]
  <2> HAVE u \in Readers /\ u \in Rooms!PartiesOf(p)
  <2>1. held' = [held EXCEPT !.rooms[s] = @ \cup {Rooms!PaymentRoom(p)}]
    BY DEF Rooms!JoinPayment, Rooms!IsParty
  <2>2. rooms = held.rooms[s] \cup {Rooms!PaymentRoom(p)} OBVIOUS
  <2> HIDE DEF rooms
  <2> QED BY <1>3, <2>1, <2>2 DEF SocketsInv, SocketDoc
<1>6. ~(u \in Readers /\ u \in Rooms!PartiesOf(p)) => held' = held /\ rooms = held.rooms[s]
  BY DEF Rooms!JoinPayment, Rooms!IsParty
<1>7. Moves(q) /\ asking'[q] = Rooms!Idle BY <1>1, AnswersMoves
<1>8. SocketDoc'
  <2> HIDE DEF s, rooms
  <2> QED BY <1>3, <1>4, <1>5, <1>6, Rest DEF SocketsInv
<1> QED BY <1>7, <1>8 DEF SocketsStep, SocketsInv, AllBelong, Moves

LEMMA SocketsNext ==
  ASSUME Slots, SocketsInv, AllBelong("sockets"), about = "sockets", Rooms!SocketsNext
  PROVE  SocketsStep
BY SocketsMove, SocketsAsk, SocketsJoin DEF Rooms!SocketsNext

LEMMA SocketsGives == SocketsInv => Rooms!SocketsSound
<1> SUFFICES ASSUME SocketsInv, NEW s \in Rooms!Sockets
             PROVE  /\ \A p \in Rooms!Payments :
                         Rooms!TimesTold(s, p) > 0 <=> held.user[s] \in Rooms!PartiesOf(p)
                    /\ held.user[s] \notin Readers => held.rooms[s] = {}
  BY DEF Rooms!SocketsSound
<1> DEFINE u == held.user[s]
           rooms == held.rooms[s]
<1>1. Joined(u, rooms) BY DEF SocketsInv, SocketDoc
<1>2. ASSUME NEW p \in Rooms!Payments
      PROVE  Rooms!TimesTold(s, p) > 0 <=> u \in Rooms!PartiesOf(p)
  <2> DEFINE heard == rooms \cap ({Rooms!PaymentRoom(p)}
                                    \cup {Rooms!UserRoom(m) : m \in Rooms!PartiesOf(p)})
  <2>1. Rooms!TimesTold(s, p) = Cardinality(heard)
    BY DEF Rooms!TimesTold, Rooms!Cardinality, Cardinality
  <2>2. Rooms!PartiesOf(p) \subseteq Readers BY RoomsAssumption DEF Rooms!PartiesOf, Rooms!Buyer
  <2>3. heard \subseteq {Rooms!UserRoom(u), Rooms!PaymentRoom(1), Rooms!PaymentRoom(2)}
    BY <1>1 DEF Joined, Rooms!Payments
  <2>4. IsFiniteSet(heard)
    <3> DEFINE one == {Rooms!UserRoom(u)}
               two == one \cup {Rooms!PaymentRoom(1)}
               three == two \cup {Rooms!PaymentRoom(2)}
    <3>1. IsFiniteSet(one) BY FS_Singleton
    <3>2. IsFiniteSet(two) BY <3>1, FS_AddElement
    <3>3. IsFiniteSet(three) BY <3>2, FS_AddElement
    <3>4. heard \subseteq three BY <2>3
    <3> QED BY <3>3, <3>4, FS_Subset
  <2>5. heard # {} <=> u \in Rooms!PartiesOf(p)
    <3>1. ASSUME u \in Rooms!PartiesOf(p) PROVE Rooms!UserRoom(u) \in heard
      BY <1>1, <2>2, <3>1 DEF Joined
    <3>2. ASSUME NEW r \in heard PROVE u \in Rooms!PartiesOf(p)
      BY <1>1, <3>2 DEF Joined, Rooms!UserRoom, Rooms!PaymentRoom, Rooms!Payments
    <3> QED BY <3>1, <3>2
  <2>6. Cardinality(heard) \in Nat /\ (Cardinality(heard) = 0 <=> heard = {})
    BY <2>4, FS_CardinalityType, FS_EmptySet
  <2> HIDE DEF heard
  <2> QED BY <2>1, <2>5, <2>6
<1> QED BY <1>1, <1>2 DEF Joined

-----------------------------------------------------------------------------
(* New reels *)

UploadBody == [kind : {"plain", "duet", "stitch", "solo"}, of : {0, -1}, clip : Rooms!Clips,
               n : Nat \ {0}]

Waiting(q) == asking[q] # Rooms!Idle

\* Each request has a video of its own; it is in the store once the request validates.
UploadInv ==
    /\ asks \in Nat
    /\ DOMAIN held = {"store", "reels"} /\ DOMAIN told = {"made", "refused"}
    /\ held.store \subseteq 0..asks /\ held.reels \subseteq held.store
    /\ told.made \subseteq UploadBody /\ held.reels = {0} \cup {b.n : b \in told.made}
    /\ \A b, c \in told.made : b.n = c.n => b = c
    /\ \A b \in told.made : /\ b.kind \in {"duet", "stitch"} => b.of \in held.reels
                            /\ b.kind = "stitch" => b.clip = <<1, 2>>
    /\ \A q \in Requests : Waiting(q) =>
         /\ asking[q].at \in {"upload", "validate"} /\ asking[q].body \in UploadBody
         /\ asking[q].body.n <= asks /\ asking[q].body.n \notin held.reels
         /\ asking[q].at = "validate" => asking[q].body.n \in held.store
    /\ \A p, q \in Requests :
         Waiting(p) /\ Waiting(q) /\ asking[p].body.n = asking[q].body.n => p = q
    /\ \A x \in held.store : \/ x \in held.reels \cup told.refused
                             \/ \E q \in Requests : /\ Waiting(q) /\ asking[q].at = "validate"
                                                    /\ asking[q].body.n = x

UploadStep == Slots' /\ UploadInv' /\ AllBelong("upload")' /\ about' = about

LEMMA UploadBegins ==
  ASSUME Slots, UploadInv, AllBelong("upload"), NEW q \in Requests,
         NEW kind \in {"plain", "duet", "stitch", "solo"}, NEW of \in {0, -1},
         NEW clip \in Rooms!Clips, Rooms!BeginUpload(q, kind, of, clip)
  PROVE  UploadStep
<1> DEFINE body == [kind |-> kind, of |-> of, clip |-> clip, n |-> asks + 1]
<1>1. Rooms!Ask(q, "upload", "create", "upload", None, body) /\ held' = held /\ told' = told
  BY DEF Rooms!BeginUpload
<1>2. body \in UploadBody /\ body.n = asks + 1 BY DEF UploadInv, UploadBody
<1> HIDE DEF body
<1>3. /\ Moves(q) /\ asks' = asks + 1 /\ asking[q] = Rooms!Idle
      /\ asking'[q] = [op |-> "create", at |-> "upload", copy |-> None, body |-> body]
  BY <1>1, AskMoves
<1>4. /\ BelongsTo(asking'[q]) = "upload" /\ asking'[q].at = "upload" /\ asking'[q].body = body
      /\ ~Waiting(q)
  BY <1>3 DEF BelongsTo, Waiting
<1>5. \A p \in Requests \ {q} : asking'[p] = asking[p] /\ (Waiting(p)' <=> Waiting(p))
  BY <1>3 DEF Moves, Waiting
<1>6. \A p \in Requests : Waiting(p) => asking[p].body.n \in Nat /\ asking[p].body.n <= asks
  BY DEF UploadInv, UploadBody
<1>7. asks \in Nat /\ 0..asks \subseteq 0..(asks + 1) /\ asks + 1 \notin 0..asks BY DEF UploadInv
<1>8. \A p, r \in Requests :
        Waiting(p)' /\ Waiting(r)' /\ asking'[p].body.n = asking'[r].body.n => p = r
  BY <1>2, <1>4, <1>5, <1>6, <1>7 DEF UploadInv
<1>9. \A p \in Requests : Waiting(p)' =>
         /\ asking'[p].at \in {"upload", "validate"} /\ asking'[p].body \in UploadBody
         /\ asking'[p].body.n <= asks' /\ asking'[p].body.n \notin held.reels
         /\ asking'[p].at = "validate" => asking'[p].body.n \in held.store
  BY <1>2, <1>3, <1>4, <1>5, <1>6, <1>7 DEF UploadInv
<1>10. \A x \in held.store : \/ x \in held.reels \cup told.refused
                             \/ \E p \in Requests : /\ Waiting(p)' /\ asking'[p].at = "validate"
                                                    /\ asking'[p].body.n = x
  BY <1>4, <1>5 DEF UploadInv
<1>11. AllBelong("upload")' BY <1>4, <1>5 DEF AllBelong
<1> QED BY <1>1, <1>3, <1>7, <1>8, <1>9, <1>10, <1>11 DEF UploadStep, UploadInv, Moves

\* A request that waits is not one that is answered.
LEMMA UploadWaits ==
  ASSUME Slots, UploadInv, NEW q \in Requests, NEW at, Rooms!At(q, "create", at)
  PROVE  /\ Waiting(q) /\ asking[q].body \in UploadBody /\ asking[q].body.n \in Nat \ {0}
         /\ asking[q].body.n <= asks /\ asking[q].body.n \notin held.reels
         /\ \A p \in Requests \ {q} : Waiting(p) => asking[p].body.n # asking[q].body.n
<1>1. Waiting(q) BY DEF Rooms!At, Rooms!Idle, Waiting
<1> QED BY <1>1 DEF UploadInv, UploadBody

LEMMA UploadArrives ==
  ASSUME Slots, UploadInv, AllBelong("upload"), NEW q \in Requests, Rooms!VideoUploaded(q)
  PROVE  UploadStep
<1> DEFINE body == asking[q].body
<1>1. /\ Rooms!At(q, "create", "upload") /\ Rooms!Goes(q, "validate") /\ told' = told
      /\ held' = [held EXCEPT !.store = @ \cup {body.n}]
  BY DEF Rooms!VideoUploaded
<1>2. /\ Waiting(q) /\ body \in UploadBody /\ body.n \in Nat \ {0} /\ body.n <= asks
      /\ body.n \notin held.reels /\ \A p \in Requests \ {q} : Waiting(p) => asking[p].body.n # body.n
  BY <1>1, UploadWaits
<1>3. /\ Moves(q) /\ asks' = asks /\ asking'[q].op = "create" /\ asking'[q].at = "validate"
      /\ asking'[q].body = body
  BY <1>1, GoesMoves DEF Rooms!At
<1> HIDE DEF body
<1>4. BelongsTo(asking'[q]) = "upload" /\ Waiting(q)' BY <1>3 DEF BelongsTo, Waiting, Rooms!Idle
<1>5. \A p \in Requests \ {q} : asking'[p] = asking[p] /\ (Waiting(p)' <=> Waiting(p))
  BY <1>3 DEF Moves, Waiting
<1>6. /\ DOMAIN held' = {"store", "reels"} /\ held'.reels = held.reels
      /\ held'.store = held.store \cup {body.n}
  BY <1>1 DEF UploadInv
<1>7. held'.store \subseteq 0..asks BY <1>2, <1>6 DEF UploadInv
<1>8. \A p, r \in Requests :
        Waiting(p)' /\ Waiting(r)' /\ asking'[p].body.n = asking'[r].body.n => p = r
  BY <1>2, <1>3, <1>5 DEF UploadInv
<1>9. \A p \in Requests : Waiting(p)' =>
         /\ asking'[p].at \in {"upload", "validate"} /\ asking'[p].body \in UploadBody
         /\ asking'[p].body.n <= asks /\ asking'[p].body.n \notin held.reels
         /\ asking'[p].at = "validate" => asking'[p].body.n \in held'.store
  BY <1>2, <1>3, <1>5, <1>6 DEF UploadInv
<1>10. \A x \in held'.store : \/ x \in held.reels \cup told.refused
                              \/ \E p \in Requests : /\ Waiting(p)' /\ asking'[p].at = "validate"
                                                     /\ asking'[p].body.n = x
  <2>1. ASSUME NEW x \in held.store, x \notin held.reels \cup told.refused
        PROVE  \E p \in Requests : /\ Waiting(p)' /\ asking'[p].at = "validate"
                                   /\ asking'[p].body.n = x
    <3>1. PICK p \in Requests : Waiting(p) /\ asking[p].at = "validate" /\ asking[p].body.n = x
      BY <2>1 DEF UploadInv
    <3>2. p # q BY <1>1, <3>1 DEF Rooms!At
    <3> QED BY <1>5, <3>1, <3>2
  <2> QED BY <1>3, <1>4, <1>6, <2>1
<1>11. AllBelong("upload")' BY <1>4, <1>5 DEF AllBelong
<1> QED BY <1>1, <1>3, <1>6, <1>7, <1>8, <1>9, <1>10, <1>11 DEF UploadStep, UploadInv, Moves

LEMMA UploadEnds ==
  ASSUME Slots, UploadInv, AllBelong("upload"), NEW q \in Requests,
         Rooms!CreateReel(q) \/ Rooms!UploadRefused(q)
  PROVE  UploadStep
<1> DEFINE body == asking[q].body
<1>1. Rooms!Answers(q) /\ \E at : Rooms!At(q, "create", at)
  BY DEF Rooms!CreateReel, Rooms!UploadRefused
<1>2. /\ Waiting(q) /\ body \in UploadBody /\ body.n \in Nat \ {0} /\ body.n <= asks
      /\ body.n \notin held.reels /\ \A p \in Requests \ {q} : Waiting(p) => asking[p].body.n # body.n
  BY <1>1, UploadWaits
<1>3. Moves(q) /\ asks' = asks /\ asking'[q] = Rooms!Idle BY <1>1, AnswersMoves
<1>4. /\ ~Waiting(q)'
      /\ \A p \in Requests \ {q} : asking'[p] = asking[p] /\ (Waiting(p)' <=> Waiting(p))
  BY <1>3 DEF Moves, Waiting
<1>5. AllBelong("upload")' BY <1>3, <1>4 DEF AllBelong
<1>6. CASE Rooms!CreateReel(q)
  <2>1. /\ Rooms!At(q, "create", "validate") /\ Rooms!Accepted(body)
        /\ held' = [held EXCEPT !.reels = @ \cup {body.n}]
        /\ told' = [told EXCEPT !.made = @ \cup {body}]
    BY <1>6 DEF Rooms!CreateReel
  <2>2. body.n \in held.store BY <1>2, <2>1 DEF UploadInv, Rooms!At
  <2>3. /\ body.kind \in {"duet", "stitch"} => body.of \in held.reels
        /\ body.kind = "stitch" => body.clip = <<1, 2>>
    <3>1. body.clip \in {None, <<2, 1>>, <<1, 2>>} BY <1>2 DEF UploadBody, Rooms!Clips
    <3> HIDE DEF body
    <3> QED BY <2>1, <3>1 DEF Rooms!Accepted, Rooms!MakesSense
  <2> HIDE DEF body
  <2>4. /\ DOMAIN held' = {"store", "reels"} /\ held'.store = held.store
        /\ held'.reels = held.reels \cup {body.n}
        /\ DOMAIN told' = {"made", "refused"} /\ told'.refused = told.refused
        /\ told'.made = told.made \cup {body}
    BY <2>1 DEF UploadInv
  <2>5. \A b \in told.made : b.n \in held.reels BY DEF UploadInv
  <2>6. /\ held'.reels = {0} \cup {b.n : b \in told'.made} /\ told'.made \subseteq UploadBody
        /\ \A b, c \in told'.made : b.n = c.n => b = c
        /\ \A b \in told'.made : /\ b.kind \in {"duet", "stitch"} => b.of \in held'.reels
                                 /\ b.kind = "stitch" => b.clip = <<1, 2>>
    BY <1>2, <2>3, <2>4, <2>5 DEF UploadInv
  <2>7. \A p \in Requests : Waiting(p)' =>
         /\ asking'[p].at \in {"upload", "validate"} /\ asking'[p].body \in UploadBody
         /\ asking'[p].body.n <= asks /\ asking'[p].body.n \notin held'.reels
         /\ asking'[p].at = "validate" => asking'[p].body.n \in held.store
    BY <1>2, <1>4, <2>4 DEF UploadInv
  <2>8. \A x \in held.store : \/ x \in held'.reels \cup told.refused
                              \/ \E p \in Requests : /\ Waiting(p)' /\ asking'[p].at = "validate"
                                                     /\ asking'[p].body.n = x
    <3>1. ASSUME NEW x \in held.store, x \notin held.reels \cup told.refused, x # body.n
          PROVE  \E p \in Requests : /\ Waiting(p)' /\ asking'[p].at = "validate"
                                     /\ asking'[p].body.n = x
      <4>1. PICK p \in Requests : Waiting(p) /\ asking[p].at = "validate" /\ asking[p].body.n = x
        BY <3>1 DEF UploadInv
      <4>2. p # q BY <3>1, <4>1 DEF body
      <4> QED BY <1>4, <4>1, <4>2
    <3> QED BY <2>4, <3>1
  <2>9. \A p, r \in Requests :
          Waiting(p)' /\ Waiting(r)' /\ asking'[p].body.n = asking'[r].body.n => p = r
    BY <1>4 DEF UploadInv
  <2>10. held'.reels \subseteq held.store BY <2>2, <2>4 DEF UploadInv
  <2> QED BY <1>3, <1>5, <2>4, <2>6, <2>7, <2>8, <2>9, <2>10 DEF UploadStep, UploadInv, Moves
<1>7. CASE Rooms!UploadRefused(q)
  <2>1. held' = held /\ told' = [told EXCEPT !.refused = @ \cup {body.n}]
    BY <1>7 DEF Rooms!UploadRefused
  <2>2. /\ DOMAIN told' = {"made", "refused"} /\ told'.made = told.made
        /\ told'.refused = told.refused \cup {body.n}
    BY <2>1 DEF UploadInv
  <2>3. \A x \in held.store : \/ x \in held.reels \cup told'.refused
                              \/ \E p \in Requests : /\ Waiting(p)' /\ asking'[p].at = "validate"
                                                     /\ asking'[p].body.n = x
    <3>1. ASSUME NEW x \in held.store, x \notin held.reels \cup told.refused, x # body.n
          PROVE  \E p \in Requests : /\ Waiting(p)' /\ asking'[p].at = "validate"
                                     /\ asking'[p].body.n = x
      <4>1. PICK p \in Requests : Waiting(p) /\ asking[p].at = "validate" /\ asking[p].body.n = x
        BY <3>1 DEF UploadInv
      <4>2. p # q BY <3>1, <4>1
      <4> QED BY <1>4, <4>1, <4>2
    <3> HIDE DEF body
    <3> QED BY <2>2, <3>1
  <2>4. \A p \in Requests : Waiting(p)' =>
         /\ asking'[p].at \in {"upload", "validate"} /\ asking'[p].body \in UploadBody
         /\ asking'[p].body.n <= asks /\ asking'[p].body.n \notin held.reels
         /\ asking'[p].at = "validate" => asking'[p].body.n \in held.store
    BY <1>4 DEF UploadInv
  <2>5. \A p, r \in Requests :
          Waiting(p)' /\ Waiting(r)' /\ asking'[p].body.n = asking'[r].body.n => p = r
    BY <1>4 DEF UploadInv
  <2> QED BY <1>3, <1>5, <2>1, <2>2, <2>3, <2>4, <2>5 DEF UploadStep, UploadInv, Moves
<1> QED BY <1>6, <1>7

LEMMA UploadNext ==
  ASSUME Slots, UploadInv, AllBelong("upload"), Rooms!UploadNext
  PROVE  UploadStep
BY UploadBegins, UploadArrives, UploadEnds DEF Rooms!UploadNext

LEMMA UploadGives == UploadInv => Rooms!UploadsKept
<1> SUFFICES ASSUME UploadInv PROVE Rooms!UploadsKept OBVIOUS
<1>1. \A b \in told.made : b.kind \in {"duet", "stitch"} => b.of \in held.reels \ {b.n}
  BY DEF UploadInv, UploadBody
<1>2. Rooms!Resting => held.store \ held.reels \subseteq told.refused
  BY DEF UploadInv, Rooms!Resting, Waiting
<1> QED BY <1>1, <1>2 DEF UploadInv, Rooms!UploadsKept

-----------------------------------------------------------------------------
(* A bundle of courses *)

BundleFields == {"courses", "price", "version", "originalPrice", "discount"}

\* The figures of a bundle are those of its courses and its price.
Priced(prices, b) ==
    LET now == Rooms!CalculateDiscount(Rooms!SumFunctionOnSet(prices, b.courses), b.price) IN
    b.originalPrice = now.originalPrice /\ b.discount = now.discount

\* What a request is about to write is priced too, unless the author sent the discount.
BundleInv ==
    /\ DOMAIN held = {"prices", "bundle"} /\ DOMAIN told = {"drifted"}
    /\ held.bundle = None \/ DOMAIN held.bundle = BundleFields
    /\ ~told.drifted /\ held.bundle # None => Priced(held.prices, held.bundle)
    /\ \A q \in Requests : Waiting(q) =>
         /\ DOMAIN asking[q].body = BundleFields
         /\ ~told.drifted /\ (asking[q].op = "update" => ~asking[q].copy.own)
              => Priced(held.prices, asking[q].body)

BundleStep == Slots' /\ BundleInv' /\ AllBelong("bundle")' /\ about' = about

\* A request that loads a bundle or courses and keeps what it made of them.
LEMMA BundleAsks ==
  ASSUME Slots, BundleInv, AllBelong("bundle"), NEW q \in Requests, NEW op, NEW at, NEW copy, NEW body,
         Rooms!Ask(q, "bundle", op, at, copy, body), held' = held, told' = told,
         (op = "create" /\ at = "create") \/ (op = "update" /\ at = "save"),
         DOMAIN body = BundleFields,
         (op = "update" => ~copy.own) => Priced(held.prices, body)
  PROVE  BundleStep
<1>1. Moves(q) /\ asking'[q] = [op |-> op, at |-> at, copy |-> copy, body |-> body]
  BY AskMoves
<1>2. BelongsTo(asking'[q]) = "bundle" BY <1>1 DEF BelongsTo
<1>3. \A p \in Requests : Waiting(p)' =>
         /\ DOMAIN asking'[p].body = BundleFields
         /\ ~told.drifted /\ (asking'[p].op = "update" => ~asking'[p].copy.own)
              => Priced(held.prices, asking'[p].body)
  BY <1>1 DEF Moves, Waiting, BundleInv
<1>4. AllBelong("bundle")' BY <1>1, <1>2 DEF AllBelong, Moves
<1> QED BY <1>1, <1>3, <1>4 DEF BundleStep, BundleInv, Moves

LEMMA BundleCourses ==
  ASSUME Slots, BundleInv, AllBelong("bundle"), NEW q \in Requests, NEW ids, NEW price,
         Rooms!LoadCourses(q, ids, price)
  PROVE  BundleStep
<1> DEFINE courses == Rooms!Range(ids)
           now == Rooms!CalculateDiscount(Rooms!Apart(courses), price)
           body == [courses |-> courses, price |-> price, version |-> 0,
                    originalPrice |-> now.originalPrice, discount |-> now.discount]
<1>1. Rooms!Ask(q, "bundle", "create", "create", None, body) /\ held' = held /\ told' = told
  BY DEF Rooms!LoadCourses
<1>2. DOMAIN body = BundleFields BY DEF BundleFields
<1>3. Priced(held.prices, body) BY DEF Priced, Rooms!Apart
<1> HIDE DEF body
<1> QED BY <1>1, <1>2, <1>3, BundleAsks

LEMMA BundleLoads ==
  ASSUME Slots, BundleInv, AllBelong("bundle"), NEW q \in Requests, NEW who, NEW body,
         "discount" \in DOMAIN body \/ Rooms!Recalculated(body), Rooms!LoadBundle(q, who, body)
  PROVE  BundleStep
<1> DEFINE doc == held.bundle
           new == [f \in DOMAIN doc |-> IF f \in DOMAIN body THEN body[f] ELSE doc[f]]
           now == Rooms!CalculateDiscount(Rooms!Apart(new.courses), new.price)
           full == [new EXCEPT !.originalPrice = now.originalPrice, !.discount = now.discount]
           sent == IF Rooms!Recalculated(body) THEN full ELSE new
           copy == [doc |-> doc, own |-> "discount" \in DOMAIN body]
<1>1. Rooms!Ask(q, "bundle", "update", "save", copy, sent) /\ held' = held /\ told' = told /\ doc # None
  BY DEF Rooms!LoadBundle
<1>2. DOMAIN new = BundleFields BY <1>1 DEF BundleInv
<1> HIDE DEF new
<1>3. DOMAIN sent = BundleFields BY <1>2
<1>4. ~copy.own => Priced(held.prices, sent)
  <2>1. SUFFICES ASSUME Rooms!Recalculated(body) PROVE Priced(held.prices, full) OBVIOUS
  <2> HIDE DEF now
  <2>2. /\ full.courses = new.courses /\ full.price = new.price
        /\ full.originalPrice = now.originalPrice /\ full.discount = now.discount
    BY <1>2 DEF BundleFields
  <2> HIDE DEF full
  <2> QED BY <2>2 DEF Priced, Rooms!Apart, now
<1> HIDE DEF sent, copy
<1> QED BY <1>1, <1>3, <1>4, BundleAsks

LEMMA BundleCreates ==
  ASSUME Slots, BundleInv, AllBelong("bundle"), NEW q \in Requests, Rooms!CreateBundle(q)
  PROVE  BundleStep
<1> DEFINE body == asking[q].body
<1>1. /\ Rooms!At(q, "create", "create") /\ Rooms!Answers(q) /\ told' = told
      /\ held' = [held EXCEPT !.bundle = body]
  BY DEF Rooms!CreateBundle
<1>2. Moves(q) /\ asking'[q] = Rooms!Idle BY <1>1, AnswersMoves
<1>3. Waiting(q) /\ asking[q].op = "create" BY <1>1 DEF Waiting, Rooms!At, Rooms!Idle
<1>4. DOMAIN body = BundleFields /\ (~told.drifted => Priced(held.prices, body))
  BY <1>3 DEF BundleInv
<1> HIDE DEF body
<1>5. DOMAIN held' = {"prices", "bundle"} /\ held'.prices = held.prices /\ held'.bundle = body
  BY <1>1 DEF BundleInv
<1>6. AllBelong("bundle")' BY <1>2 DEF AllBelong, Moves
<1>7. \A p \in Requests : Waiting(p)' =>
         /\ DOMAIN asking'[p].body = BundleFields
         /\ ~told.drifted /\ (asking'[p].op = "update" => ~asking'[p].copy.own)
              => Priced(held.prices, asking'[p].body)
  BY <1>2 DEF Moves, Waiting, BundleInv
<1> QED BY <1>1, <1>2, <1>4, <1>5, <1>6, <1>7 DEF BundleStep, BundleInv, Moves

LEMMA BundleUpdates ==
  ASSUME Slots, BundleInv, AllBelong("bundle"), NEW q \in Requests, Rooms!UpdateBundle(q)
  PROVE  BundleStep
<1> DEFINE old == asking[q].copy.doc
           new == asking[q].body
           own == asking[q].copy.own
           now == held.bundle
           replaced == new.courses # old.courses
           saved == [f \in DOMAIN new |->
                        IF f = "version" THEN IF replaced THEN now.version + 1 ELSE now.version
                        ELSE IF new[f] # old[f] THEN new[f] ELSE now[f]]
<1>1. Rooms!At(q, "update", "save") /\ Rooms!Answers(q) BY DEF Rooms!UpdateBundle
<1>2. Moves(q) /\ asking'[q] = Rooms!Idle BY <1>1, AnswersMoves
<1>3. Waiting(q) /\ asking[q].op = "update" BY <1>1 DEF Waiting, Rooms!At, Rooms!Idle
<1>4. DOMAIN new = BundleFields /\ (~told.drifted /\ ~own => Priced(held.prices, new))
  BY <1>3 DEF BundleInv
<1>5. AllBelong("bundle")' BY <1>2 DEF AllBelong, Moves
<1>6. ASSUME held' = held, told' = told PROVE BundleInv'
  <2>1. \A p \in Requests : Waiting(p)' =>
         /\ DOMAIN asking'[p].body = BundleFields
         /\ ~told.drifted /\ (asking'[p].op = "update" => ~asking'[p].copy.own)
              => Priced(held.prices, asking'[p].body)
    BY <1>2 DEF Moves, Waiting, BundleInv
  <2> QED BY <1>6, <2>1 DEF BundleInv
<1>7. ASSUME held' = [held EXCEPT !.bundle = saved],
             told' = [told EXCEPT !.drifted = @ \/ now # old \/ own]
      PROVE  BundleInv'
  <2>1. DOMAIN saved = BundleFields BY <1>4
  <2>2. now = old => \A f \in BundleFields \ {"version"} : saved[f] = new[f] BY <1>4
  <2> HIDE DEF saved, new
  <2>3. DOMAIN held' = {"prices", "bundle"} /\ held'.prices = held.prices /\ held'.bundle = saved
    BY <1>7 DEF BundleInv
  <2>4. DOMAIN told' = {"drifted"} /\ (~told'.drifted => ~told.drifted /\ now = old /\ ~own)
    BY <1>7 DEF BundleInv
  <2>5. ~told'.drifted => Priced(held.prices, saved)
    BY <1>4, <2>2, <2>4 DEF Priced, BundleFields
  <2>6. \A p \in Requests : Waiting(p)' =>
         /\ DOMAIN asking'[p].body = BundleFields
         /\ ~told.drifted /\ (asking'[p].op = "update" => ~asking'[p].copy.own)
              => Priced(held.prices, asking'[p].body)
    BY <1>2 DEF Moves, Waiting, BundleInv
  <2> QED BY <2>1, <2>3, <2>4, <2>5, <2>6 DEF BundleInv
<1>8. BundleInv' BY <1>6, <1>7 DEF Rooms!UpdateBundle
<1> QED BY <1>2, <1>5, <1>8 DEF BundleStep, Moves

LEMMA BundleNext ==
  ASSUME Slots, BundleInv, AllBelong("bundle"), Rooms!BundleNext
  PROVE  BundleStep
<1>1. ASSUME NEW c, NEW price, Rooms!Reprice(c, price) PROVE BundleStep
  <2>1. /\ Rooms!Single("bundle") /\ held' = [held EXCEPT !.prices[c] = price]
        /\ told' = [told EXCEPT !.drifted = TRUE]
    BY <1>1 DEF Rooms!Reprice
  <2>2. asking' = asking /\ about' = about /\ Slots' BY <2>1, SingleMoves
  <2>3. DOMAIN held' = {"prices", "bundle"} /\ held'.bundle = held.bundle BY <2>1 DEF BundleInv
  <2>4. DOMAIN told' = {"drifted"} /\ told'.drifted BY <2>1 DEF BundleInv
  <2>5. \A q \in Requests : Waiting(q)' => DOMAIN asking'[q].body = BundleFields
    BY <2>2 DEF BundleInv, Waiting
  <2>6. BundleInv' BY <2>3, <2>4, <2>5 DEF BundleInv
  <2>7. AllBelong("bundle")' BY <2>2 DEF AllBelong
  <2> QED BY <2>2, <2>6, <2>7 DEF BundleStep
<1>2. ASSUME NEW q \in Requests, NEW who,
             NEW body \in {[price |-> 0], [price |-> 2], [courses |-> {1}], [courses |-> Rooms!Courses],
                           [courses |-> {1, 3}], [discount |-> 5000]}, Rooms!LoadBundle(q, who, body)
      PROVE  BundleStep
  <2>1. "discount" \in DOMAIN body \/ Rooms!Recalculated(body) BY DEF Rooms!Recalculated
  <2> QED BY <1>2, <2>1, BundleLoads
<1> QED BY <1>1, <1>2, BundleCourses, BundleCreates, BundleUpdates DEF Rooms!BundleNext

LEMMA BundleGives == BundleInv => Rooms!BundleTrue
BY DEF BundleInv, Priced, Rooms!BundleTrue, Rooms!Apart

-----------------------------------------------------------------------------
(* Signing in with a wallet *)

Challenge == [n : Nat, account : Readers, maxTime : Nat]
Visit == [challenge : Challenge, at : Nat]

\* A challenge that was used is remembered while it could be used again.
Remembered(c) == c \in held.consumed \/ c.maxTime <= held.clock

GoodVisit(v) ==
    /\ v \in Visit /\ v.challenge \in held.issued
    /\ v.at <= held.clock /\ v.at <= v.challenge.maxTime

\* The use of a challenge that counts: once, and before the last second of its time.
Counts(v) == v.challenge \notin told.raced /\ v.at < v.challenge.maxTime

SigninInv ==
    /\ asks \in Nat
    /\ DOMAIN held = {"clock", "issued", "consumed"} /\ DOMAIN told = {"sessions", "raced", "restarted"}
    /\ held.clock \in Nat /\ held.issued \subseteq Challenge /\ held.consumed \subseteq held.issued
    /\ told.sessions \in Seq(Visit)
    /\ \A q \in Requests : Waiting(q) =>
         /\ GoodVisit(asking[q].body)
         /\ ~told.restarted /\ asking[q].at = "user" => Remembered(asking[q].body.challenge)
    /\ \A i \in DOMAIN told.sessions :
         /\ GoodVisit(told.sessions[i])
         /\ ~told.restarted => Remembered(told.sessions[i].challenge)
    /\ \A p, q \in Requests :
         Waiting(p) /\ Waiting(q) /\ asking[p].body.challenge = asking[q].body.challenge
         /\ asking[q].body.challenge \notin told.raced => p = q
    /\ ~told.restarted => \A i \in DOMAIN told.sessions, q \in Requests :
         Counts(told.sessions[i]) /\ Waiting(q)
         /\ asking[q].body.challenge = told.sessions[i].challenge => ~Counts(asking[q].body)
    /\ ~told.restarted => \A i, j \in DOMAIN told.sessions :
         Counts(told.sessions[i]) /\ Counts(told.sessions[j])
         /\ told.sessions[i].challenge = told.sessions[j].challenge => i = j

SigninStep == Slots' /\ SigninInv' /\ AllBelong("signin")' /\ about' = about

\* Time passes, challenges are handed out, some are forgotten when they are out of time:
\* nothing that was so of a request or a session is lost.
LEMMA SigninStill ==
  ASSUME Slots, SigninInv, AllBelong("signin"), asking' = asking, about' = about, asks' \in Nat,
         told' = told, DOMAIN held' = DOMAIN held, held'.clock \in Nat, held.clock <= held'.clock,
         held'.issued \subseteq Challenge, held.issued \subseteq held'.issued,
         held'.consumed \subseteq held'.issued,
         \A c \in held.consumed : c \in held'.consumed \/ c.maxTime <= held'.clock
  PROVE  SigninStep
<1>1. \A v : GoodVisit(v) => GoodVisit(v)' BY DEF GoodVisit, Visit, SigninInv
<1>2. \A c \in held.issued : Remembered(c) => Remembered(c)' BY DEF Remembered, SigninInv, Challenge
<1>3. \A q \in Requests : Waiting(q)' =>
         /\ GoodVisit(asking[q].body)'
         /\ ~told.restarted /\ asking[q].at = "user" => Remembered(asking[q].body.challenge)'
  BY <1>1, <1>2 DEF SigninInv, Waiting, GoodVisit, Remembered
<1>4. \A i \in DOMAIN told.sessions :
         /\ GoodVisit(told.sessions[i])'
         /\ ~told.restarted => Remembered(told.sessions[i].challenge)'
  BY <1>1, <1>2 DEF SigninInv, GoodVisit, Remembered
<1>5. \A v : Counts(v)' <=> Counts(v) BY DEF Counts
<1>6. \A q \in Requests : Waiting(q)' <=> Waiting(q) BY DEF Waiting
<1>7. SigninInv' BY <1>3, <1>4, <1>5, <1>6 DEF SigninInv, Counts
<1>8. Slots' /\ AllBelong("signin")' BY DEF Slots, AllBelong
<1> QED BY <1>7, <1>8 DEF SigninStep

LEMMA SigninPlain ==
  ASSUME Slots, SigninInv, AllBelong("signin"),
         Rooms!Elapse \/ \E m \in Readers : Rooms!GetStellarChallenge(m)
  PROVE  SigninStep
<1>1. CASE Rooms!Elapse
  <2>1. /\ held' = [held EXCEPT !.clock = @ + 1] /\ told' = told /\ asking' = asking
        /\ about' = about /\ asks' = asks
    BY <1>1 DEF Rooms!Elapse
  <2>2. /\ DOMAIN held' = DOMAIN held /\ held'.clock = held.clock + 1
        /\ held'.issued = held.issued /\ held'.consumed = held.consumed
    BY <2>1 DEF SigninInv
  <2> QED BY <2>1, <2>2, SigninStill DEF SigninInv
<1>2. ASSUME NEW m \in Readers, Rooms!GetStellarChallenge(m) PROVE SigninStep
  <2> DEFINE c == Rooms!BuildChallenge(m)
  <2>1. /\ held' = [held EXCEPT !.issued = @ \cup {c}] /\ told' = told /\ Rooms!Single("signin")
    BY <1>2 DEF Rooms!GetStellarChallenge
  <2>2. c \in Challenge BY DEF Rooms!BuildChallenge, Rooms!ChallengeTimeout, Challenge, SigninInv
  <2> HIDE DEF c
  <2>3. /\ DOMAIN held' = DOMAIN held /\ held'.clock = held.clock
        /\ held'.issued = held.issued \cup {c} /\ held'.consumed = held.consumed
    BY <2>1 DEF SigninInv
  <2>4. asking' = asking /\ about' = about /\ asks' \in Nat BY <2>1, SingleMoves DEF SigninInv
  <2> QED BY <2>1, <2>2, <2>3, <2>4, SigninStill DEF SigninInv
<1> QED BY <1>1, <1>2

\* What is forgotten when a challenge is read is out of time.
LEMMA Forgotten ==
  ASSUME SigninInv, held' = [held EXCEPT !.consumed = Rooms!Unexpired(@)]
  PROVE  /\ DOMAIN held' = DOMAIN held /\ held'.clock = held.clock /\ held'.issued = held.issued
         /\ held'.consumed = Rooms!Unexpired(held.consumed)
         /\ held'.consumed \subseteq held.consumed
         /\ \A c \in held.consumed : c \in held'.consumed \/ c.maxTime <= held.clock
<1>1. \A c \in held.consumed : c \in Rooms!Unexpired(held.consumed) \/ c.maxTime <= held.clock
  BY DEF SigninInv, Rooms!Unexpired, Challenge
<1>2. /\ DOMAIN held' = DOMAIN held /\ held'.clock = held.clock /\ held'.issued = held.issued
      /\ held'.consumed = Rooms!Unexpired(held.consumed)
  BY DEF SigninInv
<1>3. Rooms!Unexpired(held.consumed) \subseteq held.consumed BY DEF Rooms!Unexpired
<1> QED BY <1>1, <1>2, <1>3

LEMMA SigninReads ==
  ASSUME Slots, SigninInv, AllBelong("signin"), NEW q \in Requests, NEW c \in held.issued,
         Rooms!ReadChallenge(q, c)
  PROVE  SigninStep
<1> DEFINE body == [challenge |-> c, at |-> held.clock]
           Still(d) == d \in held'.consumed \/ d.maxTime <= held'.clock
           Matters(v) == v.challenge \notin told'.raced /\ v.at < v.challenge.maxTime
<1>1. Rooms!InTime(c) /\ held' = [held EXCEPT !.consumed = Rooms!Unexpired(@)]
  BY DEF Rooms!ReadChallenge
<1>2. /\ DOMAIN held' = DOMAIN held /\ held'.clock = held.clock /\ held'.issued = held.issued
      /\ held'.consumed = Rooms!Unexpired(held.consumed)
      /\ held'.consumed \subseteq held.consumed
      /\ \A d \in held.consumed : d \in held'.consumed \/ d.maxTime <= held.clock
  BY <1>1, Forgotten
<1>3. CASE c \in Rooms!Unexpired(held.consumed)
  <2>1. Rooms!Single("signin") /\ told' = told BY <1>3 DEF Rooms!ReadChallenge
  <2>2. asking' = asking /\ about' = about /\ asks' \in Nat BY <2>1, SingleMoves DEF SigninInv
  <2> QED BY <1>2, <2>1, <2>2, SigninStill DEF SigninInv
<1>4. CASE c \notin Rooms!Unexpired(held.consumed)
  <2> DEFINE taken == \E p \in Rooms!Others(q) : asking[p].body.challenge = c
  <2>1. /\ Rooms!Ask(q, "signin", "verify", "account", None, body)
        /\ told' = [told EXCEPT !.raced = IF taken THEN @ \cup {c} ELSE @]
    BY <1>4 DEF Rooms!ReadChallenge
  <2>2. /\ Moves(q) /\ asks' = asks + 1
        /\ asking'[q] = [op |-> "verify", at |-> "account", copy |-> None, body |-> body]
    BY <2>1, AskMoves
  <2>3. GoodVisit(body) /\ c \in Challenge /\ c.maxTime \in Nat /\ held.clock \in Nat
    BY <1>1 DEF GoodVisit, Visit, SigninInv, Rooms!InTime, Challenge
  <2>4. body.challenge = c /\ body.at = held.clock OBVIOUS
  <2> HIDE DEF body
  <2>5. asking'[q].body = body /\ asking'[q].at = "account" /\ BelongsTo(asking'[q]) = "signin"
    BY <2>2 DEF BelongsTo
  <2>6. /\ DOMAIN told' = DOMAIN told /\ told'.sessions = told.sessions
        /\ told'.restarted = told.restarted /\ told.raced \subseteq told'.raced
        /\ taken => c \in told'.raced
    BY <2>1 DEF SigninInv
  <2>7. \A p \in Requests \ {q} : asking'[p] = asking[p] /\ (Waiting(p)' <=> Waiting(p))
    BY <2>2 DEF Moves, Waiting
  <2>9. \A d \in held.issued : Remembered(d) => Still(d) BY <1>2 DEF Remembered, SigninInv
  <2>10. \A v : Matters(v) => Counts(v) BY <2>6 DEF Counts
  <2>11. \A p \in Requests : Waiting(p)' =>
           /\ GoodVisit(asking'[p].body)
           /\ ~told.restarted /\ asking'[p].at = "user" => Still(asking'[p].body.challenge)
    BY <2>3, <2>5, <2>7, <2>9 DEF SigninInv, GoodVisit
  <2>12. \A i \in DOMAIN told.sessions :
           /\ GoodVisit(told.sessions[i])
           /\ ~told.restarted => Still(told.sessions[i].challenge)
    BY <2>9 DEF SigninInv, GoodVisit
  <2>13. \A p \in Requests \ {q} : Waiting(p) /\ asking[p].body.challenge = c => c \in told'.raced
    BY <2>6 DEF Waiting, Rooms!Others
  <2>14. \A p, r \in Requests :
           Waiting(p)' /\ Waiting(r)' /\ asking'[p].body.challenge = asking'[r].body.challenge
           /\ asking'[r].body.challenge \notin told'.raced => p = r
    <3>1. ASSUME NEW p \in Requests \ {q}, NEW r \in Requests \ {q}, Waiting(p), Waiting(r),
                 asking[p].body.challenge = asking[r].body.challenge,
                 asking[r].body.challenge \notin told.raced
          PROVE  p = r
      BY <3>1 DEF SigninInv
    <3> SUFFICES ASSUME NEW p \in Requests, NEW r \in Requests, Waiting(p)', Waiting(r)',
                        asking'[p].body.challenge = asking'[r].body.challenge,
                        asking'[r].body.challenge \notin told'.raced, p # r
                 PROVE  FALSE
      OBVIOUS
    <3>2. CASE p = q BY <2>4, <2>5, <2>7, <2>13, <3>2
    <3>3. CASE r = q BY <2>4, <2>5, <2>7, <2>13, <3>3
    <3>4. CASE p # q /\ r # q BY <2>6, <2>7, <3>1, <3>4
    <3> QED BY <3>2, <3>3, <3>4
  <2>15. \A v : Remembered(c) /\ v = body => ~Counts(v)
    BY <1>2, <1>4, <2>3, <2>4 DEF Remembered, Counts
  <2>16. ~told.restarted => \A i \in DOMAIN told.sessions, p \in Requests :
           Matters(told.sessions[i]) /\ Waiting(p)'
           /\ asking'[p].body.challenge = told.sessions[i].challenge => ~Matters(asking'[p].body)
    <3>1. ASSUME ~told.restarted, NEW i \in DOMAIN told.sessions, NEW p \in Requests,
                 Counts(told.sessions[i]), Waiting(p)',
                 asking'[p].body.challenge = told.sessions[i].challenge
          PROVE  ~Counts(asking'[p].body)
      <4>1. CASE p = q BY <2>4, <2>5, <2>15, <3>1, <4>1 DEF SigninInv
      <4>2. CASE p # q BY <2>7, <3>1, <4>2 DEF SigninInv
      <4> QED BY <4>1, <4>2
    <3>2. \A v : ~Counts(v) => ~Matters(v) BY <2>10
    <3> QED BY <2>6, <2>10, <3>1, <3>2 DEF Counts
  <2>17. ~told.restarted => \A i, j \in DOMAIN told.sessions :
           Matters(told.sessions[i]) /\ Matters(told.sessions[j])
           /\ told.sessions[i].challenge = told.sessions[j].challenge => i = j
    BY <2>6, <2>10 DEF SigninInv, Counts
  <2>18. AllBelong("signin")' BY <2>5, <2>7 DEF AllBelong
  <2>19. SigninInv'
    BY <1>2, <2>2, <2>6, <2>11, <2>12, <2>14, <2>16, <2>17
    DEF SigninInv, GoodVisit, Remembered, Counts
  <2> QED BY <2>2, <2>18, <2>19 DEF SigninStep, Moves
<1> QED BY <1>3, <1>4

\* A request that is answered leaves the others as they were.
LEMMA SigninFewer ==
  ASSUME SigninInv, held' = held, told' = told, asks' = asks,
         \A p \in Requests : Waiting(p)' => Waiting(p) /\ asking'[p] = asking[p]
  PROVE  SigninInv'
<1>1. \A p \in Requests : Waiting(p)' =>
         /\ GoodVisit(asking'[p].body)
         /\ ~told.restarted /\ asking'[p].at = "user" => Remembered(asking'[p].body.challenge)
  BY DEF SigninInv
<1>2. \A p, q \in Requests :
         Waiting(p)' /\ Waiting(q)' /\ asking'[p].body.challenge = asking'[q].body.challenge
         /\ asking'[q].body.challenge \notin told.raced => p = q
  BY DEF SigninInv
<1>3. ~told.restarted => \A i \in DOMAIN told.sessions, q \in Requests :
         Counts(told.sessions[i]) /\ Waiting(q)'
         /\ asking'[q].body.challenge = told.sessions[i].challenge => ~Counts(asking'[q].body)
  BY DEF SigninInv
<1>4. /\ \A i \in DOMAIN told.sessions :
           /\ GoodVisit(told.sessions[i])
           /\ ~told.restarted => Remembered(told.sessions[i].challenge)
      /\ ~told.restarted => \A i, j \in DOMAIN told.sessions :
           Counts(told.sessions[i]) /\ Counts(told.sessions[j])
           /\ told.sessions[i].challenge = told.sessions[j].challenge => i = j
  BY DEF SigninInv
<1> QED BY <1>1, <1>2, <1>3, <1>4 DEF SigninInv, GoodVisit, Remembered, Counts

LEMMA SigninVerifies ==
  ASSUME Slots, SigninInv, AllBelong("signin"), NEW q \in Requests, NEW good, Rooms!VerifySigned(q, good)
  PROVE  SigninStep
<1> DEFINE c == asking[q].body.challenge
<1>1. Rooms!At(q, "verify", "account") /\ told' = told BY DEF Rooms!VerifySigned
<1>2. Waiting(q) /\ GoodVisit(asking[q].body) BY <1>1 DEF Rooms!At, Rooms!Idle, Waiting, SigninInv
<1>3. CASE good
  <2>1. held' = [held EXCEPT !.consumed = @ \cup {c}] /\ Rooms!Goes(q, "user")
    BY <1>3 DEF Rooms!VerifySigned
  <2>2. /\ Moves(q) /\ asks' = asks /\ asking'[q].op = "verify" /\ asking'[q].at = "user"
        /\ asking'[q].body = asking[q].body
    BY <1>1, <2>1, GoesMoves DEF Rooms!At
  <2>3. /\ DOMAIN held' = DOMAIN held /\ held'.clock = held.clock /\ held'.issued = held.issued
        /\ held'.consumed = held.consumed \cup {c}
    BY <2>1 DEF SigninInv
  <2>4. \A p \in Requests : asking'[p].body = asking[p].body /\ (Waiting(p)' <=> Waiting(p))
    BY <1>2, <2>2 DEF Moves, Waiting, Rooms!Idle
  <2>5. \A d : Remembered(d) => Remembered(d)' BY <2>3 DEF Remembered
  <2>6. \A p \in Requests : Waiting(p)' =>
           /\ GoodVisit(asking'[p].body)
           /\ ~told.restarted /\ asking'[p].at = "user"
                => \/ asking'[p].body.challenge \in held'.consumed
                   \/ asking'[p].body.challenge.maxTime <= held'.clock
    <3> SUFFICES ASSUME NEW p \in Requests, Waiting(p)'
                 PROVE  /\ GoodVisit(asking'[p].body)
                        /\ ~told.restarted /\ asking'[p].at = "user"
                             => \/ asking'[p].body.challenge \in held'.consumed
                                \/ asking'[p].body.challenge.maxTime <= held'.clock
      OBVIOUS
    <3>1. CASE p = q BY <1>2, <2>2, <2>3, <3>1
    <3>2. CASE p # q BY <2>2, <2>3, <2>4, <3>2 DEF SigninInv, Remembered, Moves
    <3> QED BY <3>1, <3>2
  <2>7. c \in held.issued BY <1>2 DEF GoodVisit
  <2>8. AllBelong("signin")' BY <2>2 DEF AllBelong, BelongsTo, Moves
  <2> HIDE DEF c
  <2>9. \A i \in DOMAIN told.sessions :
           /\ GoodVisit(told.sessions[i])
           /\ ~told.restarted => \/ told.sessions[i].challenge \in held'.consumed
                                 \/ told.sessions[i].challenge.maxTime <= held'.clock
    BY <2>3 DEF SigninInv, Remembered
  <2>10. SigninInv'
    BY <1>1, <2>2, <2>3, <2>4, <2>6, <2>7, <2>9 DEF SigninInv, GoodVisit, Remembered, Counts
  <2> QED BY <2>2, <2>8, <2>10 DEF SigninStep, Moves
<1>4. CASE ~good
  <2>1. Rooms!Answers(q) /\ held' = held BY <1>4 DEF Rooms!VerifySigned
  <2>2. Moves(q) /\ asks' = asks /\ asking'[q] = Rooms!Idle BY <2>1, AnswersMoves
  <2>3. \A p \in Requests : Waiting(p)' => Waiting(p) /\ asking'[p] = asking[p]
    BY <2>2 DEF Moves, Waiting
  <2>4. AllBelong("signin")' BY <2>2 DEF AllBelong, Moves
  <2>5. SigninInv' BY <1>1, <2>1, <2>2, <2>3, SigninFewer
  <2> QED BY <2>2, <2>4, <2>5 DEF SigninStep, Moves
<1> QED BY <1>3, <1>4

LEMMA SigninOpens ==
  ASSUME Slots, SigninInv, AllBelong("signin"), NEW q \in Requests, NEW linked,
         Rooms!VerifyStellarChallenge(q, linked)
  PROVE  SigninStep
<1> DEFINE v == asking[q].body
<1>1. /\ Rooms!At(q, "verify", "user") /\ Rooms!Answers(q) /\ held' = held
      /\ told' = IF linked THEN [told EXCEPT !.sessions = Append(@, v)] ELSE told
  BY DEF Rooms!VerifyStellarChallenge
<1>2. /\ Waiting(q) /\ GoodVisit(v) /\ (~told.restarted => Remembered(v.challenge))
  BY <1>1 DEF Rooms!At, Rooms!Idle, Waiting, SigninInv
<1>3. Moves(q) /\ asks' = asks /\ asking'[q] = Rooms!Idle BY <1>1, AnswersMoves
<1>4. \A p \in Requests : Waiting(p)' => p # q /\ Waiting(p) /\ asking'[p] = asking[p]
  BY <1>3 DEF Moves, Waiting
<1>5. AllBelong("signin")' BY <1>3 DEF AllBelong, Moves
<1>6. \A p \in Requests : Waiting(p) /\ asking[p].body.challenge = v.challenge /\ Counts(v) => p = q
  BY <1>2 DEF SigninInv, Counts
<1>7. ~told.restarted => \A i \in DOMAIN told.sessions :
         Counts(told.sessions[i]) /\ told.sessions[i].challenge = v.challenge => ~Counts(v)
  BY <1>2 DEF SigninInv
<1> HIDE DEF v
<1>8. CASE ~linked
  <2>1. told' = told BY <1>1, <1>8
  <2>2. SigninInv' BY <1>1, <1>3, <1>4, <2>1, SigninFewer
  <2> QED BY <1>3, <1>5, <2>2 DEF SigninStep, Moves
<1>9. CASE linked
  <2> DEFINE n == Len(told.sessions)
  <2>1. /\ DOMAIN told' = DOMAIN told /\ told'.sessions = Append(told.sessions, v)
        /\ told'.raced = told.raced /\ told'.restarted = told.restarted
    BY <1>1, <1>9 DEF SigninInv
  <2>2. /\ told'.sessions \in Seq(Visit) /\ DOMAIN told'.sessions = 1..(n + 1)
        /\ DOMAIN told.sessions = 1..n /\ n \in Nat
        /\ told'.sessions[n + 1] = v /\ \A i \in 1..n : told'.sessions[i] = told.sessions[i]
    BY <1>2, <2>1 DEF SigninInv, GoodVisit
  <2>3. \A i \in DOMAIN told'.sessions :
           \/ i \in DOMAIN told.sessions /\ told'.sessions[i] = told.sessions[i]
           \/ i = n + 1 /\ told'.sessions[i] = v
    BY <2>2
  <2> HIDE DEF n
  <2>4. \A i \in DOMAIN told'.sessions :
           /\ GoodVisit(told'.sessions[i])
           /\ ~told.restarted => Remembered(told'.sessions[i].challenge)
    BY <1>2, <2>3 DEF SigninInv
  <2>5. ~told.restarted => \A i \in DOMAIN told'.sessions, p \in Requests :
           Counts(told'.sessions[i]) /\ Waiting(p)'
           /\ asking'[p].body.challenge = told'.sessions[i].challenge => ~Counts(asking'[p].body)
    <3>1. ASSUME ~told.restarted, NEW i \in DOMAIN told'.sessions, NEW p \in Requests,
                 Counts(told'.sessions[i]), Waiting(p)',
                 asking'[p].body.challenge = told'.sessions[i].challenge
          PROVE  ~Counts(asking'[p].body)
      <4>1. p # q /\ Waiting(p) /\ asking'[p] = asking[p] BY <1>4, <3>1
      <4>2. CASE told'.sessions[i] = v BY <1>6, <3>1, <4>1, <4>2
      <4>3. CASE i \in DOMAIN told.sessions /\ told'.sessions[i] = told.sessions[i]
        BY <3>1, <4>1, <4>3 DEF SigninInv
      <4> QED BY <2>3, <4>2, <4>3
    <3> QED BY <3>1
  <2>6. ~told.restarted => \A i, j \in DOMAIN told'.sessions :
           Counts(told'.sessions[i]) /\ Counts(told'.sessions[j])
           /\ told'.sessions[i].challenge = told'.sessions[j].challenge => i = j
    <3>1. ASSUME ~told.restarted, NEW i \in DOMAIN told'.sessions, NEW j \in DOMAIN told'.sessions,
                 Counts(told'.sessions[i]), Counts(told'.sessions[j]),
                 told'.sessions[i].challenge = told'.sessions[j].challenge
          PROVE  i = j
      <4>1. CASE /\ i \in DOMAIN told.sessions /\ told'.sessions[i] = told.sessions[i]
                 /\ j \in DOMAIN told.sessions /\ told'.sessions[j] = told.sessions[j]
        BY <3>1, <4>1 DEF SigninInv
      <4> QED BY <1>7, <2>3, <3>1, <4>1
    <3> QED BY <3>1
  <2>7. /\ \A p \in Requests : Waiting(p)' =>
              /\ GoodVisit(asking'[p].body)
              /\ ~told.restarted /\ asking'[p].at = "user" => Remembered(asking'[p].body.challenge)
        /\ \A p, r \in Requests :
              Waiting(p)' /\ Waiting(r)' /\ asking'[p].body.challenge = asking'[r].body.challenge
              /\ asking'[r].body.challenge \notin told.raced => p = r
    BY <1>4 DEF SigninInv
  <2>8. SigninInv'
    <3>1. held' = held /\ told'.raced = told.raced /\ told'.restarted = told.restarted
      BY <1>1, <2>1
    <3>2. /\ asks' \in Nat
          /\ DOMAIN held' = {"clock", "issued", "consumed"}
          /\ DOMAIN told' = {"sessions", "raced", "restarted"}
          /\ held'.clock \in Nat /\ held'.issued \subseteq Challenge
          /\ held'.consumed \subseteq held'.issued
      BY <1>3, <2>1, <3>1 DEF SigninInv
    <3>3. told'.sessions \in Seq(Visit) BY <2>2
    <3>4. \A p \in Requests : Waiting(p)' =>
            /\ GoodVisit(asking[p].body)'
            /\ ~told'.restarted /\ asking'[p].at = "user" => Remembered(asking[p].body.challenge)'
      BY <2>7, <3>1 DEF GoodVisit, Remembered
    <3>5. \A i \in DOMAIN told'.sessions :
            /\ GoodVisit(told.sessions[i])'
            /\ ~told'.restarted => Remembered(told.sessions[i].challenge)'
      BY <2>4, <3>1 DEF GoodVisit, Remembered
    <3>6. \A p, r \in Requests :
            Waiting(p)' /\ Waiting(r)' /\ asking'[p].body.challenge = asking'[r].body.challenge
            /\ asking'[r].body.challenge \notin told'.raced => p = r
      BY <2>7, <3>1
    <3>7. ~told'.restarted => \A i \in DOMAIN told'.sessions, p \in Requests :
            Counts(told.sessions[i])' /\ Waiting(p)'
            /\ asking'[p].body.challenge = told'.sessions[i].challenge => ~Counts(asking[p].body)'
      BY <2>5, <3>1 DEF Counts
    <3>8. ~told'.restarted => \A i, j \in DOMAIN told'.sessions :
            Counts(told.sessions[i])' /\ Counts(told.sessions[j])'
            /\ told'.sessions[i].challenge = told'.sessions[j].challenge => i = j
      BY <2>6, <3>1 DEF Counts
    <3> QED BY <3>2, <3>3, <3>4, <3>5, <3>6, <3>7, <3>8 DEF SigninInv
  <2> QED BY <1>3, <1>5, <2>8 DEF SigninStep, Moves
<1> QED BY <1>8, <1>9

LEMMA SigninRestarts ==
  ASSUME Slots, SigninInv, AllBelong("signin"), Rooms!ForgetChallenges
  PROVE  SigninStep
<1>1. /\ Rooms!Single("signin") /\ \A q \in Requests : ~Waiting(q)
      /\ held' = [held EXCEPT !.consumed = {}] /\ told' = [told EXCEPT !.restarted = TRUE]
  BY DEF Rooms!ForgetChallenges, Waiting
<1>2. asking' = asking /\ about' = about /\ asks' = asks + 1 /\ Slots' BY <1>1, SingleMoves
<1>3. /\ DOMAIN held' = DOMAIN held /\ held'.clock = held.clock /\ held'.issued = held.issued
      /\ held'.consumed = {}
  BY <1>1 DEF SigninInv
<1>4. /\ DOMAIN told' = DOMAIN told /\ told'.sessions = told.sessions /\ told'.raced = told.raced
      /\ told'.restarted
  BY <1>1 DEF SigninInv
<1>5. \A q \in Requests : ~Waiting(q)' BY <1>1, <1>2 DEF Waiting
<1>6. \A i \in DOMAIN told.sessions : GoodVisit(told.sessions[i])' BY <1>3, <1>4 DEF SigninInv, GoodVisit
<1>7. SigninInv' BY <1>2, <1>3, <1>4, <1>5, <1>6 DEF SigninInv
<1>8. AllBelong("signin")' BY <1>2 DEF AllBelong
<1> QED BY <1>2, <1>7, <1>8 DEF SigninStep

LEMMA SigninNext ==
  ASSUME Slots, SigninInv, AllBelong("signin"), Rooms!SigninNext
  PROVE  SigninStep
BY SigninPlain, SigninReads, SigninVerifies, SigninOpens, SigninRestarts DEF Rooms!SigninNext

LEMMA SigninGives == SigninInv => Rooms!SigninSound
<1> SUFFICES ASSUME SigninInv PROVE Rooms!SigninSound OBVIOUS
<1>1. \A i \in DOMAIN told.sessions :
         /\ told.sessions[i].challenge \in held.issued
         /\ told.sessions[i].at <= told.sessions[i].challenge.maxTime
         /\ ~told.restarted /\ held.clock < told.sessions[i].challenge.maxTime
              => told.sessions[i].challenge \in held.consumed
  BY DEF SigninInv, GoodVisit, Remembered, Challenge
<1>2. ~told.restarted => \A i, j \in DOMAIN told.sessions :
         told.sessions[i].challenge = told.sessions[j].challenge
         /\ told.sessions[i].challenge \notin told.raced
         /\ told.sessions[i].at < told.sessions[i].challenge.maxTime
         /\ told.sessions[j].at < told.sessions[j].challenge.maxTime => i = j
  <2>1. \A i, j \in DOMAIN told.sessions :
           told.sessions[i].challenge = told.sessions[j].challenge
           /\ told.sessions[i].challenge \notin told.raced
           /\ told.sessions[i].at < told.sessions[i].challenge.maxTime
           /\ told.sessions[j].at < told.sessions[j].challenge.maxTime
           => Counts(told.sessions[i]) /\ Counts(told.sessions[j])
    BY DEF Counts
  <2> QED BY <2>1 DEF SigninInv
<1> QED BY <1>1, <1>2 DEF Rooms!SigninSound, SigninInv

-----------------------------------------------------------------------------
(* The quiz of a lesson *)

\* The questions of one version of the quiz: one or two, with ids of their own.
Sheet(s) == \E k \in 1..2 :
    DOMAIN s = 1..k /\ \A i \in 1..k : /\ s[i].id[1] \in Nat /\ s[i].id[1] < asks
                                       /\ s[i].correct \in 0..1

\* Of the versions that were written so far no two have an id in common.
Printed(P) ==
    /\ \A s \in P : Sheet(s)
    /\ \A s, t \in P : \A i \in DOMAIN s, j \in DOMAIN t : s[i].id = t[j].id => s = t /\ i = j

Picks(picks, s) == DOMAIN picks \subseteq DOMAIN s /\ \A i \in DOMAIN picks : picks[i] \in 0..1

\* An attempt that was scored: the version its learner saw, and the one it was scored by.
Scored(a, P) ==
    /\ a.seen \in P /\ a.quiz.questions \in P /\ Picks(a.picks, a.seen)
    /\ a.score = Rooms!ScoreOf(a.quiz.questions, a.seen, a.picks)
    /\ a.passed => Rooms!Rounded(a.score, Len(a.quiz.questions)) >= a.quiz.threshold

RecordOf(a) ==
    [answers |-> {<<a.quiz.questions[i].id, p>> : i \in DOMAIN a.quiz.questions, p \in 0..1}
                 \cap {<<a.seen[i].id, a.picks[i]>> : i \in DOMAIN a.picks},
     score |-> a.score, passed |-> a.passed]

Completes(a) == a.passed /\ a.quiz.lesson

QuizRequest(q, P) ==
    \/ asking[q].at = "answer" /\ asking[q].copy \in P /\ Picks(asking[q].body, asking[q].copy)
    \/ asking[q].at = "create" /\ Scored(asking[q].body, P)
    \/ asking[q].at = "complete" /\ asking[q].body \in told.scored /\ Completes(asking[q].body)

QuizFits(P) ==
    /\ asks \in Nat
    /\ DOMAIN held = {"quiz", "attempts", "lesson"} /\ DOMAIN told = {"scored", "stopped"}
    /\ Printed(P)
    /\ held.quiz # None => /\ DOMAIN held.quiz = {"questions", "threshold", "lesson"}
                           /\ held.quiz.questions \in P
    /\ \A a \in told.scored : Scored(a, P) /\ RecordOf(a) \in held.attempts
    /\ \A q \in Requests : Waiting(q) => QuizRequest(q, P)
    /\ held.lesson => \E a \in told.scored : Completes(a)
    /\ ~told.stopped /\ (\E a \in told.scored : Completes(a)) =>
          held.lesson \/ \E q \in Requests : Waiting(q) /\ asking[q].at = "complete"

QuizInv == \E P : QuizFits(P)

QuizStep == Slots' /\ QuizInv' /\ AllBelong("quiz")' /\ about' = about

\* A new version has the number of the request that wrote it, and an older one has less.
LEMMA QuizPrints ==
  ASSUME asks \in Nat, NEW P, Printed(P), NEW draft \in Rooms!Drafts, Rooms!ValidQuestions(draft),
         NEW s, s = Rooms!Numbered(draft), asks' = asks + 1
  PROVE  Printed(P \cup {s})'
<1>1. \E k \in 1..2 : DOMAIN draft = 1..k /\ \A i \in 1..k : draft[i].correct \in 0..1
  <2>1. CASE draft = <<>> BY <2>1 DEF Rooms!ValidQuestions
  <2>2. CASE draft = <<Rooms!Question(1, 0)>> BY <2>2 DEF Rooms!ValidQuestions, Rooms!Question
  <2>3. CASE draft = <<Rooms!Question(2, 2)>> BY <2>3 DEF Rooms!ValidQuestions, Rooms!Question
  <2>4. CASE draft = <<Rooms!Question(2, 1)>> BY <2>4 DEF Rooms!Question
  <2>5. CASE draft = <<Rooms!Question(2, 0), Rooms!Question(2, 1)>> BY <2>5 DEF Rooms!Question
  <2> QED BY <2>1, <2>2, <2>3, <2>4, <2>5 DEF Rooms!Drafts
<1>2. PICK k \in 1..2 : DOMAIN draft = 1..k /\ \A i \in 1..k : draft[i].correct \in 0..1 BY <1>1
<1>3. DOMAIN s = 1..k /\ \A i \in 1..k : s[i].id = <<asks, i>> /\ s[i].correct \in 0..1
  BY <1>2 DEF Rooms!Numbered
<1>4. \A i \in 1..k : s[i].id[1] = asks /\ s[i].id[2] = i BY <1>3
<1>5. \A t \in P : \A i \in DOMAIN t : t[i].id[1] \in Nat /\ t[i].id[1] < asks
  BY DEF Printed, Sheet
<1>6. \A t \in P \cup {s} : \E n \in 1..2 :
        DOMAIN t = 1..n /\ \A i \in 1..n : /\ t[i].id[1] \in Nat /\ t[i].id[1] < asks'
                                           /\ t[i].correct \in 0..1
  <2>1. \E n \in 1..2 :
        DOMAIN s = 1..n /\ \A i \in 1..n : /\ s[i].id[1] \in Nat /\ s[i].id[1] < asks'
                                           /\ s[i].correct \in 0..1
    BY <1>3, <1>4
  <2>2. ASSUME NEW t \in P PROVE \E n \in 1..2 :
        DOMAIN t = 1..n /\ \A i \in 1..n : /\ t[i].id[1] \in Nat /\ t[i].id[1] < asks'
                                           /\ t[i].correct \in 0..1
    <3>1. PICK n \in 1..2 :
        DOMAIN t = 1..n /\ \A i \in 1..n : /\ t[i].id[1] \in Nat /\ t[i].id[1] < asks
                                           /\ t[i].correct \in 0..1
      BY DEF Printed, Sheet
    <3> QED BY <3>1
  <2> QED BY <2>1, <2>2
<1>7. \A u, t \in P \cup {s} : \A i \in DOMAIN u, j \in DOMAIN t : u[i].id = t[j].id => u = t /\ i = j
  <2>1. \A i, j \in DOMAIN s : s[i].id = s[j].id => i = j BY <1>3, <1>4
  <2>2. \A t \in P : \A i \in DOMAIN s, j \in DOMAIN t : s[i].id # t[j].id BY <1>3, <1>4, <1>5
  <2>3. \A u, t \in P : \A i \in DOMAIN u, j \in DOMAIN t : u[i].id = t[j].id => u = t /\ i = j
    BY DEF Printed
  <2> QED BY <2>1, <2>2, <2>3
<1>8. \A Q : (/\ \A t \in Q : \E n \in 1..2 :
                   DOMAIN t = 1..n /\ \A i \in 1..n : /\ t[i].id[1] \in Nat /\ t[i].id[1] < asks'
                                                      /\ t[i].correct \in 0..1
              /\ \A u, t \in Q : \A i \in DOMAIN u, j \in DOMAIN t : u[i].id = t[j].id => u = t /\ i = j)
             => Printed(Q)'
  BY DEF Printed, Sheet
<1> QED BY <1>6, <1>7, <1>8

\* A later request changes no version.
LEMMA StillPrinted ==
  ASSUME asks \in Nat, NEW P, Printed(P), asks' \in {asks, asks + 1} PROVE Printed(P)'
<1>1. \A t \in P : \E n \in 1..2 :
        DOMAIN t = 1..n /\ \A i \in 1..n : /\ t[i].id[1] \in Nat /\ t[i].id[1] < asks'
                                           /\ t[i].correct \in 0..1
  <2>1. SUFFICES ASSUME NEW t \in P PROVE \E n \in 1..2 :
        DOMAIN t = 1..n /\ \A i \in 1..n : /\ t[i].id[1] \in Nat /\ t[i].id[1] < asks'
                                           /\ t[i].correct \in 0..1
    OBVIOUS
  <2>2. PICK n \in 1..2 :
        DOMAIN t = 1..n /\ \A i \in 1..n : /\ t[i].id[1] \in Nat /\ t[i].id[1] < asks
                                           /\ t[i].correct \in 0..1
    BY DEF Printed, Sheet
  <2> QED BY <2>2
<1> QED BY <1>1 DEF Printed, Sheet

\* More versions, and more attempts, keep what is so of an attempt and of a request.
LEMMA StillScored ==
  ASSUME NEW P, NEW Q, P \subseteq Q, NEW a, Scored(a, P) PROVE Scored(a, Q)
BY DEF Scored

LEMMA StillAsked ==
  ASSUME NEW P, NEW Q, P \subseteq Q, NEW q \in Requests, QuizRequest(q, P),
         asking'[q] = asking[q], told.scored \subseteq told'.scored
  PROVE  QuizRequest(q, Q)'
BY DEF QuizRequest, Scored

\* The author writes, changes or deletes the quiz.
LEMMA QuizEdits ==
  ASSUME Slots, NEW P, QuizFits(P), AllBelong("quiz"), NEW who, NEW draft \in Rooms!Drafts, NEW threshold,
         \/ \E lesson \in BOOLEAN : Rooms!CreateQuiz(who, draft, threshold, lesson)
         \/ Rooms!UpdateQuiz(who, draft, threshold)
         \/ Rooms!DeleteQuiz(who)
  PROVE  QuizStep
<1>1. Rooms!Single("quiz") /\ told' = told
  BY DEF Rooms!CreateQuiz, Rooms!UpdateQuiz, Rooms!DeleteQuiz
<1>2. asking' = asking /\ about' = about /\ asks' = asks + 1 /\ Slots' BY <1>1, SingleMoves
<1>3. PICK s : s = Rooms!Numbered(draft) OBVIOUS
<1>4. PICK Q : /\ P \subseteq Q /\ Printed(Q)' /\ DOMAIN held' = DOMAIN held
               /\ held'.attempts = held.attempts /\ held'.lesson = held.lesson
               /\ held'.quiz # None => /\ DOMAIN held'.quiz = {"questions", "threshold", "lesson"}
                                       /\ held'.quiz.questions \in Q
  <2>1. Rooms!ValidQuestions(draft) => Printed(P \cup {s})' BY <1>2, <1>3, QuizPrints DEF QuizFits
  <2>2. Printed(P)' BY <1>2, StillPrinted DEF QuizFits
  <2>3. ASSUME NEW lesson \in BOOLEAN, Rooms!CreateQuiz(who, draft, threshold, lesson)
        PROVE  /\ P \subseteq P \cup {s} /\ Printed(P \cup {s})' /\ DOMAIN held' = DOMAIN held
               /\ held'.attempts = held.attempts /\ held'.lesson = held.lesson
               /\ held'.quiz # None => /\ DOMAIN held'.quiz = {"questions", "threshold", "lesson"}
                                       /\ held'.quiz.questions \in P \cup {s}
    <3>1. /\ Rooms!ValidQuestions(draft)
          /\ held' = [held EXCEPT !.quiz = [questions |-> s, threshold |-> threshold, lesson |-> lesson]]
      BY <1>3, <2>3 DEF Rooms!CreateQuiz
    <3> QED BY <2>1, <3>1 DEF QuizFits
  <2>4. CASE Rooms!UpdateQuiz(who, draft, threshold)
    <3> DEFINE quiz == [held.quiz EXCEPT !.questions = IF draft = <<>> THEN @ ELSE s,
                                         !.threshold = IF threshold = None THEN @ ELSE threshold]
    <3>1. /\ held.quiz # None /\ (draft # <<>> => Rooms!ValidQuestions(draft))
          /\ held' = [held EXCEPT !.quiz.questions = IF draft = <<>> THEN @ ELSE s,
                                  !.quiz.threshold = IF threshold = None THEN @ ELSE threshold]
      BY <1>3, <2>4 DEF Rooms!UpdateQuiz
    <3>2. /\ DOMAIN quiz = {"questions", "threshold", "lesson"}
          /\ quiz.questions = IF draft = <<>> THEN held.quiz.questions ELSE s
      BY <3>1 DEF QuizFits
    <3>3. held' = [held EXCEPT !.quiz = quiz] BY <3>1 DEF QuizFits
    <3> HIDE DEF quiz
    <3>4. /\ DOMAIN held' = DOMAIN held /\ held'.quiz = quiz
          /\ held'.attempts = held.attempts /\ held'.lesson = held.lesson
      BY <3>3 DEF QuizFits
    <3>5. CASE draft = <<>>
      <4> WITNESS P
      <4> QED BY <2>2, <3>1, <3>2, <3>4, <3>5 DEF QuizFits
    <3>6. CASE draft # <<>>
      <4> WITNESS P \cup {s}
      <4> QED BY <2>1, <3>1, <3>2, <3>4, <3>6
    <3> QED BY <3>5, <3>6
  <2>5. CASE Rooms!DeleteQuiz(who)
    <3>1. held' = [held EXCEPT !.quiz = None] BY <2>5 DEF Rooms!DeleteQuiz
    <3>2. /\ DOMAIN held' = DOMAIN held /\ held'.quiz = None
          /\ held'.attempts = held.attempts /\ held'.lesson = held.lesson
      BY <3>1 DEF QuizFits
    <3> WITNESS P
    <3> QED BY <2>2, <3>2
  <2> QED BY <2>3, <2>4, <2>5
<1>5. \A a \in told.scored : Scored(a, Q) /\ RecordOf(a) \in held.attempts
  BY <1>4, StillScored DEF QuizFits
<1>6. \A q \in Requests : Waiting(q)' => Waiting(q) /\ QuizRequest(q, Q)'
  BY <1>1, <1>2, <1>4, StillAsked DEF QuizFits, Waiting
<1>7. QuizFits(Q)'
  BY <1>1, <1>2, <1>4, <1>5, <1>6 DEF QuizFits, Scored, RecordOf, Completes, Waiting
<1>8. AllBelong("quiz")' BY <1>2 DEF AllBelong
<1> QED BY <1>2, <1>7, <1>8 DEF QuizStep, QuizInv

\* A learner takes the quiz, and what she answers is scored.
LEMMA QuizTakes ==
  ASSUME Slots, NEW P, QuizFits(P), AllBelong("quiz"), NEW q \in Requests,
         Rooms!TakeQuiz(q) \/ Rooms!SubmitAttempt(q)
  PROVE  QuizStep
<1>1. CASE Rooms!TakeQuiz(q)
  <2>1. held' = held /\ told' = told /\ held.quiz # None BY <1>1 DEF Rooms!TakeQuiz
  <2> DEFINE sheet == held.quiz.questions
  <2>2. PICK picks : /\ Picks(picks, sheet)
                     /\ Rooms!Ask(q, "quiz", "attempt", "answer", sheet, picks)
    <3>1. PICK answered \in SUBSET DOMAIN sheet : \E picks \in [answered -> 0..1] :
            Rooms!Ask(q, "quiz", "attempt", "answer", sheet, picks)
      BY <1>1 DEF Rooms!TakeQuiz
    <3> QED BY <3>1 DEF Picks
  <2>3. sheet \in P /\ Picks(picks, sheet) BY <2>1, <2>2 DEF QuizFits
  <2> HIDE DEF sheet
  <2>4. /\ Moves(q) /\ asks' = asks + 1 /\ asking[q] = Rooms!Idle
        /\ asking'[q] = [op |-> "attempt", at |-> "answer", copy |-> sheet, body |-> picks]
    BY <2>2, AskMoves
  <2>5. /\ BelongsTo(asking'[q]) = "quiz" /\ asking'[q].at = "answer" /\ asking'[q].copy = sheet
        /\ asking'[q].body = picks /\ ~Waiting(q)
    BY <2>4 DEF BelongsTo, Waiting
  <2>6. QuizRequest(q, P)' BY <2>3, <2>5 DEF QuizRequest
  <2>7. \A p \in Requests \ {q} : Waiting(p)' => Waiting(p) /\ QuizRequest(p, P)'
    BY <2>1, <2>4, StillAsked DEF QuizFits, Waiting, Moves
  <2>8. Printed(P)' BY <2>4, StillPrinted DEF QuizFits
  <2>9. \A p \in Requests : Waiting(p) => Waiting(p)' /\ asking'[p] = asking[p]
    BY <2>4, <2>5 DEF Moves, Waiting
  <2>10. QuizFits(P)'
    BY <2>1, <2>4, <2>6, <2>7, <2>8, <2>9 DEF QuizFits, Scored, RecordOf, Completes
  <2>11. AllBelong("quiz")' BY <2>4, <2>5 DEF AllBelong, Moves
  <2> QED BY <2>4, <2>10, <2>11 DEF QuizStep, QuizInv, Moves
<1>2. CASE Rooms!SubmitAttempt(q)
  <2> DEFINE seen == asking[q].copy
             picks == asking[q].body
             quiz == held.quiz
             score == Rooms!ScoreOf(quiz.questions, seen, picks)
             a == [seen |-> seen, picks |-> picks, quiz |-> quiz, score |-> score,
                   passed |-> Rooms!Rounded(score, Rooms!Len(quiz.questions)) >= quiz.threshold]
  <2>1. /\ Rooms!At(q, "attempt", "answer") /\ quiz # None
        /\ asking' = [asking EXCEPT ![q].at = "create", ![q].body = a]
        /\ about' = about /\ held' = held /\ told' = told /\ asks' = asks
    BY <1>2 DEF Rooms!SubmitAttempt
  <2>2. Waiting(q) BY <2>1 DEF Rooms!At, Rooms!Idle, Waiting
  <2>3. seen \in P /\ Picks(picks, seen) BY <2>1, <2>2 DEF QuizFits, QuizRequest, Rooms!At
  <2>4. Scored(a, P)
    <3>1. quiz.questions \in P BY <2>1 DEF QuizFits
    <3>2. a.passed => Rooms!Rounded(score, Len(quiz.questions)) >= quiz.threshold OBVIOUS
    <3>3. a.seen = seen /\ a.picks = picks /\ a.quiz = quiz /\ a.score = score OBVIOUS
    <3> HIDE DEF a
    <3> QED BY <2>3, <3>1, <3>2, <3>3 DEF Scored
  <2> HIDE DEF a
  <2>5. /\ Slots' /\ asking'[q].op = "attempt" /\ asking'[q].at = "create" /\ asking'[q].body = a
        /\ \A p \in Requests \ {q} : asking'[p] = asking[p]
    BY <2>1 DEF Slots, Slot, Rooms!At
  <2>6. BelongsTo(asking'[q]) = "quiz" /\ QuizRequest(q, P)'
    BY <2>4, <2>5 DEF BelongsTo, QuizRequest, Scored
  <2>7. \A p \in Requests \ {q} : Waiting(p)' => Waiting(p) /\ QuizRequest(p, P)'
    BY <2>1, <2>5, StillAsked DEF QuizFits, Waiting
  <2>8. \A p \in Requests : Waiting(p) /\ asking[p].at = "complete" =>
          Waiting(p)' /\ asking'[p].at = "complete"
    BY <2>1, <2>5 DEF Waiting, Rooms!At
  <2>9. Printed(P)' BY <2>1, StillPrinted DEF QuizFits
  <2>10. \A p \in Requests : Waiting(p)' => QuizRequest(p, P)' BY <2>6, <2>7
  <2>11. ~told.stopped /\ (\E x \in told.scored : Completes(x)) =>
            held.lesson \/ \E p \in Requests : Waiting(p)' /\ asking'[p].at = "complete"
    BY <2>8 DEF QuizFits
  <2>12. /\ \A x \in told.scored : Scored(x, P) /\ RecordOf(x) \in held.attempts
         /\ held.lesson => \E x \in told.scored : Completes(x)
    BY DEF QuizFits
  <2>13. /\ asks \in Nat
         /\ DOMAIN held = {"quiz", "attempts", "lesson"} /\ DOMAIN told = {"scored", "stopped"}
         /\ held.quiz # None => /\ DOMAIN held.quiz = {"questions", "threshold", "lesson"}
                                /\ held.quiz.questions \in P
    BY DEF QuizFits
  <2>14. held' = held /\ told' = told /\ asks' = asks BY <2>1
  <2> HIDE DEF score, quiz, picks, seen
  <2>15. QuizFits(P)'
    BY <2>9, <2>10, <2>11, <2>12, <2>13, <2>14 DEF QuizFits, Scored, RecordOf, Completes
  <2>16. AllBelong("quiz")' BY <2>5, <2>6 DEF AllBelong
  <2> QED BY <2>1, <2>5, <2>15, <2>16 DEF QuizStep, QuizInv
<1> QED BY <1>1, <1>2

\* The attempt is recorded, the lesson completed, or the server stops between the two.
LEMMA QuizRecords ==
  ASSUME Slots, NEW P, QuizFits(P), AllBelong("quiz"), NEW q \in Requests, Rooms!CreateAttempt(q)
  PROVE  QuizStep
<1> DEFINE a == asking[q].body
           record == RecordOf(a)
<1>1. /\ Rooms!At(q, "attempt", "create")
      /\ held' = [held EXCEPT !.attempts = @ \cup {record}]
      /\ told' = [told EXCEPT !.scored = @ \cup {a}]
      /\ IF a.passed /\ a.quiz.lesson THEN Rooms!Goes(q, "complete") ELSE Rooms!Answers(q)
  BY DEF Rooms!CreateAttempt, RecordOf
<1>2. Waiting(q) /\ Scored(a, P)
  <2>1. Waiting(q) BY <1>1 DEF Rooms!At, Rooms!Idle, Waiting
  <2> QED BY <1>1, <2>1 DEF QuizFits, QuizRequest, Rooms!At
<1>3. /\ Moves(q) /\ asks' = asks
      /\ Completes(a) => /\ asking'[q].op = "attempt" /\ asking'[q].at = "complete"
                         /\ asking'[q].body = a
      /\ ~Completes(a) => asking'[q] = Rooms!Idle
  BY <1>1, GoesMoves, AnswersMoves DEF Completes, Rooms!At
<1> HIDE DEF a
<1>4. /\ DOMAIN held' = DOMAIN held /\ held'.quiz = held.quiz /\ held'.lesson = held.lesson
      /\ held'.attempts = held.attempts \cup {record}
  BY <1>1 DEF QuizFits
<1>5. /\ DOMAIN told' = DOMAIN told /\ told'.scored = told.scored \cup {a}
      /\ told'.stopped = told.stopped
  BY <1>1 DEF QuizFits
<1>6. \A p \in Requests \ {q} : Waiting(p)' => Waiting(p) /\ QuizRequest(p, P)'
  BY <1>3, <1>5, StillAsked DEF QuizFits, Waiting, Moves
<1>7. Completes(a) => Waiting(q)' /\ BelongsTo(asking'[q]) = "quiz"
  BY <1>3 DEF Waiting, BelongsTo, Rooms!Idle
<1>8. Waiting(q)' => QuizRequest(q, P)'
  <2>1. Waiting(q)' => Completes(a) BY <1>3 DEF Waiting
  <2> QED BY <1>3, <1>5, <2>1 DEF QuizRequest, Completes
<1>9. \A x \in told'.scored : Scored(x, P) /\ RecordOf(x) \in held'.attempts
  BY <1>2, <1>4, <1>5 DEF QuizFits
<1>10. Printed(P)' BY <1>3, StillPrinted DEF QuizFits
<1>11. ~told.stopped /\ (\E x \in told'.scored : Completes(x)) =>
          held.lesson \/ \E p \in Requests : Waiting(p)' /\ asking'[p].at = "complete"
  <2>1. ASSUME NEW p \in Requests, Waiting(p), asking[p].at = "complete"
        PROVE  Waiting(p)' /\ asking'[p].at = "complete"
    <3>1. p # q BY <1>1, <2>1 DEF Rooms!At
    <3> QED BY <1>3, <2>1, <3>1 DEF Moves, Waiting
  <2> QED BY <1>3, <1>5, <1>7, <2>1 DEF QuizFits
<1>12. held.lesson => \E x \in told'.scored : Completes(x) BY <1>5 DEF QuizFits
<1>13. \A p \in Requests : Waiting(p)' => QuizRequest(p, P)' BY <1>6, <1>8
<1>14. /\ asks \in Nat
       /\ DOMAIN held = {"quiz", "attempts", "lesson"} /\ DOMAIN told = {"scored", "stopped"}
       /\ held.quiz # None => /\ DOMAIN held.quiz = {"questions", "threshold", "lesson"}
                              /\ held.quiz.questions \in P
  BY DEF QuizFits
<1> HIDE DEF record
<1>15. QuizFits(P)'
  BY <1>3, <1>4, <1>5, <1>13, <1>14, <1>9, <1>10, <1>11, <1>12 DEF QuizFits, Scored, RecordOf, Completes
<1>16. AllBelong("quiz")' BY <1>3, <1>7 DEF AllBelong, Moves
<1> QED BY <1>3, <1>15, <1>16 DEF QuizStep, QuizInv, Moves

LEMMA QuizEnds ==
  ASSUME Slots, NEW P, QuizFits(P), AllBelong("quiz"), NEW q \in Requests,
         Rooms!QuizIsGone(q) \/ Rooms!CompleteLesson(q) \/ Rooms!CompletionStops(q)
  PROVE  QuizStep
<1>1. Rooms!Answers(q) BY DEF Rooms!QuizIsGone, Rooms!CompleteLesson, Rooms!CompletionStops
<1>2. Moves(q) /\ asks' = asks /\ asking'[q] = Rooms!Idle BY <1>1, AnswersMoves
<1>3. /\ DOMAIN held' = DOMAIN held /\ held'.quiz = held.quiz /\ held'.attempts = held.attempts
      /\ DOMAIN told' = DOMAIN told /\ told'.scored = told.scored
      /\ \/ /\ held'.lesson = held.lesson /\ told'.stopped = told.stopped
            /\ asking[q].at = "answer"
         \/ /\ Rooms!At(q, "attempt", "complete") /\ (held'.lesson \/ told'.stopped)
            /\ held'.lesson \in {TRUE, held.lesson}
  BY DEF QuizFits, Rooms!QuizIsGone, Rooms!CompleteLesson, Rooms!CompletionStops, Rooms!At
<1>4. \A p \in Requests : Waiting(p)' => Waiting(p) /\ QuizRequest(p, P)'
  BY <1>2, <1>3, StillAsked DEF QuizFits, Waiting, Moves
<1>5. Printed(P)' BY <1>2, StillPrinted DEF QuizFits
<1>6. held'.lesson => \E x \in told.scored : Completes(x)
  <2>1. ASSUME Rooms!At(q, "attempt", "complete") PROVE \E x \in told.scored : Completes(x)
    <3>1. Waiting(q) BY <2>1 DEF Rooms!At, Rooms!Idle, Waiting
    <3> QED BY <2>1, <3>1 DEF QuizFits, QuizRequest, Rooms!At
  <2> QED BY <1>3, <2>1 DEF QuizFits
<1>7. ~told'.stopped /\ (\E x \in told.scored : Completes(x)) =>
          held'.lesson \/ \E p \in Requests : Waiting(p)' /\ asking'[p].at = "complete"
  <2>1. ASSUME asking[q].at = "answer", NEW p \in Requests, Waiting(p), asking[p].at = "complete"
        PROVE  Waiting(p)' /\ asking'[p].at = "complete"
    <3>1. p # q BY <2>1
    <3> QED BY <1>2, <2>1, <3>1 DEF Moves, Waiting
  <2> QED BY <1>3, <2>1 DEF QuizFits
<1>8. QuizFits(P)'
  BY <1>2, <1>3, <1>4, <1>5, <1>6, <1>7 DEF QuizFits, Scored, RecordOf, Completes
<1>9. AllBelong("quiz")' BY <1>2 DEF AllBelong, Moves
<1> QED BY <1>2, <1>8, <1>9 DEF QuizStep, QuizInv, Moves

LEMMA QuizNext ==
  ASSUME Slots, QuizInv, AllBelong("quiz"), Rooms!QuizNext
  PROVE  QuizStep
<1>1. PICK P : QuizFits(P) BY DEF QuizInv
<1>2. ASSUME NEW who, NEW draft \in Rooms!Drafts,
             \/ \E threshold \in {50, 100, 101, None}, lesson \in BOOLEAN :
                   Rooms!CreateQuiz(who, draft, threshold, lesson)
             \/ \E threshold \in {100, 101, None} : Rooms!UpdateQuiz(who, draft, threshold)
             \/ Rooms!DeleteQuiz(who)
      PROVE  QuizStep
  BY <1>1, <1>2, QuizEdits
<1>3. ASSUME NEW q \in Requests,
             \/ Rooms!TakeQuiz(q) \/ Rooms!SubmitAttempt(q) \/ Rooms!QuizIsGone(q)
             \/ Rooms!CreateAttempt(q) \/ Rooms!CompleteLesson(q) \/ Rooms!CompletionStops(q)
      PROVE  QuizStep
  BY <1>1, <1>3, QuizTakes, QuizRecords, QuizEnds
<1> QED BY <1>2, <1>3 DEF Rooms!QuizNext

\* An answer counts for the question its learner saw, and for no other.
LEMMA QuizScore ==
  ASSUME NEW P, Printed(P), NEW s \in P, NEW t \in P, NEW picks, Picks(picks, s)
  PROVE  /\ \A i : i \in DOMAIN t /\ Rooms!PickedFor(s, picks, t[i].id) = {t[i].correct}
                   <=> s = t /\ i \in DOMAIN picks /\ picks[i] = t[i].correct
         /\ \A i \in DOMAIN picks : s[i] \in Rooms!Range(t) <=> s = t
<1>1. \A i \in DOMAIN s, j \in DOMAIN t : s[i].id = t[j].id => s = t /\ i = j BY DEF Printed
<1>2. DOMAIN picks \subseteq DOMAIN s BY DEF Picks
<1>3. CASE s = t
  <2>1. \A i \in DOMAIN t : Rooms!PickedFor(s, picks, t[i].id)
                             = IF i \in DOMAIN picks THEN {picks[i]} ELSE {}
    <3>1. SUFFICES ASSUME NEW i \in DOMAIN t
                   PROVE  Rooms!PickedFor(s, picks, t[i].id) = IF i \in DOMAIN picks THEN {picks[i]} ELSE {}
      OBVIOUS
    <3>2. {j \in DOMAIN picks : s[j].id = t[i].id} = {i} \cap DOMAIN picks BY <1>1, <1>2, <1>3
    <3>3. Rooms!PickedFor(s, picks, t[i].id) = {picks[j] : j \in {i} \cap DOMAIN picks}
      BY <3>2 DEF Rooms!PickedFor
    <3> QED BY <3>3
  <2>2. \A i \in DOMAIN t : Rooms!PickedFor(s, picks, t[i].id) = {t[i].correct}
                             <=> i \in DOMAIN picks /\ picks[i] = t[i].correct
    BY <2>1
  <2>3. \A i \in DOMAIN picks : s[i] \in Rooms!Range(t) BY <1>2, <1>3 DEF Rooms!Range
  <2> QED BY <1>2, <1>3, <2>2, <2>3
<1>4. CASE s # t
  <2>1. \A i \in DOMAIN t : Rooms!PickedFor(s, picks, t[i].id) = {}
    BY <1>1, <1>2, <1>4 DEF Rooms!PickedFor
  <2>2. \A i \in DOMAIN picks : s[i] \notin Rooms!Range(t) BY <1>1, <1>2, <1>4 DEF Rooms!Range
  <2> QED BY <1>4, <2>1, <2>2
<1> QED BY <1>3, <1>4

\* Who reaches a hundred of one question or two answered everything right.
LEMMA QuizHundred ==
  ASSUME NEW P, Printed(P), NEW a, Scored(a, P), Rooms!Rounded(a.score, Len(a.quiz.questions)) >= 100
  PROVE  a.score = Len(a.quiz.questions)
<1> DEFINE t == a.quiz.questions
           right == {i \in DOMAIN t : Rooms!PickedFor(a.seen, a.picks, t[i].id) = {t[i].correct}}
<1>1. PICK k \in 1..2 : DOMAIN t = 1..k BY DEF Scored, Printed, Sheet
<1>2. a.score = Cardinality(right) BY DEF Scored, Rooms!ScoreOf, Rooms!Cardinality, Cardinality
<1>3. right \subseteq 1..k BY <1>1
<1> HIDE DEF right
<1>4. a.score \in Nat /\ a.score <= k
  <2>1. IsFiniteSet(1..k) /\ Cardinality(1..k) = k
    <3>1. 1 \in Int /\ k \in Int /\ ~(1 > k) /\ k - 1 + 1 = k OBVIOUS
    <3> HIDE DEF t
    <3> QED BY <3>1, FS_Interval
  <2>2. IsFiniteSet(right) /\ Cardinality(right) <= k BY <1>3, <2>1, FS_Subset
  <2> QED BY <1>2, <2>2, FS_CardinalityType
<1>5. Len(t) = k BY <1>1
<1> HIDE DEF t
<1>6. (200 * a.score + k) \div (2 * k) >= 100 BY <1>5 DEF Rooms!Rounded, t
<1>7. CASE k = 1 BY <1>4, <1>5, <1>6, <1>7 DEF t
<1>8. CASE k = 2 BY <1>4, <1>5, <1>6, <1>8 DEF t
<1> QED BY <1>7, <1>8

\* A review of questions that are as they were finds what was scored.
LEMMA QuizReview ==
  ASSUME NEW P, Printed(P), NEW a, Scored(a, P), held.quiz.questions = a.quiz.questions
  PROVE  Rooms!Cardinality(Rooms!JudgedRight(RecordOf(a))) = a.score
<1> DEFINE s == a.seen
           t == a.quiz.questions
           picks == a.picks
           right == {i \in DOMAIN t : Rooms!PickedFor(s, picks, t[i].id) = {t[i].correct}}
           answers == {<<t[i].id, p>> : i \in DOMAIN t, p \in 0..1}
                      \cap {<<s[i].id, picks[i]>> : i \in DOMAIN picks}
           found == {x \in answers : \E i \in DOMAIN t : t[i].id = x[1] /\ t[i].correct = x[2]}
           key == [i \in right |-> <<t[i].id, t[i].correct>>]
<1>1. found = Rooms!JudgedRight(RecordOf(a)) BY DEF Rooms!JudgedRight, RecordOf
<1>2. a.score = Cardinality(right) BY DEF Scored, Rooms!ScoreOf, Rooms!Cardinality, Cardinality
<1>3. PICK k \in 1..2 : DOMAIN t = 1..k /\ \A i \in 1..k : t[i].correct \in 0..1
  BY DEF Scored, Printed, Sheet
<1>4. /\ s \in P /\ t \in P /\ Picks(picks, s)
      /\ \A i \in DOMAIN s, j \in DOMAIN t : s[i].id = t[j].id => s = t /\ i = j
      /\ \A i \in DOMAIN t, j \in DOMAIN t : t[i].id = t[j].id => i = j
  BY DEF Scored, Printed
<1> HIDE DEF t, s, picks
<1>5. \A i : i \in right <=> s = t /\ i \in DOMAIN picks /\ picks[i] = t[i].correct
  <2>1. s \in P /\ t \in P /\ Picks(picks, s) BY <1>4
  <2>2. \A i : i \in DOMAIN t /\ Rooms!PickedFor(s, picks, t[i].id) = {t[i].correct}
                <=> s = t /\ i \in DOMAIN picks /\ picks[i] = t[i].correct
    BY <2>1, QuizScore, SMTT(30)
  <2> QED BY <2>2
<1>6. right \subseteq 1..k BY <1>3
<1>7. ASSUME NEW i \in right PROVE key[i] \in found
  <2>1. s = t /\ i \in DOMAIN picks /\ picks[i] = t[i].correct /\ i \in DOMAIN t BY <1>5
  <2>2. key[i] = <<t[i].id, t[i].correct>> /\ t[i].correct \in 0..1 BY <1>3, <2>1
  <2>3. <<t[i].id, t[i].correct>> \in answers BY <2>1, <2>2
  <2> QED BY <2>1, <2>2, <2>3
<1>8. ASSUME NEW x \in found PROVE \E i \in right : key[i] = x
  <2>1. PICK j \in DOMAIN t, p \in 0..1 : x = <<t[j].id, p>> OBVIOUS
  <2>2. PICK i \in DOMAIN picks : x = <<s[i].id, picks[i]>> OBVIOUS
  <2>3. PICK n \in DOMAIN t : t[n].id = x[1] /\ t[n].correct = x[2] OBVIOUS
  <2>4. i \in DOMAIN s BY <1>4 DEF Picks
  <2>5. s[i].id = t[n].id /\ picks[i] = t[n].correct BY <2>2, <2>3
  <2>6. s = t /\ i = n BY <1>4, <2>4, <2>5
  <2>7. i \in right /\ x = <<t[i].id, t[i].correct>> BY <1>5, <2>2, <2>5, <2>6
  <2> QED BY <2>7
<1>9. ASSUME NEW i \in right, NEW j \in right, key[i] = key[j] PROVE i = j
  <2>1. i \in DOMAIN t /\ j \in DOMAIN t /\ t[i].id = t[j].id BY <1>9
  <2> QED BY <1>4, <2>1
<1> HIDE DEF right, found
<1>10. key \in [right -> found] BY <1>7
<1> HIDE DEF key
<1>11. key \in Bijection(right, found)
  BY <1>8, <1>9, <1>10 DEF Bijection, Injection, Surjection, IsInjective
<1>12. IsFiniteSet(right)
  <2>1. IsFiniteSet(1..k) BY FS_Interval
  <2> QED BY <1>6, <2>1, FS_Subset
<1>13. Cardinality(found) = Cardinality(right)
  <2>1. ExistsBijection(right, found) BY <1>11 DEF ExistsBijection
  <2> QED BY <1>12, <2>1, FS_Bijection
<1> QED BY <1>1, <1>2, <1>13 DEF Rooms!Cardinality, Cardinality

LEMMA QuizGives == QuizInv => Rooms!QuizKept
<1> SUFFICES ASSUME QuizInv PROVE Rooms!QuizKept OBVIOUS
<1>1. PICK P : QuizFits(P) BY DEF QuizInv
<1>2. ASSUME NEW a \in told.scored
      PROVE  /\ a.score = Rooms!Cardinality({i \in DOMAIN a.picks :
                         /\ a.seen[i] \in Rooms!Range(a.quiz.questions)
                         /\ a.picks[i] = a.seen[i].correct})
             /\ a.passed /\ a.quiz.threshold = 100 => a.score = Rooms!Len(a.quiz.questions)
             /\ held.quiz # None /\ held.quiz.questions = a.quiz.questions =>
                  \E x \in held.attempts :
                    x.score = a.score /\ x.passed = a.passed
                    /\ Rooms!Cardinality(Rooms!JudgedRight(x)) = a.score
  <2>1. Scored(a, P) /\ RecordOf(a) \in held.attempts /\ Printed(P) BY <1>1 DEF QuizFits
  <2>2. a.seen \in P /\ a.quiz.questions \in P /\ Picks(a.picks, a.seen) BY <2>1 DEF Scored
  <2>3. a.score = Rooms!Cardinality({i \in DOMAIN a.picks :
                         /\ a.seen[i] \in Rooms!Range(a.quiz.questions)
                         /\ a.picks[i] = a.seen[i].correct})
    <3> DEFINE s == a.seen
               t == a.quiz.questions
               picks == a.picks
               right == {i \in DOMAIN t : Rooms!PickedFor(s, picks, t[i].id) = {t[i].correct}}
               hers == {i \in DOMAIN picks : s[i] \in Rooms!Range(t) /\ picks[i] = s[i].correct}
    <3>1. a.score = Rooms!Cardinality(right) BY <2>1 DEF Scored, Rooms!ScoreOf
    <3>2. s \in P /\ t \in P /\ Picks(picks, s) BY <2>2
    <3> HIDE DEF s, t, picks
    <3>3. \A i : i \in right <=> s = t /\ i \in DOMAIN picks /\ picks[i] = t[i].correct
      BY <2>1, <3>2, QuizScore
    <3>4. \A i : i \in hers <=> s = t /\ i \in DOMAIN picks /\ picks[i] = t[i].correct
      <4>1. \A i \in DOMAIN picks : s[i] \in Rooms!Range(t) <=> s = t BY <2>1, <3>2, QuizScore
      <4> QED BY <4>1
    <3> HIDE DEF right, hers
    <3>5. right = hers BY <3>3, <3>4
    <3> QED BY <3>1, <3>5 DEF s, t, picks, hers
  <2>4. a.passed /\ a.quiz.threshold = 100 => a.score = Rooms!Len(a.quiz.questions)
    BY <2>1, QuizHundred DEF Scored
  <2>5. RecordOf(a).score = a.score /\ RecordOf(a).passed = a.passed BY DEF RecordOf
  <2> QED BY <2>1, <2>3, <2>4, <2>5, QuizReview
<1>3. held.lesson => \E a \in told.scored : a.passed /\ a.quiz.lesson
  BY <1>1 DEF QuizFits, Completes
<1>4. Rooms!Resting /\ ~told.stopped /\ (\E a \in told.scored : a.passed /\ a.quiz.lesson) => held.lesson
  BY <1>1 DEF QuizFits, Completes, Rooms!Resting, Waiting
<1> QED BY <1>2, <1>3, <1>4 DEF Rooms!QuizKept

-----------------------------------------------------------------------------
(* All of them *)

RoomsInv ==
    /\ Slots /\ AllBelong(about)
    /\ \/ about = "space" /\ SpaceInv
       \/ about = "recording" /\ RecordingInv
       \/ about = "reel" /\ Rooms!ReelKept
       \/ about = "quiz" /\ QuizInv
       \/ about = "preferences" /\ PreferencesInv
       \/ about = "profile" /\ ProfileInv
       \/ about = "upload" /\ UploadInv
       \/ about = "bundle" /\ BundleInv
       \/ about = "signin" /\ SigninInv
       \/ about = "sockets" /\ SocketsInv

\* A request between two of its steps tells what the behaviour is about.
LEMMA AtBelongs ==
  ASSUME AllBelong(about), NEW q \in Requests, NEW op, asking[q].op = op, op # "none"
  PROVE  BelongsTo(asking[q]) = about
BY DEF AllBelong, Rooms!Idle

LEMMA AboutSpace == ASSUME AllBelong(about), Rooms!SpaceNext PROVE about = "space"
<1>1. ASSUME NEW q \in Requests, Rooms!UpdateSpace(q) PROVE about = "space"
  <2>1. asking[q].op = "update" /\ asking[q].at = "write" BY <1>1 DEF Rooms!UpdateSpace, Rooms!At
  <2> QED BY <2>1, AtBelongs DEF BelongsTo
<1> QED BY <1>1 DEF Rooms!SpaceNext, Rooms!AddTo, Rooms!RemoveFrom, Rooms!DeleteSpace, Rooms!Single

LEMMA AboutRecording == ASSUME AllBelong(about), Rooms!RecordingNext PROVE about = "recording"
<1>1. ASSUME NEW q \in Requests, asking[q].op \in {"finalise", "delete"} PROVE about = "recording"
  <2>1. BelongsTo(asking[q]) = about BY <1>1, AtBelongs
  <2> QED BY <1>1, <2>1 DEF BelongsTo
<1> QED BY <1>1 DEF Rooms!RecordingNext, Rooms!StartRecording, Rooms!Single, Rooms!FinaliseRecording,
                    Rooms!DeleteRecording, Rooms!DeleteStops, Rooms!DestroyAsset, Rooms!At

LEMMA AboutReel == ASSUME AllBelong(about), Rooms!ReelNext PROVE about = "reel"
<1>1. ASSUME NEW q \in Requests, asking[q].op = "comment" PROVE about = "reel"
  <2>1. BelongsTo(asking[q]) = about BY <1>1, AtBelongs
  <2> QED BY <1>1, <2>1 DEF BelongsTo
<1> QED BY <1>1 DEF Rooms!ReelNext, Rooms!AddComment, Rooms!Increment, Rooms!Register, Rooms!Single,
                    Rooms!AddReelComment, Rooms!At

LEMMA AboutQuiz == ASSUME AllBelong(about), Rooms!QuizNext PROVE about = "quiz"
<1>1. ASSUME NEW q \in Requests, asking[q].op = "attempt" PROVE about = "quiz"
  <2>1. BelongsTo(asking[q]) = about BY <1>1, AtBelongs
  <2> QED BY <1>1, <2>1 DEF BelongsTo
<1>2. ASSUME NEW q \in Requests,
             \/ Rooms!TakeQuiz(q) \/ Rooms!SubmitAttempt(q) \/ Rooms!QuizIsGone(q)
             \/ Rooms!CreateAttempt(q) \/ Rooms!CompleteLesson(q) \/ Rooms!CompletionStops(q)
      PROVE  about = "quiz"
  BY <1>1, <1>2 DEF Rooms!TakeQuiz, Rooms!SubmitAttempt, Rooms!QuizIsGone, Rooms!CreateAttempt,
                    Rooms!CompleteLesson, Rooms!CompletionStops, Rooms!At
<1> QED BY <1>2 DEF Rooms!QuizNext

LEMMA AboutPreferences == ASSUME AllBelong(about), Rooms!PreferencesNext PROVE about = "preferences"
<1>1. ASSUME NEW q \in Requests, asking[q].op \in {"get", "set"} PROVE about = "preferences"
  <2>1. BelongsTo(asking[q]) = about BY <1>1, AtBelongs
  <2> QED BY <1>1, <2>1 DEF BelongsTo
<1> QED BY <1>1 DEF Rooms!PreferencesNext, Rooms!CreatePreferences, Rooms!SyncLanguage, Rooms!At

LEMMA AboutProfile == ASSUME AllBelong(about), Rooms!ProfileNext PROVE about = "profile"
<1>1. ASSUME NEW q \in Requests, asking[q].op = "profile" PROVE about = "profile"
  <2>1. BelongsTo(asking[q]) = about BY <1>1, AtBelongs
  <2> QED BY <1>1, <2>1 DEF BelongsTo
<1> QED BY <1>1 DEF Rooms!ProfileNext, Rooms!BeginProfile, Rooms!Ask, Rooms!AvatarUploaded,
                    Rooms!WriteProfile, Rooms!ProfileFails, Rooms!At

LEMMA AboutUpload == ASSUME AllBelong(about), Rooms!UploadNext PROVE about = "upload"
<1>1. ASSUME NEW q \in Requests, asking[q].op = "create", asking[q].at \in {"upload", "validate"}
      PROVE  about = "upload"
  <2>1. BelongsTo(asking[q]) = about BY <1>1, AtBelongs
  <2> QED BY <1>1, <2>1 DEF BelongsTo
<1> QED BY <1>1 DEF Rooms!UploadNext, Rooms!VideoUploaded, Rooms!CreateReel, Rooms!UploadRefused, Rooms!At

LEMMA AboutBundle == ASSUME AllBelong(about), Rooms!BundleNext PROVE about = "bundle"
<1>1. ASSUME NEW q \in Requests, \/ asking[q].op = "create" /\ asking[q].at = "create"
                                 \/ asking[q].op = "update" /\ asking[q].at = "save"
      PROVE  about = "bundle"
  <2>1. BelongsTo(asking[q]) = about BY <1>1, AtBelongs
  <2> QED BY <1>1, <2>1 DEF BelongsTo
<1> QED BY <1>1 DEF Rooms!BundleNext, Rooms!CreateBundle, Rooms!UpdateBundle, Rooms!At

LEMMA AboutSignin == ASSUME AllBelong(about), Rooms!SigninNext PROVE about = "signin"
<1>1. ASSUME NEW q \in Requests, asking[q].op = "verify" PROVE about = "signin"
  <2>1. BelongsTo(asking[q]) = about BY <1>1, AtBelongs
  <2> QED BY <1>1, <2>1 DEF BelongsTo
<1> QED BY <1>1 DEF Rooms!SigninNext, Rooms!Elapse, Rooms!ForgetChallenges, Rooms!GetStellarChallenge,
                    Rooms!Single, Rooms!VerifySigned, Rooms!VerifyStellarChallenge, Rooms!At

LEMMA AboutSockets == ASSUME AllBelong(about), Rooms!SocketsNext PROVE about = "sockets"
<1>1. ASSUME NEW q \in Requests, asking[q].op = "subscribe" PROVE about = "sockets"
  <2>1. BelongsTo(asking[q]) = about BY <1>1, AtBelongs
  <2> QED BY <1>1, <2>1 DEF BelongsTo
<1> QED BY <1>1 DEF Rooms!SocketsNext, Rooms!Disconnect, Rooms!Connect, Rooms!Unsubscribe, Rooms!Single,
                    Rooms!JoinPayment, Rooms!At

LEMMA RoomsNext == RoomsInv /\ (Rooms!Next \/ UNCHANGED roomVars) => RoomsInv'
<1> SUFFICES ASSUME RoomsInv, Rooms!Next \/ UNCHANGED roomVars PROVE RoomsInv' OBVIOUS
<1>1. Slots /\ AllBelong(about) BY DEF RoomsInv
<1>2. CASE Rooms!SpaceNext
  <2>1. about = "space" BY <1>1, <1>2, AboutSpace
  <2>2. SpaceInv BY <2>1 DEF RoomsInv
  <2>3. Slots' /\ SpaceInv' /\ AllBelong("space")' /\ about' = "space"
    BY <1>1, <1>2, <2>1, <2>2, SpaceNext
  <2> QED BY <2>3 DEF RoomsInv, AllBelong
<1>3. CASE Rooms!RecordingNext
  <2>1. about = "recording" BY <1>1, <1>3, AboutRecording
  <2>2. RecordingInv BY <2>1 DEF RoomsInv
  <2>3. Slots' /\ RecordingInv' /\ AllBelong("recording")' /\ about' = "recording"
    BY <1>1, <1>3, <2>1, <2>2, RecordingNext DEF RecordingStep
  <2> QED BY <2>3 DEF RoomsInv, AllBelong
<1>4. CASE Rooms!ReelNext
  <2>1. about = "reel" BY <1>1, <1>4, AboutReel
  <2>2. Rooms!ReelKept BY <2>1 DEF RoomsInv
  <2>3. Slots' /\ Rooms!ReelKept' /\ AllBelong("reel")' /\ about' = "reel"
    BY <1>1, <1>4, <2>1, <2>2, ReelNext
  <2> QED BY <2>3 DEF RoomsInv, AllBelong
<1>5. CASE Rooms!QuizNext
  <2>1. about = "quiz" BY <1>1, <1>5, AboutQuiz
  <2>2. QuizInv BY <2>1 DEF RoomsInv
  <2>3. Slots' /\ QuizInv' /\ AllBelong("quiz")' /\ about' = "quiz"
    BY <1>1, <1>5, <2>1, <2>2, QuizNext DEF QuizStep
  <2> QED BY <2>3 DEF RoomsInv, AllBelong
<1>6. CASE Rooms!PreferencesNext
  <2>1. about = "preferences" BY <1>1, <1>6, AboutPreferences
  <2>2. PreferencesInv BY <2>1 DEF RoomsInv
  <2>3. Slots' /\ PreferencesInv' /\ AllBelong("preferences")' /\ about' = "preferences"
    BY <1>1, <1>6, <2>1, <2>2, PreferencesNext DEF PreferencesStep
  <2> QED BY <2>3 DEF RoomsInv, AllBelong
<1>7. CASE Rooms!ProfileNext
  <2>1. about = "profile" BY <1>1, <1>7, AboutProfile
  <2>2. ProfileInv BY <2>1 DEF RoomsInv
  <2>3. Slots' /\ ProfileInv' /\ AllBelong("profile")' /\ about' = "profile"
    BY <1>1, <1>7, <2>1, <2>2, ProfileNext
  <2> QED BY <2>3 DEF RoomsInv, AllBelong
<1>8. CASE Rooms!UploadNext
  <2>1. about = "upload" BY <1>1, <1>8, AboutUpload
  <2>2. UploadInv BY <2>1 DEF RoomsInv
  <2>3. Slots' /\ UploadInv' /\ AllBelong("upload")' /\ about' = "upload"
    BY <1>1, <1>8, <2>1, <2>2, UploadNext DEF UploadStep
  <2> QED BY <2>3 DEF RoomsInv, AllBelong
<1>9. CASE Rooms!BundleNext
  <2>1. about = "bundle" BY <1>1, <1>9, AboutBundle
  <2>2. BundleInv BY <2>1 DEF RoomsInv
  <2>3. Slots' /\ BundleInv' /\ AllBelong("bundle")' /\ about' = "bundle"
    BY <1>1, <1>9, <2>1, <2>2, BundleNext DEF BundleStep
  <2> QED BY <2>3 DEF RoomsInv, AllBelong
<1>10. CASE Rooms!SigninNext
  <2>1. about = "signin" BY <1>1, <1>10, AboutSignin
  <2>2. SigninInv BY <2>1 DEF RoomsInv
  <2>3. Slots' /\ SigninInv' /\ AllBelong("signin")' /\ about' = "signin"
    BY <1>1, <1>10, <2>1, <2>2, SigninNext DEF SigninStep
  <2> QED BY <2>3 DEF RoomsInv, AllBelong
<1>11. CASE Rooms!SocketsNext
  <2>1. about = "sockets" BY <1>1, <1>11, AboutSockets
  <2>2. SocketsInv BY <2>1 DEF RoomsInv
  <2>3. Slots' /\ SocketsInv' /\ AllBelong("sockets")' /\ about' = "sockets"
    BY <1>1, <1>11, <2>1, <2>2, SocketsNext DEF SocketsStep
  <2> QED BY <2>3 DEF RoomsInv, AllBelong
<1>12. CASE UNCHANGED roomVars
  <2>1. held' = held /\ told' = told /\ asking' = asking /\ asks' = asks /\ about' = about
    BY <1>12 DEF roomVars
  <2>2. Slots' /\ AllBelong(about)' BY <1>1, <2>1 DEF Slots, AllBelong
  <2>3. SpaceInv => SpaceInv' BY <2>1 DEF SpaceInv
  <2>4. RecordingInv => RecordingInv' BY <2>1 DEF RecordingInv, Deleting
  <2>5. Rooms!ReelKept => Rooms!ReelKept' BY <2>1 DEF Rooms!ReelKept
  <2>6. QuizInv => QuizInv'
    <3>1. ASSUME NEW P, QuizFits(P) PROVE QuizFits(P)'
      BY <2>1, <3>1 DEF QuizFits, Printed, Sheet, Scored, RecordOf, Completes, QuizRequest, Waiting
    <3> QED BY <3>1 DEF QuizInv
  <2>7. PreferencesInv => PreferencesInv' BY <2>1 DEF PreferencesInv, LanguageFollows, Syncing
  <2>8. ProfileInv => ProfileInv' BY <2>1 DEF ProfileInv, Rooms!ProfileKept
  <2>9. UploadInv => UploadInv' BY <2>1 DEF UploadInv, Waiting
  <2>10. BundleInv => BundleInv' BY <2>1 DEF BundleInv, Waiting
  <2>11. SigninInv => SigninInv'
    BY <2>1 DEF SigninInv, Waiting, GoodVisit, Remembered, Counts
  <2>12. SocketsInv => SocketsInv' BY <2>1 DEF SocketsInv, SocketDoc
  <2> QED BY <2>1, <2>2, <2>3, <2>4, <2>5, <2>6, <2>7, <2>8, <2>9, <2>10, <2>11, <2>12 DEF RoomsInv
<1> QED BY <1>2, <1>3, <1>4, <1>5, <1>6, <1>7, <1>8, <1>9, <1>10, <1>11, <1>12 DEF Rooms!Next

LEMMA RoomsInit == Rooms!Init => RoomsInv
<1> SUFFICES ASSUME Rooms!Init PROVE RoomsInv OBVIOUS
<1>1. asks = 0 /\ DOMAIN asking = Requests /\ \A q \in Requests : asking[q] = Rooms!Idle
  BY DEF Rooms!Init
<1>2. /\ Slots /\ AllBelong(about) /\ \A q \in Requests : ~Waiting(q)
  BY <1>1 DEF Slots, Slot, AllBelong, Waiting, Rooms!Idle
<1>3. CASE about = "space" /\ held = Rooms!NewSpace
           /\ told = [members |-> {}, waiting |-> {}, overwrote |-> FALSE]
  <2>1. held \in SpaceDoc BY <1>3 DEF Rooms!NewSpace, SpaceDoc, Rooms!Statuses
  <2>2. told \in SpaceHistory BY <1>3 DEF SpaceHistory
  <2>3. \A l \in Rooms!Lists : told[l] = On(held[l]) BY <1>3 DEF Rooms!Lists, On, Rooms!NewSpace
  <2> QED BY <1>1, <1>2, <1>3, <2>1, <2>2, <2>3 DEF RoomsInv, SpaceInv
<1>4. CASE about = "recording" /\ held = [doc |-> Rooms!NoRecording, assets |-> {1, 2}]
           /\ told = [begun |-> FALSE, stopped |-> FALSE, deleted |-> FALSE]
  <2>1. RecordingInv BY <1>1, <1>4 DEF RecordingInv, RecordingDoc, Rooms!NoRecording
  <2> QED BY <1>2, <1>4, <2>1 DEF RoomsInv
<1>5. CASE about = "reel" /\ held = told
  BY <1>2, <1>5 DEF RoomsInv, Rooms!ReelKept
<1>6. CASE about = "quiz" /\ held = [quiz |-> None, attempts |-> {}, lesson |-> FALSE]
           /\ told = [scored |-> {}, stopped |-> FALSE]
  <2>1. QuizFits({}) BY <1>1, <1>2, <1>6 DEF QuizFits, Printed
  <2> QED BY <1>2, <1>6, <2>1 DEF RoomsInv, QuizInv
<1>7. CASE about = "preferences" /\ held = [stored |-> None, language |-> 0]
           /\ told = [last |-> Rooms!Defaults, drifted |-> FALSE]
  <2>1. LanguageFollows
    BY <1>1, <1>7, DefaultsChosen DEF LanguageFollows, Syncing, Rooms!Idle, Rooms!Defaults
  <2>2. PreferencesInv BY <1>7, <2>1, DefaultsChosen DEF PreferencesInv
  <2> QED BY <1>2, <1>7, <2>2 DEF RoomsInv
<1>8. CASE about = "profile" /\ held = [f \in Rooms!Fields |-> FALSE] /\ told = held
  BY <1>2, <1>8 DEF RoomsInv, ProfileInv, Rooms!ProfileKept
<1>9. CASE about = "upload" /\ held = [store |-> {0}, reels |-> {0}]
           /\ told = [made |-> {}, refused |-> {}]
  <2>1. UploadInv BY <1>1, <1>2, <1>9 DEF UploadInv
  <2> QED BY <1>2, <1>9, <2>1 DEF RoomsInv
<1>10. CASE about = "bundle" /\ held = [prices |-> [c \in Rooms!Courses |-> c], bundle |-> None]
            /\ told = [drifted |-> FALSE]
  <2>1. BundleInv BY <1>2, <1>10 DEF BundleInv
  <2> QED BY <1>2, <1>10, <2>1 DEF RoomsInv
<1>11. CASE about = "signin" /\ held = [clock |-> 0, issued |-> {}, consumed |-> {}]
            /\ told = [sessions |-> <<>>, raced |-> {}, restarted |-> FALSE]
  <2>1. SigninInv BY <1>1, <1>2, <1>11 DEF SigninInv
  <2> QED BY <1>2, <1>11, <2>1 DEF RoomsInv
<1>12. CASE about = "sockets"
            /\ held = [user |-> [s \in Rooms!Sockets |-> None], rooms |-> [s \in Rooms!Sockets |-> {}]]
  <2>1. SocketDoc BY <1>12, RoomsAssumption DEF SocketDoc, Joined
  <2>2. SocketsInv BY <1>1, <2>1 DEF SocketsInv
  <2> QED BY <1>2, <1>12, <2>2 DEF RoomsInv
<1> QED BY <1>3, <1>4, <1>5, <1>6, <1>7, <1>8, <1>9, <1>10, <1>11, <1>12 DEF Rooms!Init

LEMMA RoomsGives == RoomsInv => Rooms!RoomsSound
BY SpaceGives, RecordingGives, QuizGives, PreferencesGives, UploadGives, BundleGives, SigninGives,
   SocketsGives DEF RoomsInv, ProfileInv, Rooms!RoomsSound

\* What requests did to a document is what is kept of it, for any number of requests and
\* of people: nobody is lost from a list of a space, a recording that is shown has its
\* asset, no comment or view of a reel disappears, an attempt at a quiz counts for the
\* questions its learner saw, preferences and profile are as they were last accepted, a
\* reel has a video of its own, a bundle says what it saves, a challenge signs in once,
\* and a socket is told what concerns its user and nothing else; each but for the races
\* and failures the property names.
THEOREM RoomsKept == AccountsSpec => []RoomsSound
<1>1. AccountsInit => RoomsInv BY RoomsInit DEF AccountsInit
<1>2. /\ RoomsInv
      /\ [AccountsNext]_<<vars, ipVars, cacheVars, educatorVars, refundVars, roomVars, part>>
      => RoomsInv'
  BY RoomsNext DEF AccountsNext
<1>3. RoomsInv => RoomsSound BY RoomsGives DEF RoomsSound
<1> QED BY <1>1, <1>2, <1>3, PTL DEF AccountsSpec
=============================================================================
