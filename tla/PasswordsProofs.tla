--------------------------- MODULE PasswordsProofs ---------------------------
(***************************************************************************)
(* The properties of Passwords for any set of concurrent requests.  The    *)
(* inductive invariant adds to the properties what makes them so:          *)
(*   TokenInv     a reset token that someone redeemed has no row any more, *)
(*                and the request that could store it again has ended;     *)
(*   DeleteInv    of the requests past DeleteUser there is only one, since *)
(*                the user exists before that step and never after it;     *)
(*   NameInv      the password in force is none of the replaced ones, and  *)
(*                a request that has yet to set its own has not set it;    *)
(*   HoldingInv   a request that may still insert a session holds the      *)
(*                password in force, or is recorded as overtaken.          *)
(***************************************************************************)
EXTENDS Passwords, TLAPS

TokenInv ==
    \A t \in Requests :
       /\ verification[t] # "none" => pc[t] = "done"
       /\ redeemed[t] # {} => pc[t] = "done" /\ verification[t] = "none"
       /\ pc[t] \in {"redeem", "consume"} => token[t] \in Requests

Deleters == {r \in Requests : pc[r] \in {"sweep", "consume", "after"}} \cup deletedBy

DeleteInv ==
    /\ Deleters # {} => ~alive
    /\ \A q, r \in Deleters : q = r

SignsIn(r) == kind[r] \in {"signIn", "change", "changeAndRevoke"}

NotYetSet == {"idle", "account", "issue", "redeem", "lookup", "update", "insert", "verify",
              "token", "session"}

NameInv ==
    /\ revoked \subseteq replaced
    /\ password \notin replaced
    /\ \A r \in Requests : pc[r] \in NotYetSet => password # r /\ r \notin replaced

HoldingInv ==
    \A r \in Requests :
       /\ pc[r] = "create" => SignsIn(r)
       /\ pc[r] = "remove" => ~SignsIn(r)
       /\ SignsIn(r) /\ pc[r] \in {"update", "revoke", "create"} =>
             /\ seen[r] \in Names
             /\ seen[r] = password \/ r \in overtaken
       /\ SignsIn(r) /\ pc[r] \notin {"idle", "done"} /\ ~alive => r \in overtaken

IInv ==
    /\ TypeOK /\ TokenInv /\ ResetTokenRedeemedOnce /\ DeleteInv /\ NameInv
    /\ HoldingInv /\ SessionsOutliveOnlyByOverlap

USE NameAssumption DEF Names

-----------------------------------------------------------------------------
LEMMA InitIInv == Init => IInv
BY DEF Init, IInv, TypeOK, TokenInv, ResetTokenRedeemedOnce, DeleteInv, Deleters, NameInv,
       NotYetSet, HoldingInv, SignsIn, SessionsOutliveOnlyByOverlap, Kinds, Stages, Config

LEMMA TypeStep == TypeOK /\ TokenInv /\ [Next]_vars => TypeOK'
<1> SUFFICES ASSUME TypeOK, TokenInv, [Next]_vars PROVE TypeOK'
  OBVIOUS
<1> USE DEF TypeOK, Kinds, Stages, Config, Go, Stop, Proceed, rows, request, ghosts
<1>1. CASE UNCHANGED vars
  BY <1>1 DEF vars
<1>2. ASSUME NEW s \in Names, SignOut(s) PROVE TypeOK'
  BY <1>2 DEF SignOut
<1>3. ASSUME NEW r \in Requests, SignInStep(r) PROVE TypeOK'
  BY <1>3 DEF SignInStep, SignInFindUser, SignInVerify, VerifyPassword, CreateSession
<1>4. ASSUME NEW r \in Requests, ResetStep(r) PROVE TypeOK'
  BY <1>4 DEF ResetStep, RequestReset, Issue, ResetFindToken, ResetDeleteToken, ResetFindAccount,
              ResetCreateAccount, ResetUpdatePassword, DeleteAllSessions, RevokeWith, NoSessions,
              SetPassword, AfterReset, Holding, TokenInv
<1>5. ASSUME NEW r \in Requests, ChangeStep(r) PROVE TypeOK'
  BY <1>5 DEF ChangeStep, Authenticate, ChangeVerify, ChangeUpdatePassword, SetFindAccount,
              SetCreateAccount, VerifyPassword, SetPassword, Holding
<1>6. ASSUME NEW r \in Requests, DeleteStep(r) PROVE TypeOK'
  <2>1. CASE DeleteVerify(r)
    BY <2>1 DEF DeleteVerify, VerifyPassword
  <2>2. CASE DeleteFresh(r) \/ RequestDelete(r) \/ DeleteFindUser(r) \/ DeleteFindSession(r)
    BY <2>2 DEF DeleteFresh, RequestDelete, DeleteFindUser, DeleteFindSession
  <2>3. CASE \E t \in Requests : DeleteFindToken(r, t)
    BY <2>3 DEF DeleteFindToken
  <2>4. CASE DeleteUser(r)
    BY <2>4 DEF DeleteUser, RemoveUser, Active, NoSessions
  <2>5. CASE DeleteSweep(r)
    BY <2>5 DEF DeleteSweep, NoSessions
  <2>6. CASE DeleteConsumeToken(r)
    BY <2>6 DEF DeleteConsumeToken, TokenInv
  <2>7. CASE AfterDelete(r)
    BY <2>7 DEF AfterDelete
  <2> QED
    BY <1>6, <2>1, <2>2, <2>3, <2>4, <2>5, <2>6, <2>7 DEF DeleteStep
<1>7. ASSUME NEW r \in Requests, End(r) \/ Expire(r) PROVE TypeOK'
  BY <1>7 DEF End, Expire
<1> QED
  BY <1>1, <1>2, <1>3, <1>4, <1>5, <1>6, <1>7 DEF Next

LEMMA TokenStep == TypeOK /\ TokenInv /\ [Next]_vars => TokenInv'
<1> SUFFICES ASSUME TypeOK, TokenInv, [Next]_vars PROVE TokenInv'
  OBVIOUS
<1> USE DEF TokenInv, TypeOK, Go, Stop, Proceed, rows, request, ghosts
<1>1. CASE UNCHANGED vars
  BY <1>1 DEF vars
<1>2. ASSUME NEW s \in Names, SignOut(s) PROVE TokenInv'
  BY <1>2 DEF SignOut
<1>3. ASSUME NEW r \in Requests, SignInStep(r) PROVE TokenInv'
  <2>1. CASE SignInFindUser(r)
    BY <2>1 DEF SignInFindUser
  <2>2. CASE SignInVerify(r)
    BY <2>2 DEF SignInVerify, VerifyPassword
  <2>3. CASE CreateSession(r)
    BY <2>3 DEF CreateSession
  <2> QED
    BY <1>3, <2>1, <2>2, <2>3 DEF SignInStep
<1>4. ASSUME NEW r \in Requests, ResetStep(r) PROVE TokenInv'
  <2>1. CASE RequestReset(r) \/ ResetFindAccount(r)
    BY <2>1 DEF RequestReset, ResetFindAccount
  <2>2. CASE Issue(r)
    BY <2>2 DEF Issue
  <2>3. CASE \E t \in Requests : ResetFindToken(r, t)
    BY <2>3 DEF ResetFindToken
  <2>4. CASE ResetDeleteToken(r)
    BY <2>4 DEF ResetDeleteToken
  <2>5. CASE ResetCreateAccount(r) \/ ResetUpdatePassword(r)
    BY <2>5 DEF ResetCreateAccount, ResetUpdatePassword, SetPassword, AfterReset
  <2>6. CASE DeleteAllSessions(r)
    BY <2>6 DEF DeleteAllSessions, RevokeWith, NoSessions
  <2> QED
    BY <1>4, <2>1, <2>2, <2>3, <2>4, <2>5, <2>6 DEF ResetStep
<1>5. ASSUME NEW r \in Requests, ChangeStep(r) PROVE TokenInv'
  <2>1. CASE Authenticate(r) \/ SetFindAccount(r)
    BY <2>1 DEF Authenticate, SetFindAccount, requireSession
  <2>2. CASE ChangeVerify(r)
    BY <2>2 DEF ChangeVerify, VerifyPassword
  <2>3. CASE ChangeUpdatePassword(r) \/ SetCreateAccount(r)
    BY <2>3 DEF ChangeUpdatePassword, SetCreateAccount, SetPassword
  <2> QED
    BY <1>5, <2>1, <2>2, <2>3 DEF ChangeStep
<1>6. ASSUME NEW r \in Requests, DeleteStep(r) PROVE TokenInv'
  <2>1. CASE DeleteVerify(r)
    BY <2>1 DEF DeleteVerify, VerifyPassword
  <2>2. CASE DeleteFresh(r)
    BY <2>2 DEF DeleteFresh
  <2>3. CASE RequestDelete(r)
    BY <2>3 DEF RequestDelete
  <2>4. CASE DeleteFindUser(r) \/ DeleteFindSession(r)
    BY <2>4 DEF DeleteFindUser, DeleteFindSession
  <2>5. CASE \E t \in Requests : DeleteFindToken(r, t)
    BY <2>5 DEF DeleteFindToken
  <2>6. CASE DeleteUser(r)
    BY <2>6 DEF DeleteUser, RemoveUser, NoSessions
  <2>7. CASE DeleteSweep(r)
    BY <2>7 DEF DeleteSweep, NoSessions
  <2>8. CASE DeleteConsumeToken(r)
    BY <2>8 DEF DeleteConsumeToken
  <2>9. CASE AfterDelete(r)
    BY <2>9 DEF AfterDelete
  <2> QED
    BY <1>6, <2>1, <2>2, <2>3, <2>4, <2>5, <2>6, <2>7, <2>8, <2>9 DEF DeleteStep
<1>7. ASSUME NEW r \in Requests, End(r) \/ Expire(r) PROVE TokenInv'
  BY <1>7 DEF End, Expire
<1> QED
  BY <1>1, <1>2, <1>3, <1>4, <1>5, <1>6, <1>7 DEF Next

LEMMA RedeemedStep == TypeOK /\ TokenInv /\ ResetTokenRedeemedOnce /\ [Next]_vars => ResetTokenRedeemedOnce'
<1> SUFFICES ASSUME TypeOK, TokenInv, ResetTokenRedeemedOnce, [Next]_vars PROVE ResetTokenRedeemedOnce'
  OBVIOUS
<1> USE DEF TokenInv, ResetTokenRedeemedOnce, TypeOK, Go, Stop, Proceed, rows, request, ghosts
<1>1. CASE UNCHANGED vars
  BY <1>1 DEF vars
<1>2. ASSUME NEW s \in Names, SignOut(s) PROVE ResetTokenRedeemedOnce'
  BY <1>2 DEF SignOut
<1>3. ASSUME NEW r \in Requests, SignInStep(r) PROVE ResetTokenRedeemedOnce'
  <2>1. CASE SignInFindUser(r)
    BY <2>1 DEF SignInFindUser
  <2>2. CASE SignInVerify(r)
    BY <2>2 DEF SignInVerify, VerifyPassword
  <2>3. CASE CreateSession(r)
    BY <2>3 DEF CreateSession
  <2> QED
    BY <1>3, <2>1, <2>2, <2>3 DEF SignInStep
<1>4. ASSUME NEW r \in Requests, ResetStep(r) PROVE ResetTokenRedeemedOnce'
  <2>1. CASE RequestReset(r) \/ ResetFindAccount(r)
    BY <2>1 DEF RequestReset, ResetFindAccount
  <2>2. CASE Issue(r)
    BY <2>2 DEF Issue
  <2>3. CASE \E t \in Requests : ResetFindToken(r, t)
    BY <2>3 DEF ResetFindToken
  <2>4. CASE ResetDeleteToken(r)
    BY <2>4 DEF ResetDeleteToken
  <2>5. CASE ResetCreateAccount(r) \/ ResetUpdatePassword(r)
    BY <2>5 DEF ResetCreateAccount, ResetUpdatePassword, SetPassword, AfterReset
  <2>6. CASE DeleteAllSessions(r)
    BY <2>6 DEF DeleteAllSessions, RevokeWith, NoSessions
  <2> QED
    BY <1>4, <2>1, <2>2, <2>3, <2>4, <2>5, <2>6 DEF ResetStep
<1>5. ASSUME NEW r \in Requests, ChangeStep(r) PROVE ResetTokenRedeemedOnce'
  <2>1. CASE Authenticate(r) \/ SetFindAccount(r)
    BY <2>1 DEF Authenticate, SetFindAccount, requireSession
  <2>2. CASE ChangeVerify(r)
    BY <2>2 DEF ChangeVerify, VerifyPassword
  <2>3. CASE ChangeUpdatePassword(r) \/ SetCreateAccount(r)
    BY <2>3 DEF ChangeUpdatePassword, SetCreateAccount, SetPassword
  <2> QED
    BY <1>5, <2>1, <2>2, <2>3 DEF ChangeStep
<1>6. ASSUME NEW r \in Requests, DeleteStep(r) PROVE ResetTokenRedeemedOnce'
  <2>1. CASE DeleteVerify(r)
    BY <2>1 DEF DeleteVerify, VerifyPassword
  <2>2. CASE DeleteFresh(r)
    BY <2>2 DEF DeleteFresh
  <2>3. CASE RequestDelete(r)
    BY <2>3 DEF RequestDelete
  <2>4. CASE DeleteFindUser(r) \/ DeleteFindSession(r)
    BY <2>4 DEF DeleteFindUser, DeleteFindSession
  <2>5. CASE \E t \in Requests : DeleteFindToken(r, t)
    BY <2>5 DEF DeleteFindToken
  <2>6. CASE DeleteUser(r)
    BY <2>6 DEF DeleteUser, RemoveUser, NoSessions
  <2>7. CASE DeleteSweep(r)
    BY <2>7 DEF DeleteSweep, NoSessions
  <2>8. CASE DeleteConsumeToken(r)
    BY <2>8 DEF DeleteConsumeToken
  <2>9. CASE AfterDelete(r)
    BY <2>9 DEF AfterDelete
  <2> QED
    BY <1>6, <2>1, <2>2, <2>3, <2>4, <2>5, <2>6, <2>7, <2>8, <2>9 DEF DeleteStep
<1>7. ASSUME NEW r \in Requests, End(r) \/ Expire(r) PROVE ResetTokenRedeemedOnce'
  BY <1>7 DEF End, Expire
<1> QED
  BY <1>1, <1>2, <1>3, <1>4, <1>5, <1>6, <1>7 DEF Next

LEMMA DeleteStepInv == TypeOK /\ DeleteInv /\ [Next]_vars => DeleteInv'
<1> SUFFICES ASSUME TypeOK, DeleteInv, [Next]_vars PROVE DeleteInv'
  OBVIOUS
<1> USE DEF DeleteInv, Deleters, TypeOK, Go, Stop, Proceed, rows, request, ghosts
<1>1. CASE UNCHANGED vars
  BY <1>1 DEF vars
<1>2. ASSUME NEW s \in Names, SignOut(s) PROVE DeleteInv'
  BY <1>2 DEF SignOut
<1>3. ASSUME NEW r \in Requests, SignInStep(r) PROVE DeleteInv'
  <2>1. CASE SignInFindUser(r)
    BY <2>1 DEF SignInFindUser
  <2>2. CASE SignInVerify(r)
    BY <2>2 DEF SignInVerify, VerifyPassword
  <2>3. CASE CreateSession(r)
    BY <2>3 DEF CreateSession
  <2> QED
    BY <1>3, <2>1, <2>2, <2>3 DEF SignInStep
<1>4. ASSUME NEW r \in Requests, ResetStep(r) PROVE DeleteInv'
  <2>1. CASE RequestReset(r) \/ ResetFindAccount(r)
    BY <2>1 DEF RequestReset, ResetFindAccount
  <2>2. CASE Issue(r)
    BY <2>2 DEF Issue
  <2>3. CASE \E t \in Requests : ResetFindToken(r, t)
    BY <2>3 DEF ResetFindToken
  <2>4. CASE ResetDeleteToken(r)
    BY <2>4 DEF ResetDeleteToken
  <2>5. CASE ResetCreateAccount(r) \/ ResetUpdatePassword(r)
    BY <2>5 DEF ResetCreateAccount, ResetUpdatePassword, SetPassword, AfterReset
  <2>6. CASE DeleteAllSessions(r)
    BY <2>6 DEF DeleteAllSessions, RevokeWith, NoSessions
  <2> QED
    BY <1>4, <2>1, <2>2, <2>3, <2>4, <2>5, <2>6 DEF ResetStep
<1>5. ASSUME NEW r \in Requests, ChangeStep(r) PROVE DeleteInv'
  <2>1. CASE Authenticate(r) \/ SetFindAccount(r)
    BY <2>1 DEF Authenticate, SetFindAccount, requireSession
  <2>2. CASE ChangeVerify(r)
    BY <2>2 DEF ChangeVerify, VerifyPassword
  <2>3. CASE ChangeUpdatePassword(r) \/ SetCreateAccount(r)
    BY <2>3 DEF ChangeUpdatePassword, SetCreateAccount, SetPassword
  <2> QED
    BY <1>5, <2>1, <2>2, <2>3 DEF ChangeStep
<1>6. ASSUME NEW r \in Requests, DeleteStep(r) PROVE DeleteInv'
  <2>1. CASE DeleteVerify(r)
    BY <2>1 DEF DeleteVerify, VerifyPassword
  <2>2. CASE DeleteFresh(r)
    BY <2>2 DEF DeleteFresh
  <2>3. CASE RequestDelete(r)
    BY <2>3 DEF RequestDelete
  <2>4. CASE DeleteFindUser(r) \/ DeleteFindSession(r)
    BY <2>4 DEF DeleteFindUser, DeleteFindSession
  <2>5. CASE \E t \in Requests : DeleteFindToken(r, t)
    BY <2>5 DEF DeleteFindToken
  <2>6. CASE DeleteUser(r)
    BY <2>6 DEF DeleteUser, RemoveUser, NoSessions
  <2>7. CASE DeleteSweep(r)
    BY <2>7 DEF DeleteSweep, NoSessions
  <2>8. CASE DeleteConsumeToken(r)
    BY <2>8 DEF DeleteConsumeToken
  <2>9. CASE AfterDelete(r)
    BY <2>9 DEF AfterDelete
  <2> QED
    BY <1>6, <2>1, <2>2, <2>3, <2>4, <2>5, <2>6, <2>7, <2>8, <2>9 DEF DeleteStep
<1>7. ASSUME NEW r \in Requests, End(r) \/ Expire(r) PROVE DeleteInv'
  BY <1>7 DEF End, Expire
<1> QED
  BY <1>1, <1>2, <1>3, <1>4, <1>5, <1>6, <1>7 DEF Next

LEMMA NameStep == TypeOK /\ NameInv /\ [Next]_vars => NameInv'
<1> SUFFICES ASSUME TypeOK, NameInv, [Next]_vars PROVE NameInv'
  OBVIOUS
<1> USE DEF NameInv, NotYetSet, TypeOK, Go, Stop, Proceed, rows, request, ghosts
<1>1. CASE UNCHANGED vars
  BY <1>1 DEF vars
<1>2. ASSUME NEW s \in Names, SignOut(s) PROVE NameInv'
  BY <1>2 DEF SignOut
<1>3. ASSUME NEW r \in Requests, SignInStep(r) PROVE NameInv'
  <2>1. CASE SignInFindUser(r)
    BY <2>1 DEF SignInFindUser
  <2>2. CASE SignInVerify(r)
    BY <2>2 DEF SignInVerify, VerifyPassword
  <2>3. CASE CreateSession(r)
    BY <2>3 DEF CreateSession
  <2> QED
    BY <1>3, <2>1, <2>2, <2>3 DEF SignInStep
<1>4. ASSUME NEW r \in Requests, ResetStep(r) PROVE NameInv'
  <2>1. CASE RequestReset(r) \/ ResetFindAccount(r)
    BY <2>1 DEF RequestReset, ResetFindAccount
  <2>2. CASE Issue(r)
    BY <2>2 DEF Issue
  <2>3. CASE \E t \in Requests : ResetFindToken(r, t)
    BY <2>3 DEF ResetFindToken
  <2>4. CASE ResetDeleteToken(r)
    BY <2>4 DEF ResetDeleteToken
  <2>5. CASE ResetCreateAccount(r) \/ ResetUpdatePassword(r)
    BY <2>5 DEF ResetCreateAccount, ResetUpdatePassword, SetPassword, AfterReset
  <2>6. CASE DeleteAllSessions(r)
    BY <2>6 DEF DeleteAllSessions, RevokeWith, NoSessions
  <2> QED
    BY <1>4, <2>1, <2>2, <2>3, <2>4, <2>5, <2>6 DEF ResetStep
<1>5. ASSUME NEW r \in Requests, ChangeStep(r) PROVE NameInv'
  <2>1. CASE Authenticate(r) \/ SetFindAccount(r)
    BY <2>1 DEF Authenticate, SetFindAccount, requireSession
  <2>2. CASE ChangeVerify(r)
    BY <2>2 DEF ChangeVerify, VerifyPassword
  <2>3. CASE ChangeUpdatePassword(r) \/ SetCreateAccount(r)
    BY <2>3 DEF ChangeUpdatePassword, SetCreateAccount, SetPassword
  <2> QED
    BY <1>5, <2>1, <2>2, <2>3 DEF ChangeStep
<1>6. ASSUME NEW r \in Requests, DeleteStep(r) PROVE NameInv'
  <2>1. CASE DeleteVerify(r)
    BY <2>1 DEF DeleteVerify, VerifyPassword
  <2>2. CASE DeleteFresh(r)
    BY <2>2 DEF DeleteFresh
  <2>3. CASE RequestDelete(r)
    BY <2>3 DEF RequestDelete
  <2>4. CASE DeleteFindUser(r) \/ DeleteFindSession(r)
    BY <2>4 DEF DeleteFindUser, DeleteFindSession
  <2>5. CASE \E t \in Requests : DeleteFindToken(r, t)
    BY <2>5 DEF DeleteFindToken
  <2>6. CASE DeleteUser(r)
    BY <2>6 DEF DeleteUser, RemoveUser, NoSessions
  <2>7. CASE DeleteSweep(r)
    BY <2>7 DEF DeleteSweep, NoSessions
  <2>8. CASE DeleteConsumeToken(r)
    BY <2>8 DEF DeleteConsumeToken
  <2>9. CASE AfterDelete(r)
    BY <2>9 DEF AfterDelete
  <2> QED
    BY <1>6, <2>1, <2>2, <2>3, <2>4, <2>5, <2>6, <2>7, <2>8, <2>9 DEF DeleteStep
<1>7. ASSUME NEW r \in Requests, End(r) \/ Expire(r) PROVE NameInv'
  BY <1>7 DEF End, Expire
<1> QED
  BY <1>1, <1>2, <1>3, <1>4, <1>5, <1>6, <1>7 DEF Next

LEMMA HoldingStep == TypeOK /\ HoldingInv /\ [Next]_vars => HoldingInv'
<1> SUFFICES ASSUME TypeOK, HoldingInv, [Next]_vars PROVE HoldingInv'
  OBVIOUS
<1> USE DEF HoldingInv, SignsIn, Holding, Active, TypeOK, Go, Stop, Proceed, rows, request, ghosts
<1>1. CASE UNCHANGED vars
  BY <1>1 DEF vars
<1>2. ASSUME NEW s \in Names, SignOut(s) PROVE HoldingInv'
  BY <1>2 DEF SignOut
<1>3. ASSUME NEW r \in Requests, SignInStep(r) PROVE HoldingInv'
  <2>1. CASE SignInFindUser(r)
    BY <2>1 DEF SignInFindUser
  <2>2. CASE SignInVerify(r)
    BY <2>2 DEF SignInVerify, VerifyPassword
  <2>3. CASE CreateSession(r)
    BY <2>3 DEF CreateSession
  <2> QED
    BY <1>3, <2>1, <2>2, <2>3 DEF SignInStep
<1>4. ASSUME NEW r \in Requests, ResetStep(r) PROVE HoldingInv'
  <2>1. CASE RequestReset(r) \/ ResetFindAccount(r)
    BY <2>1 DEF RequestReset, ResetFindAccount
  <2>2. CASE Issue(r)
    BY <2>2 DEF Issue
  <2>3. CASE \E t \in Requests : ResetFindToken(r, t)
    BY <2>3 DEF ResetFindToken
  <2>4. CASE ResetDeleteToken(r)
    BY <2>4 DEF ResetDeleteToken
  <2>5. CASE ResetCreateAccount(r) \/ ResetUpdatePassword(r)
    BY <2>5 DEF ResetCreateAccount, ResetUpdatePassword, SetPassword, AfterReset
  <2>6. CASE DeleteAllSessions(r)
    BY <2>6 DEF DeleteAllSessions, RevokeWith, NoSessions
  <2> QED
    BY <1>4, <2>1, <2>2, <2>3, <2>4, <2>5, <2>6 DEF ResetStep
<1>5. ASSUME NEW r \in Requests, ChangeStep(r) PROVE HoldingInv'
  <2>1. CASE Authenticate(r) \/ SetFindAccount(r)
    BY <2>1 DEF Authenticate, SetFindAccount, requireSession
  <2>2. CASE ChangeVerify(r)
    BY <2>2 DEF ChangeVerify, VerifyPassword
  <2>3. CASE ChangeUpdatePassword(r) \/ SetCreateAccount(r)
    BY <2>3 DEF ChangeUpdatePassword, SetCreateAccount, SetPassword
  <2> QED
    BY <1>5, <2>1, <2>2, <2>3 DEF ChangeStep
<1>6. ASSUME NEW r \in Requests, DeleteStep(r) PROVE HoldingInv'
  <2>1. CASE DeleteVerify(r)
    BY <2>1 DEF DeleteVerify, VerifyPassword
  <2>2. CASE DeleteFresh(r)
    BY <2>2 DEF DeleteFresh
  <2>3. CASE RequestDelete(r)
    BY <2>3 DEF RequestDelete
  <2>4. CASE DeleteFindUser(r) \/ DeleteFindSession(r)
    BY <2>4 DEF DeleteFindUser, DeleteFindSession
  <2>5. CASE \E t \in Requests : DeleteFindToken(r, t)
    BY <2>5 DEF DeleteFindToken
  <2>6. CASE DeleteUser(r)
    BY <2>6 DEF DeleteUser, RemoveUser, NoSessions
  <2>7. CASE DeleteSweep(r)
    BY <2>7 DEF DeleteSweep, NoSessions
  <2>8. CASE DeleteConsumeToken(r)
    BY <2>8 DEF DeleteConsumeToken
  <2>9. CASE AfterDelete(r)
    BY <2>9 DEF AfterDelete
  <2> QED
    BY <1>6, <2>1, <2>2, <2>3, <2>4, <2>5, <2>6, <2>7, <2>8, <2>9 DEF DeleteStep
<1>7. ASSUME NEW r \in Requests, End(r) \/ Expire(r) PROVE HoldingInv'
  BY <1>7 DEF End, Expire
<1> QED
  BY <1>1, <1>2, <1>3, <1>4, <1>5, <1>6, <1>7 DEF Next

LEMMA SessionsStep == TypeOK /\ NameInv /\ HoldingInv /\ SessionsOutliveOnlyByOverlap /\ [Next]_vars => SessionsOutliveOnlyByOverlap'
<1> SUFFICES ASSUME TypeOK, NameInv, HoldingInv, SessionsOutliveOnlyByOverlap, [Next]_vars PROVE SessionsOutliveOnlyByOverlap'
  OBVIOUS
<1> USE DEF NameInv, HoldingInv, SignsIn, SessionsOutliveOnlyByOverlap, TypeOK, Go, Stop, Proceed, rows, request, ghosts
<1>1. CASE UNCHANGED vars
  BY <1>1 DEF vars
<1>2. ASSUME NEW s \in Names, SignOut(s) PROVE SessionsOutliveOnlyByOverlap'
  BY <1>2 DEF SignOut
<1>3. ASSUME NEW r \in Requests, SignInStep(r) PROVE SessionsOutliveOnlyByOverlap'
  <2>1. CASE SignInFindUser(r)
    BY <2>1 DEF SignInFindUser
  <2>2. CASE SignInVerify(r)
    BY <2>2 DEF SignInVerify, VerifyPassword
  <2>3. CASE CreateSession(r)
    BY <2>3 DEF CreateSession
  <2> QED
    BY <1>3, <2>1, <2>2, <2>3 DEF SignInStep
<1>4. ASSUME NEW r \in Requests, ResetStep(r) PROVE SessionsOutliveOnlyByOverlap'
  <2>1. CASE RequestReset(r) \/ ResetFindAccount(r)
    BY <2>1 DEF RequestReset, ResetFindAccount
  <2>2. CASE Issue(r)
    BY <2>2 DEF Issue
  <2>3. CASE \E t \in Requests : ResetFindToken(r, t)
    BY <2>3 DEF ResetFindToken
  <2>4. CASE ResetDeleteToken(r)
    BY <2>4 DEF ResetDeleteToken
  <2>5. CASE ResetCreateAccount(r) \/ ResetUpdatePassword(r)
    BY <2>5 DEF ResetCreateAccount, ResetUpdatePassword, SetPassword, AfterReset
  <2>6. CASE DeleteAllSessions(r)
    BY <2>6 DEF DeleteAllSessions, RevokeWith, NoSessions
  <2> QED
    BY <1>4, <2>1, <2>2, <2>3, <2>4, <2>5, <2>6 DEF ResetStep
<1>5. ASSUME NEW r \in Requests, ChangeStep(r) PROVE SessionsOutliveOnlyByOverlap'
  <2>1. CASE Authenticate(r) \/ SetFindAccount(r)
    BY <2>1 DEF Authenticate, SetFindAccount, requireSession
  <2>2. CASE ChangeVerify(r)
    BY <2>2 DEF ChangeVerify, VerifyPassword
  <2>3. CASE ChangeUpdatePassword(r) \/ SetCreateAccount(r)
    BY <2>3 DEF ChangeUpdatePassword, SetCreateAccount, SetPassword
  <2> QED
    BY <1>5, <2>1, <2>2, <2>3 DEF ChangeStep
<1>6. ASSUME NEW r \in Requests, DeleteStep(r) PROVE SessionsOutliveOnlyByOverlap'
  <2>1. CASE DeleteVerify(r)
    BY <2>1 DEF DeleteVerify, VerifyPassword
  <2>2. CASE DeleteFresh(r)
    BY <2>2 DEF DeleteFresh
  <2>3. CASE RequestDelete(r)
    BY <2>3 DEF RequestDelete
  <2>4. CASE DeleteFindUser(r) \/ DeleteFindSession(r)
    BY <2>4 DEF DeleteFindUser, DeleteFindSession
  <2>5. CASE \E t \in Requests : DeleteFindToken(r, t)
    BY <2>5 DEF DeleteFindToken
  <2>6. CASE DeleteUser(r)
    BY <2>6 DEF DeleteUser, RemoveUser, NoSessions
  <2>7. CASE DeleteSweep(r)
    BY <2>7 DEF DeleteSweep, NoSessions
  <2>8. CASE DeleteConsumeToken(r)
    BY <2>8 DEF DeleteConsumeToken
  <2>9. CASE AfterDelete(r)
    BY <2>9 DEF AfterDelete
  <2> QED
    BY <1>6, <2>1, <2>2, <2>3, <2>4, <2>5, <2>6, <2>7, <2>8, <2>9 DEF DeleteStep
<1>7. ASSUME NEW r \in Requests, End(r) \/ Expire(r) PROVE SessionsOutliveOnlyByOverlap'
  BY <1>7 DEF End, Expire
<1> QED
  BY <1>1, <1>2, <1>3, <1>4, <1>5, <1>6, <1>7 DEF Next
LEMMA InductiveInvariant == Spec => []IInv
<1>1. Init => IInv
  BY InitIInv
<1>2. IInv /\ [Next]_vars => IInv'
  BY TypeStep, TokenStep, RedeemedStep, DeleteStepInv, NameStep, HoldingStep, SessionsStep DEF IInv
<1> QED
  BY <1>1, <1>2, PTL DEF Spec

-----------------------------------------------------------------------------
(* Rows and requests keep their types (the state of the handlers in        *)
(* routes_sign.go, routes_password.go and routes_user.go).                 *)
THEOREM TypeCorrect == Spec => []TypeOK
<1>1. IInv => TypeOK
  BY DEF IInv
<1> QED
  BY <1>1, InductiveInvariant, PTL

(* However many requests present one reset token, one of them redeems it   *)
(* (handleResetPassword checks the delete's result).                       *)
THEOREM ResetTokensAreSingleUse == Spec => []ResetTokenRedeemedOnce
<1>1. IInv => ResetTokenRedeemedOnce
  BY DEF IInv
<1> QED
  BY <1>1, InductiveInvariant, PTL

(* Only a request that overlapped the replacement of a password, or the    *)
(* deletion of the user, leaves a session of the old state behind.         *)
THEOREM RevocationMissesOnlyOverlaps == Spec => []SessionsOutliveOnlyByOverlap
<1>1. IInv => SessionsOutliveOnlyByOverlap
  BY DEF IInv
<1> QED
  BY <1>1, InductiveInvariant, PTL

(* The afterDelete hook runs once and after the user is gone.              *)
THEOREM AfterDeleteRunsOnce == Spec => []AfterDeleteOnce
<1>1. IInv => AfterDeleteOnce
  BY DEF IInv, DeleteInv, Deleters, AfterDeleteOnce
<1> QED
  BY <1>1, InductiveInvariant, PTL

(* change-password replaces what it verified or was overtaken.             *)
THEOREM ChangesAreNotBlind == Spec => ChangeReplacesVerified
<1> DEFINE Blind == \E r \in Requests :
                       /\ password # r /\ password' = r
                       /\ kind[r] \in {"change", "changeAndRevoke"}
                       /\ seen[r] # password /\ r \notin overtaken
<1>1. IInv /\ [Next]_vars => ~Blind
  <2> SUFFICES ASSUME IInv, [Next]_vars, NEW q \in Requests,
                      password # q, password' = q,
                      kind[q] \in {"change", "changeAndRevoke"}
               PROVE  seen[q] = password \/ q \in overtaken
    OBVIOUS
  <2>1. ChangeUpdatePassword(q)
    <3>1. PICK r \in Requests : ChangeUpdatePassword(r) \/ ResetUpdatePassword(r)
                                \/ ResetCreateAccount(r) \/ SetCreateAccount(r)
      BY DEF Next, vars, rows, request, Stop, Proceed, SignOut, SignInStep, SignInFindUser,
             SignInVerify, VerifyPassword, CreateSession, ResetStep, RequestReset, Issue,
             ResetFindToken, ResetDeleteToken, ResetFindAccount, DeleteAllSessions, RevokeWith,
             ChangeStep, Authenticate, ChangeVerify, SetFindAccount, DeleteStep, DeleteVerify,
             DeleteFresh, RequestDelete, DeleteFindToken, DeleteFindSession, DeleteFindUser, DeleteUser, RemoveUser,
             DeleteSweep, DeleteConsumeToken, AfterDelete, End, Expire
    <3>2. r = q
      BY <3>1 DEF ChangeUpdatePassword, ResetUpdatePassword, ResetCreateAccount,
                  SetCreateAccount, SetPassword
    <3> QED
      BY <3>1, <3>2 DEF ResetUpdatePassword, ResetCreateAccount, SetCreateAccount
  <2> QED
    BY <2>1 DEF IInv, HoldingInv, SignsIn, ChangeUpdatePassword
<1>2. IInv /\ [Next]_vars => [~Blind]_vars
  BY <1>1
<1>3. [~Blind]_vars => [\A r \in Requests :
                          /\ password # r /\ password' = r
                          /\ kind[r] \in {"change", "changeAndRevoke"}
                          => seen[r] = password \/ r \in overtaken]_vars
  OBVIOUS
<1> QED
  BY <1>2, <1>3, InductiveInvariant, PTL DEF Spec, ChangeReplacesVerified
=============================================================================
