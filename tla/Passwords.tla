------------------------------ MODULE Passwords ------------------------------
(***************************************************************************)
(* One user's password, its sessions and the mailed tokens that change     *)
(* them, under concurrent requests: sign-in, request and completion of a   *)
(* password reset, change-password, set-password and the ways to delete    *)
(* the account (auth/routes_sign.go, routes_password.go, routes_user.go).  *)
(*                                                                         *)
(* A handler makes several store calls and holds no lock between them, so  *)
(* a request is a process and one store call is one action.  A store call  *)
(* may fail, or the server may stop, at any of them: the request ends and  *)
(* what it has written stays.                                              *)
(*                                                                         *)
(* A password is named by the request that set it, a session and a mailed  *)
(* token by the request that made it; First names what was there before.   *)
(* MemoryStore shows that a user's credential lookup reaches one account   *)
(* row, the last one written: that row's password is the variable password.*)
(***************************************************************************)

CONSTANTS Requests, First, None

ASSUME NameAssumption == First \notin Requests /\ None \notin Requests /\ First # None

Names == Requests \cup {First}

VARIABLES
    config,        \* options that only guards read
    alive,         \* the user row exists
    password,      \* the password of the credential account, or None
    sessions,      \* sessions[s]: the password session s was obtained with
    verification,  \* verification[r]: the row of the token that request r issued
    kind, pc,      \* which endpoint a request calls and how far it got
    seen,          \* the password a request has verified, or set
    token,         \* the mailed token a request presented
    redeemed,      \* redeemed[t]: requests whose delete of the reset token t was told "ok"
    replaced,      \* passwords that are no longer in force
    revoked,       \* those whose sessions a later request has revoked
    overtaken,     \* requests in flight while what they had read was replaced
    deletedBy      \* requests that ran the afterDelete hook

rows    == <<alive, password, sessions, verification>>
request == <<kind, pc, seen, token>>
ghosts  == <<redeemed, replaced, revoked, overtaken, deletedBy>>
vars    == <<config, rows, request, ghosts>>

Kinds == {"signIn", "requestReset", "reset", "change", "changeAndRevoke", "set",
          "deleteByPassword", "deleteFresh", "requestDelete", "deleteByToken"}

Stages == {"idle", "account", "issue", "redeem", "lookup", "update", "insert", "revoke",
           "create", "verify", "token", "session", "remove", "sweep", "consume", "after", "done"}

Config == [revokeSessionsOnPasswordReset : BOOLEAN, sendDeleteAccount : BOOLEAN]

Init ==
    /\ config \in Config
    /\ alive = TRUE
    /\ password \in {First, None}      \* None: the user came through OAuth
    /\ sessions = [s \in Names |-> IF s = First THEN First ELSE None]
    /\ verification = [r \in Requests |-> "none"]
    /\ kind \in [Requests -> Kinds]
    /\ pc = [r \in Requests |-> "idle"]
    /\ seen = [r \in Requests |-> None]
    /\ token = [r \in Requests |-> None]
    /\ redeemed = [r \in Requests |-> {}]
    /\ replaced = {} /\ revoked = {} /\ overtaken = {} /\ deletedBy = {}

Go(r, stage) == pc' = [pc EXCEPT ![r] = stage]
Stop(r) == Go(r, "done") /\ UNCHANGED <<config, rows, kind, seen, token, ghosts>>
Proceed(r, stage) == Go(r, stage) /\ UNCHANGED <<config, rows, kind, seen, token, ghosts>>

NoSessions == [s \in Names |-> None]

(* Requests that have verified a password and may still make a session.    *)
Holding(r) == {q \in Requests \ {r} : /\ kind[q] \in {"signIn", "change", "changeAndRevoke"}
                                      /\ pc[q] \in {"update", "revoke", "create"}}
Active(r)  == {q \in Requests \ {r} : pc[q] \notin {"idle", "done"}}

(* The credential account gets the password of r.                          *)
SetPassword(r, stage) ==
    /\ password' = r
    /\ replaced' = replaced \cup ({password} \ {None})
    /\ seen' = [seen EXCEPT ![r] = r]
    /\ overtaken' = overtaken \cup Holding(r)
    /\ Go(r, stage)
    /\ UNCHANGED <<config, alive, sessions, verification, kind, token,
                   redeemed, revoked, deletedBy>>

(* requireSessionWithOpts with the cookie cache off: a session row whose   *)
(* user exists (FindSessionByToken).                                       *)
requireSession == alive /\ \E s \in Names : sessions[s] # None

-----------------------------------------------------------------------------
(* handleSignInEmail.  Going back to "done" stands for every refusal: wrong *)
(* password, unverified email, a two-factor challenge instead of a session. *)

SignInFindUser(r) ==
    /\ kind[r] = "signIn" /\ pc[r] = "idle"
    /\ alive
    /\ Proceed(r, "account")

(* Bug form: the outcome of the comparison is kept in place of the password. *)
VerifyPassword_Boolean(r, stage) ==
    /\ password # None
    /\ seen' = [seen EXCEPT ![r] = TRUE]
    /\ Go(r, stage)
    /\ UNCHANGED <<config, rows, kind, token, ghosts>>

(* FindAccountByUserAndProvider and hasher.Verify, when they succeed.      *)
VerifyPassword(r, stage) ==
    /\ password # None
    /\ seen' = [seen EXCEPT ![r] = password]
    /\ Go(r, stage)
    /\ UNCHANGED <<config, rows, kind, token, ghosts>>

SignInVerify(r) ==
    /\ kind[r] = "signIn" /\ pc[r] = "account"
    /\ VerifyPassword(r, "create")

(* createSession: nothing looks again at the user or its password.         *)
CreateSession(r) ==
    /\ pc[r] = "create"
    /\ sessions' = [sessions EXCEPT ![r] = seen[r]]
    /\ Go(r, "done")
    /\ UNCHANGED <<config, alive, password, verification, kind, seen, token, ghosts>>

(* handleSignOut, and handleRevokeSession for one session.                 *)
SignOut(s) ==
    /\ sessions[s] # None
    /\ sessions' = [sessions EXCEPT ![s] = None]
    /\ UNCHANGED <<config, alive, password, verification, request, ghosts>>

-----------------------------------------------------------------------------
(* handleRequestPasswordReset and handleResetPassword.                     *)

RequestReset(r) ==
    /\ kind[r] = "requestReset" /\ pc[r] = "idle"
    /\ alive
    /\ Proceed(r, "issue")

(* CreateVerification under a fresh random identifier.                     *)
Issue(r) ==
    /\ pc[r] = "issue"
    /\ verification' = [verification EXCEPT ![r] = "live"]
    /\ Go(r, "done")
    /\ UNCHANGED <<config, alive, password, sessions, kind, seen, token, ghosts>>

Expire(t) ==
    /\ verification[t] = "live"
    /\ verification' = [verification EXCEPT ![t] = "expired"]
    /\ UNCHANGED <<config, alive, password, sessions, request, ghosts>>

(* FindVerificationByIdentifier and the expiry check.                      *)
ResetFindToken(r, t) ==
    /\ kind[r] = "reset" /\ pc[r] = "idle"
    /\ kind[t] = "requestReset" /\ verification[t] = "live"
    /\ token' = [token EXCEPT ![r] = t]
    /\ Go(r, "redeem")
    /\ UNCHANGED <<config, rows, kind, seen, ghosts>>

(* Bug form: the error of the delete is ignored, as ConsumeVerification does. *)
ResetDeleteToken_Unchecked(r) ==
    /\ pc[r] = "redeem"
    /\ verification' = [verification EXCEPT ![token[r]] = "none"]
    /\ redeemed' = [redeemed EXCEPT ![token[r]] = @ \cup {r}]
    /\ Go(r, "lookup")
    /\ UNCHANGED <<config, alive, password, sessions, kind, seen, token,
                   replaced, revoked, overtaken, deletedBy>>

(* DeleteVerificationByIdentifier: "not found" ends the request.           *)
ResetDeleteToken(r) ==
    /\ pc[r] = "redeem"
    /\ verification[token[r]] # "none"
    /\ verification' = [verification EXCEPT ![token[r]] = "none"]
    /\ redeemed' = [redeemed EXCEPT ![token[r]] = @ \cup {r}]
    /\ Go(r, "lookup")
    /\ UNCHANGED <<config, alive, password, sessions, kind, seen, token,
                   replaced, revoked, overtaken, deletedBy>>

(* FindAccountByUserAndProvider decides between update and insert.  No one *)
(* looks whether the user still exists.                                    *)
ResetFindAccount(r) ==
    /\ kind[r] = "reset" /\ pc[r] = "lookup"
    /\ Proceed(r, IF password = None THEN "insert" ELSE "update")

AfterReset == IF config.revokeSessionsOnPasswordReset THEN "revoke" ELSE "done"

ResetCreateAccount(r) ==
    /\ kind[r] = "reset" /\ pc[r] = "insert"
    /\ SetPassword(r, AfterReset)

ResetUpdatePassword(r) ==
    /\ kind[r] = "reset" /\ pc[r] = "update"
    /\ password # None
    /\ SetPassword(r, AfterReset)

RevokeWith(r, left) ==
    /\ pc[r] = "revoke"
    /\ sessions' = left
    /\ revoked' = revoked \cup replaced
    /\ Go(r, IF kind[r] = "changeAndRevoke" THEN "create" ELSE "done")
    /\ UNCHANGED <<config, alive, password, verification, kind, seen, token,
                   redeemed, replaced, overtaken, deletedBy>>

(* Bug form: the caller's own old session is spared.                       *)
DeleteAllSessions_ExceptCaller(r) == RevokeWith(r, [NoSessions EXCEPT ![First] = sessions[First]])

(* DeleteAllSessionsByUserID, of a reset and of change-password.           *)
DeleteAllSessions(r) == RevokeWith(r, NoSessions)

-----------------------------------------------------------------------------
(* handleChangePassword and handleSetPassword.                             *)

Authenticate(r) ==
    /\ pc[r] = "idle"
    /\ kind[r] \in {"change", "changeAndRevoke", "set", "deleteByPassword", "deleteByToken"}
    /\ requireSession
    /\ Proceed(r, CASE kind[r] = "set" -> "lookup"
                    [] kind[r] = "deleteByToken" -> "token"
                    [] OTHER -> "verify")

(* Bug form: the current password is not compared.                         *)
ChangeVerify_Skipped(r) ==
    /\ kind[r] \in {"change", "changeAndRevoke"} /\ pc[r] = "verify"
    /\ Proceed(r, "update")

ChangeVerify(r) ==
    /\ kind[r] \in {"change", "changeAndRevoke"} /\ pc[r] = "verify"
    /\ VerifyPassword(r, "update")

(* UpdateAccountPassword does not look whether the password is still the   *)
(* one that was verified.                                                  *)
ChangeUpdatePassword(r) ==
    /\ kind[r] \in {"change", "changeAndRevoke"} /\ pc[r] = "update"
    /\ password # None
    /\ SetPassword(r, IF kind[r] = "changeAndRevoke" THEN "revoke" ELSE "done")

(* Only a user without a password may set one, but any error of the lookup *)
(* is taken for an absent account ...                                      *)
SetFindAccount(r) ==
    /\ kind[r] = "set" /\ pc[r] = "lookup"
    /\ Proceed(r, "insert")

(* ... and CreateAccount then puts another row in front of the one that is *)
(* there.  An account with an empty password, which no handler writes, is  *)
(* updated instead, to the same effect.                                    *)
SetCreateAccount(r) ==
    /\ kind[r] = "set" /\ pc[r] = "insert"
    /\ SetPassword(r, "done")

-----------------------------------------------------------------------------
(* handleDeleteUser, handleDeleteUserCallback and completeDeleteWithToken. *)

DeleteVerify(r) ==
    /\ kind[r] = "deleteByPassword" /\ pc[r] = "verify"
    /\ VerifyPassword(r, "remove")

(* The default branch, only when no confirmation mail is configured: the   *)
(* session is young enough.                                                *)
DeleteFresh(r) ==
    /\ kind[r] = "deleteFresh" /\ pc[r] = "idle"
    /\ ~config.sendDeleteAccount
    /\ requireSession
    /\ Proceed(r, "remove")

RequestDelete(r) ==
    /\ kind[r] = "requestDelete" /\ pc[r] = "idle"
    /\ config.sendDeleteAccount
    /\ requireSession
    /\ Proceed(r, "issue")

(* The token is found and left in place: it goes after the user.  The      *)
(* callback looks for it before the session, delete-user after it.         *)
DeleteFindToken(r, t) ==
    /\ kind[r] = "deleteByToken" /\ pc[r] \in {"idle", "token"}
    /\ kind[t] = "requestDelete" /\ verification[t] = "live"
    /\ token' = [token EXCEPT ![r] = t]
    /\ Go(r, IF pc[r] = "idle" THEN "session" ELSE "lookup")
    /\ UNCHANGED <<config, rows, kind, seen, ghosts>>

DeleteFindSession(r) ==
    /\ pc[r] = "session"
    /\ requireSession
    /\ Proceed(r, "lookup")

(* FindUserByID and the beforeDelete hook.                                 *)
DeleteFindUser(r) ==
    /\ kind[r] = "deleteByToken" /\ pc[r] = "lookup"
    /\ alive
    /\ Proceed(r, "remove")

RemoveUser(r) ==
    /\ alive' = FALSE
    /\ password' = None
    /\ sessions' = NoSessions
    /\ overtaken' = overtaken \cup Active(r)
    /\ Go(r, "sweep")
    /\ UNCHANGED <<config, verification, kind, seen, token, redeemed, replaced, revoked, deletedBy>>

(* Bug form: DeleteUser of a missing user succeeds.                        *)
DeleteUser_Idempotent(r) == pc[r] = "remove" /\ RemoveUser(r)

(* DeleteUser: "not found" ends the request.                               *)
DeleteUser(r) ==
    /\ pc[r] = "remove"
    /\ alive
    /\ RemoveUser(r)

(* DeleteAllSessionsByUserID once more.                                    *)
DeleteSweep(r) ==
    /\ pc[r] = "sweep"
    /\ sessions' = NoSessions
    /\ Go(r, IF token[r] = None THEN "after" ELSE "consume")
    /\ UNCHANGED <<config, alive, password, verification, kind, seen, token, ghosts>>

DeleteConsumeToken(r) ==
    /\ pc[r] = "consume"
    /\ verification[token[r]] # "none"
    /\ verification' = [verification EXCEPT ![token[r]] = "none"]
    /\ Go(r, "after")
    /\ UNCHANGED <<config, alive, password, sessions, kind, seen, token, ghosts>>

(* The afterDelete hook.                                                   *)
AfterDelete(r) ==
    /\ pc[r] = "after"
    /\ deletedBy' = deletedBy \cup {r}
    /\ Go(r, "done")
    /\ UNCHANGED <<config, rows, kind, seen, token, redeemed, replaced, revoked, overtaken>>

-----------------------------------------------------------------------------
(* A refused check, a failed store call, a server that stops.              *)
End(r) == pc[r] # "done" /\ Stop(r)

SignInStep(r) == SignInFindUser(r) \/ SignInVerify(r) \/ CreateSession(r)

ResetStep(r) ==
    \/ RequestReset(r) \/ Issue(r)
    \/ \E t \in Requests : ResetFindToken(r, t)
    \/ ResetDeleteToken(r) \/ ResetFindAccount(r) \/ ResetCreateAccount(r)
    \/ ResetUpdatePassword(r) \/ DeleteAllSessions(r)

ChangeStep(r) ==
    \/ Authenticate(r) \/ ChangeVerify(r) \/ ChangeUpdatePassword(r)
    \/ SetFindAccount(r) \/ SetCreateAccount(r)

DeleteStep(r) ==
    \/ DeleteVerify(r) \/ DeleteFresh(r) \/ RequestDelete(r)
    \/ \E t \in Requests : DeleteFindToken(r, t)
    \/ DeleteFindSession(r) \/ DeleteFindUser(r) \/ DeleteUser(r) \/ DeleteSweep(r)
    \/ DeleteConsumeToken(r) \/ AfterDelete(r)

Next ==
    \/ \E r \in Requests :
          SignInStep(r) \/ ResetStep(r) \/ ChangeStep(r) \/ DeleteStep(r) \/ End(r) \/ Expire(r)
    \/ \E s \in Names : SignOut(s)

Spec == Init /\ [][Next]_vars

-----------------------------------------------------------------------------
(* Every row and every request is in one of its states.                    *)
TypeOK ==
    /\ config \in Config
    /\ alive \in BOOLEAN
    /\ password \in Names \cup {None}
    /\ sessions \in [Names -> Names \cup {None}]
    /\ verification \in [Requests -> {"none", "live", "expired"}]
    /\ kind \in [Requests -> Kinds]
    /\ pc \in [Requests -> Stages]
    /\ seen \in [Requests -> Names \cup {None}]
    /\ token \in [Requests -> Requests \cup {None}]
    /\ redeemed \in [Requests -> SUBSET Requests]
    /\ replaced \subseteq Names /\ revoked \subseteq Names
    /\ overtaken \subseteq Requests /\ deletedBy \subseteq Requests

(* A mailed reset token changes the password at most once, however many    *)
(* requests present it at the same time (handleResetPassword).             *)
ResetTokenRedeemedOnce ==
    \A t, q, r \in Requests : q \in redeemed[t] /\ r \in redeemed[t] => q = r

(* A session obtained with a password that was replaced and revoked, or a  *)
(* session of a deleted user, comes only from a request that had read the  *)
(* old state before it was replaced and inserts its session afterwards:    *)
(* storing the password before revoking leaves no other gap.               *)
SessionsOutliveOnlyByOverlap ==
    \A s \in Names :
        sessions[s] # None /\ (sessions[s] \in revoked \/ ~alive) => s \in overtaken

(* change-password replaces the password whose knowledge it verified,      *)
(* unless another request replaced that one in between.                    *)
ChangeReplacesVerified ==
    [][\A r \in Requests :
          /\ password # r /\ password' = r
          /\ kind[r] \in {"change", "changeAndRevoke"}
          => seen[r] = password \/ r \in overtaken]_vars

(* The afterDelete hook runs for at most one of the requests that delete   *)
(* the account, and only once the user is gone.                            *)
AfterDeleteOnce ==
    /\ deletedBy # {} => ~alive
    /\ \A q, r \in deletedBy : q = r
=============================================================================
