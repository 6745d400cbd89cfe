------------------------------- MODULE Linking -------------------------------
(***************************************************************************)
(* Sign-in through identity providers, and the accounts that tie a user to *)
(* an identity at a provider (auth/oauth_state.go, oauth_user.go,          *)
(* routes_oauth.go, routes_account.go, account_link.go).                   *)
(*                                                                         *)
(* A flow starts with a state row and comes back as a callback; an ID      *)
(* token needs no flow.  A request is a process and one store call is one  *)
(* action, because no handler holds a lock between two calls.  A store     *)
(* call may fail, or the server may stop, at any of them: the request ends *)
(* and what it has written stays.                                          *)
(*                                                                         *)
(* The rows are those of a store that keeps the StoreContract: emails are  *)
(* unique (the SQL schema says so; MemoryStore says when the in-memory     *)
(* store lets two users share one) and accounts have no unique key.  A row *)
(* is named by the request that made it, Old names what was there.  An     *)
(* identity is a provider and an account id there, and the identities of   *)
(* an instance belong to different providers.                              *)
(***************************************************************************)
EXTENDS FiniteSets, Naturals

CONSTANTS Requests, Old, Flows, Emails, Identities, Credential, None,
          Configs,    \* the configurations of an instance
          MaxEvents   \* bound: changes of user rows by other handlers

Options == [implicitLinking           : BOOLEAN,    \* linkingEnabled /\ ~disableImplicitLinking
            linking                   : BOOLEAN,    \* linkingEnabled
            trusted                   : SUBSET Identities,
            requireLocalEmailVerified : BOOLEAN,
            allowDifferentEmails      : BOOLEAN,
            allowUnlinkingAll         : BOOLEAN,
            updateUserInfoOnLink      : BOOLEAN,
            updateAccountOnSignIn     : BOOLEAN,
            overrideUserInfo          : BOOLEAN]

ASSUME ConfigAssumption == \A c \in Configs : c \in Options /\ (c.implicitLinking => c.linking)
ASSUME BoundAssumption == MaxEvents \in Nat

Names == Requests \cup Old

VARIABLES
    config,
    user,       \* user[n] : a row [email, verified], or None
    account,    \* account[n] : a row [user, identity], or None
    session,    \* session[r] : the user of the session that request r made, or None
    flow,       \* flow[f] : the state row of a flow, or None
    pc,         \* how far a request got
    presented,  \* the flow a callback came with
    info,       \* what the provider said of the caller
    seen,       \* the request's copy of a user
    target,     \* the account row a request is about to update or delete
    events,     \* changes of user rows by other handlers, counted for the bound
    redeemed,   \* redeemed[f] : callbacks whose delete of the state row was told "ok"
    vouched,    \* email addresses whose owner has been proved
    changed,    \* users whose email changed under a request that had read it
    overtaken   \* requests in flight while what they had read was replaced

rows    == <<user, account, session, flow>>
request == <<pc, presented, info, seen, target>>
ghosts  == <<redeemed, vouched, changed, overtaken>>
vars    == <<config, rows, request, events, ghosts>>

SignedIn == {"refresh", "tokens", "verify", "override", "register", "create"}
Saving   == {"save", "register", "linkSave"}
Stages   == SignedIn \cup Saving
            \cup {"idle", "redeem", "exchange", "listAccounts", "createUser", "ownAccounts",
                  "delete", "done"}

UserRow    == [email : Emails, verified : BOOLEAN]
AccountRow == [user : Names, identity : Identities \cup {Credential}]
StateRow   == [link : Names \cup {None}, email : Emails \cup {None}, gone : BOOLEAN]
UserInfo   == [identity : Identities, email : Emails, verified : BOOLEAN]
UserCopy   == [id : Names, email : Emails, verified : BOOLEAN]

ASSUME NameAssumption == Requests \cap Old = {} /\ None \notin Requests \cup Old \cup Flows \cup Emails
ASSUME NoneIsNoRecord ==
    None \notin UserRow \cup AccountRow \cup StateRow \cup UserInfo \cup UserCopy

Nothing == [r \in Requests |-> None]

Users == {n \in Names : user[n] # None}
Accounts(u) == {n \in Names : account[n] # None /\ account[n].user = u}
AccountsOf(i) == {n \in Names : account[n] # None /\ account[n].identity = i}
Linked(u, i) == Accounts(u) \cap AccountsOf(i)
EmailFree(u, e) == \A n \in Users \ {u} : user[n].email # e

(* At least one user; every user has an account, but none has two for one  *)
(* identity.                                                               *)
Init ==
    /\ config \in Configs
    /\ user \in [Names -> UserRow \cup {None}]
    /\ account \in [Names -> AccountRow \cup {None}]
    /\ \A r \in Requests : user[r] = None /\ account[r] = None
    /\ Users # {} /\ \A u \in Users : EmailFree(u, user[u].email) /\ Accounts(u) # {}
    /\ \A a \in Old : account[a] # None => account[a].user \in Users
    /\ \A a, b \in Old : account[a] = account[b] => a = b \/ account[a] = None
    /\ session = Nothing
    /\ flow = [f \in Flows |-> None]
    /\ pc = [r \in Requests |-> "idle"]
    /\ presented = Nothing /\ info = Nothing /\ seen = Nothing /\ target = Nothing
    /\ redeemed = [f \in Flows |-> {}]
    /\ vouched = {user[u].email : u \in {n \in Users : user[n].verified}}
    /\ events = 0 /\ changed = {} /\ overtaken = {}

CopyOf(u) == [id |-> u, email |-> user[u].email, verified |-> user[u].verified]

(* The requests that hold a copy of u and are at one of the stages.        *)
Holding(u, stages) == {q \in Requests : seen[q] # None /\ seen[q].id = u /\ pc[q] \in stages}

(* The requests that have found no account of the identity i.              *)
AboutToSave(i) == {q \in Requests : pc[q] \in Saving /\ info[q].identity = i}

Go(r, stage) == pc' = [pc EXCEPT ![r] = stage]
Proceed(r, stage) == Go(r, stage) /\ UNCHANGED <<presented, info, seen, target>>

(* The handler returns and its variables go out of scope.                  *)
Return(r) ==
    /\ Go(r, "done")
    /\ presented' = [presented EXCEPT ![r] = None]
    /\ info' = [info EXCEPT ![r] = None]
    /\ seen' = [seen EXCEPT ![r] = None]
    /\ target' = [target EXCEPT ![r] = None]

-----------------------------------------------------------------------------
(* generateOAuthState, for sign-in (link = None) and for linking: then the *)
(* row carries the user and the email of the session that asked.           *)
StartFlow(f, link) ==
    /\ flow[f] = None
    /\ link \in Users \cup {None}
    /\ flow' = [flow EXCEPT ![f] = [link |-> link,
                                    email |-> IF link = None THEN None ELSE user[link].email,
                                    gone |-> FALSE]]
    /\ UNCHANGED <<config, events, user, account, session, request, ghosts>>

Present(f) == flow[f] # None /\ ~flow[f].gone

(* parseOAuthState finds the row.  Its payload never changes, so that      *)
(* flow[f].link and flow[f].email stand for the copy a request keeps.      *)
CallbackFindState(r, f) ==
    /\ pc[r] = "idle"
    /\ Present(f)
    /\ presented' = [presented EXCEPT ![r] = f]
    /\ Go(r, "redeem")
    /\ UNCHANGED <<config, events, rows, info, seen, target, ghosts>>

TakeState(r, f) ==
    /\ flow' = [flow EXCEPT ![f].gone = TRUE]
    /\ \/ Return(r) /\ UNCHANGED redeemed
       \/ Proceed(r, "exchange") /\ redeemed' = [redeemed EXCEPT ![f] = @ \cup {r}]
    /\ UNCHANGED <<config, events, user, account, session, vouched, changed, overtaken>>

(* Bug form: the error of the delete is ignored, as ConsumeVerification does. *)
CallbackDeleteState_Unchecked(r) == pc[r] = "redeem" /\ TakeState(r, presented[r])

(* ... deletes it, where "not found" ends the request, and only then ends  *)
(* the request if it has expired: after ten minutes, at any time here.     *)
CallbackDeleteState(r) ==
    /\ pc[r] = "redeem"
    /\ Present(presented[r])
    /\ TakeState(r, presented[r])

-----------------------------------------------------------------------------
(* The provider's answer, to the code of a callback or for an ID token,    *)
(* and the first store call that follows it.                               *)

Learn(r, ui, copy, stage) ==
    /\ info' = [info EXCEPT ![r] = ui]
    /\ seen' = [seen EXCEPT ![r] = copy]
    /\ vouched' = IF ui.verified THEN vouched \cup {ui.email} ELSE vouched
    /\ Go(r, stage)
    /\ UNCHANGED <<config, events, rows, presented, target, redeemed, changed, overtaken>>

(* handleOAuthUserInfo: sign-in looks for the user by email, never for the *)
(* account.                                                                *)
FindUserByEmail(r, ui) ==
    \/ \E u \in Users : user[u].email = ui.email /\ Learn(r, ui, CopyOf(u), "listAccounts")
    \/ (\A u \in Users : user[u].email # ui.email) /\ Learn(r, ui, None, "createUser")

(* handleSocialIDTokenSignIn and handleOAuthCallback.                      *)
IDTokenSignIn(r, ui) == pc[r] = "idle" /\ FindUserByEmail(r, ui)

CallbackSignIn(r, ui) ==
    /\ pc[r] = "exchange" /\ flow[presented[r]].link = None
    /\ FindUserByEmail(r, ui)

linkingAllowed(ui) == config.linking /\ (ui.identity \in config.trusted \/ ui.verified)

(* CanLinkAccountEmail.                                                    *)
EmailAllowed(ui, email) == ui.email = email \/ config.allowDifferentEmails

CallbackLinks(r, ui) ==
    LET state == flow[presented[r]] IN
    /\ pc[r] = "exchange" /\ state.link # None
    /\ linkingAllowed(ui) /\ EmailAllowed(ui, state.email)
    /\ Learn(r, ui, [id |-> state.link, email |-> state.email, verified |-> FALSE], "linkSave")

(* Bug form: only the accounts of the linking user are looked at.          *)
LinkFindAccount_Own(r, ui) ==
    /\ pc[r] = "exchange"
    /\ Linked(flow[presented[r]].link, ui.identity) = {}
    /\ CallbackLinks(r, ui)

(* handleOAuthLinkCallback: FindAccountByProviderAndAccountID.  An account *)
(* that exists is no reason to write one: the request ends.                *)
LinkFindAccount(r, ui) ==
    /\ CallbackLinks(r, ui)
    /\ AccountsOf(ui.identity) = {}

(* linkWithIDToken reads the user with the session, asks the provider ...  *)
IDTokenLink(r, u, ui) ==
    /\ pc[r] = "idle"
    /\ u \in Users
    /\ Learn(r, ui, CopyOf(u), "ownAccounts")

ListOwnAccounts(r) ==
    /\ pc[r] = "ownAccounts"
    /\ linkingAllowed(info[r]) /\ EmailAllowed(info[r], seen[r].email)
    /\ Proceed(r, "linkSave")
    /\ UNCHANGED <<config, events, rows, ghosts>>

(* Bug form: no account is looked at.                                      *)
OwnAccounts_Unlisted(r) == ListOwnAccounts(r)

(* ... and looks at the accounts of that user only.                        *)
OwnAccounts(r) == ListOwnAccounts(r) /\ Linked(seen[r].id, info[r].identity) = {}

(* saveOAuthAccount and createLinkedAccount; nobody looks whether the user *)
(* is still there.                                                         *)
InsertAccount(r) ==
    /\ account' = [account EXCEPT ![r] = [user |-> seen[r].id, identity |-> info[r].identity]]
    /\ overtaken' = overtaken \cup (AboutToSave(info[r].identity) \ {r})
    /\ UNCHANGED <<config, events, user, session, flow, redeemed, vouched, changed>>

LinkSaveAccount(r) ==
    /\ pc[r] = "linkSave"
    /\ InsertAccount(r)
    /\ Return(r)

-----------------------------------------------------------------------------
(* linkOAuthToExistingUser.                                                *)

Proves(ui, copy) == ui.verified /\ ~copy.verified /\ ui.email = copy.email

AfterVerify(r) == IF presented[r] # None /\ config.overrideUserInfo THEN "override" ELSE "create"

AfterLink(r, copy) == IF Proves(info[r], copy) THEN "verify" ELSE AfterVerify(r)

(* Bug form: an account of an unverified user is linked as well.           *)
canImplicitLink_AnyLocal(u, ui) ==
    config.implicitLinking /\ (ui.identity \in config.trusted \/ ui.verified)

canImplicitLink(u, ui) ==
    /\ config.implicitLinking
    /\ config.requireLocalEmailVerified => u.verified
    /\ ui.identity \in config.trusted \/ ui.verified

(* Without a new token there is nothing to update, as may happen for an ID *)
(* token.                                                                  *)
ListAccounts(r) ==
    /\ pc[r] = "listAccounts"
    /\ LET linked == Linked(seen[r].id, info[r].identity) IN
          \/ linked = {} /\ canImplicitLink(seen[r], info[r]) /\ Proceed(r, "save")
          \/ \E a \in linked : /\ config.updateAccountOnSignIn
                               /\ target' = [target EXCEPT ![r] = a]
                               /\ Go(r, "tokens")
                               /\ UNCHANGED <<presented, info, seen>>
          \/ /\ linked # {}
             /\ ~config.updateAccountOnSignIn \/ presented[r] = None
             /\ Proceed(r, AfterLink(r, seen[r]))
    /\ UNCHANGED <<config, events, rows, ghosts>>

(* updateOAuthAccountTokens: an account that is gone ends the sign-in.     *)
UpdateTokens(r) ==
    /\ pc[r] = "tokens"
    /\ account[target[r]] # None
    /\ Proceed(r, AfterLink(r, seen[r]))
    /\ UNCHANGED <<config, events, rows, ghosts>>

AfterSave(r) == IF config.updateUserInfoOnLink THEN "refresh" ELSE AfterLink(r, seen[r])

(* Bug form: a failed insert does not end the sign-in.                     *)
SaveAccount_BestEffort(r) ==
    /\ pc[r] = "save"
    /\ \/ InsertAccount(r) /\ Proceed(r, AfterSave(r))
       \/ Proceed(r, AfterSave(r)) /\ UNCHANGED <<config, events, rows, ghosts>>

(* saveOAuthAccount of a sign-in.                                          *)
SaveAccount(r) ==
    /\ pc[r] = "save"
    /\ InsertAccount(r)
    /\ Proceed(r, AfterSave(r))

KeepCopy(r, copy, stage) ==
    /\ seen' = [seen EXCEPT ![r] = copy]
    /\ Go(r, stage)
    /\ UNCHANGED <<config, events, rows, presented, info, target, ghosts>>

(* Bug form: the row replaces the copy, without the id of the user.        *)
RefreshCopy_Row(r) ==
    /\ pc[r] = "refresh"
    /\ seen[r].id \in Users
    /\ KeepCopy(r, user[seen[r].id], "create")

(* applyUserInfoOnLink writes name and image and hands back the row as it  *)
(* is now; after an error, or with nothing to write, the old copy stays.   *)
RefreshCopy(r) ==
    /\ pc[r] = "refresh"
    /\ \/ KeepCopy(r, seen[r], AfterLink(r, seen[r]))
       \/ /\ seen[r].id \in Users
          /\ KeepCopy(r, CopyOf(seen[r].id), AfterLink(r, CopyOf(seen[r].id)))

(* Other requests that have read the email of u and will act on it.        *)
ReadEmail(r, u) == Holding(u, SignedIn \cup {"listAccounts", "save"}) \ {r}

WriteUser(r, u, row) ==
    /\ user' = [user EXCEPT ![u] = row]
    /\ changed' = IF row.email # user[u].email /\ ReadEmail(r, u) # {} THEN changed \cup {u}
                  ELSE changed
    /\ overtaken' = IF row.email # user[u].email \/ ~row.verified
                    THEN overtaken \cup ReadEmail(r, u)
                    ELSE overtaken

UpdateCopy(r, row, stage) ==
    /\ WriteUser(r, seen[r].id, row)
    /\ seen' = [seen EXCEPT ![r] = [@ EXCEPT !.email = row.email, !.verified = row.verified]]
    /\ Go(r, stage)
    /\ UNCHANGED <<config, events, account, session, flow, presented, info, target,
                   redeemed, vouched>>

(* UpdateUser with EmailVerified only: the row keeps the email it has now, *)
(* which need not be the one in the copy.                                  *)
MarkVerified(r) ==
    /\ pc[r] = "verify" /\ seen[r].id \in Users
    /\ UpdateCopy(r, [user[seen[r].id] EXCEPT !.verified = TRUE], AfterVerify(r))

(* overrideUserInfoOnSignIn.                                               *)
OverrideUserInfo(r) ==
    /\ pc[r] = "override" /\ seen[r].id \in Users
    /\ EmailFree(seen[r].id, info[r].email)
    /\ UpdateCopy(r, [email |-> info[r].email,
                      verified |-> info[r].verified
                                   \/ (seen[r].email = info[r].email /\ seen[r].verified)],
                  "create")

(* createSession: nothing looks again at the user or its accounts.         *)
CreateSession(r) ==
    /\ pc[r] = "create"
    /\ session' = [session EXCEPT ![r] = seen[r].id]
    /\ Return(r)
    /\ UNCHANGED <<config, events, user, account, flow, ghosts>>

-----------------------------------------------------------------------------
(* createOAuthUser: CreateUser refuses an email that is taken; a failure   *)
(* further on leaves the user without an account.                          *)

RegisterUser(r, row) ==
    /\ pc[r] = "createUser"
    /\ EmailFree(r, info[r].email)
    /\ user' = [user EXCEPT ![r] = row]
    /\ seen' = [seen EXCEPT ![r] = [id |-> r, email |-> row.email, verified |-> row.verified]]
    /\ Go(r, "register")
    /\ UNCHANGED <<config, events, account, session, flow, presented, info, target, ghosts>>

(* Bug form: an email from a provider counts as verified.                  *)
CreateUser_Verified(r) == RegisterUser(r, [email |-> info[r].email, verified |-> TRUE])

CreateUser(r) == RegisterUser(r, [email |-> info[r].email, verified |-> info[r].verified])

CreateUserAccount(r) ==
    /\ pc[r] = "register"
    /\ InsertAccount(r)
    /\ Proceed(r, "create")

-----------------------------------------------------------------------------
(* handleUnlinkAccount.  The caller's provider picks any account.          *)

Pick(r, u, a) ==
    /\ pc[r] = "idle"
    /\ u \in Users /\ a \in Accounts(u)
    /\ seen' = [seen EXCEPT ![r] = CopyOf(u)]
    /\ target' = [target EXCEPT ![r] = a]
    /\ Go(r, "delete")
    /\ UNCHANGED <<config, events, rows, presented, info, ghosts>>

(* Bug form: the accounts are not counted.                                 *)
UnlinkFindAccount_Uncounted(r, u, a) == Pick(r, u, a)

UnlinkFindAccount(r, u, a) ==
    /\ Cardinality(Accounts(u)) = 1 => config.allowUnlinkingAll
    /\ Pick(r, u, a)

(* DeleteAccount by id does not count again; "not found" is an error.      *)
DeleteAccount(r) ==
    /\ pc[r] = "delete"
    /\ account[target[r]] # None
    /\ account' = [account EXCEPT ![target[r]] = None]
    /\ overtaken' = overtaken \cup (Holding(seen[r].id, SignedIn \cup {"delete"}) \ {r})
    /\ Return(r)
    /\ UNCHANGED <<config, events, user, session, flow, redeemed, vouched, changed>>

-----------------------------------------------------------------------------
(* What other handlers do to the same rows.                                *)

Event == events < MaxEvents /\ events' = events + 1

(* handleVerifyEmail, as the row sees it.                                  *)
VerifyEmail(u) ==
    /\ Event
    /\ u \in Users /\ ~user[u].verified
    /\ user' = [user EXCEPT ![u].verified = TRUE]
    /\ vouched' = vouched \cup {user[u].email}
    /\ UNCHANGED <<config, account, session, flow, request, redeemed, changed, overtaken>>

(* handleVerifyEmailChange, as the row sees it: proved by the mailed link, *)
(* or to be proved by a second mail.                                       *)
ChangeEmail(u, e, proved) ==
    /\ Event
    /\ u \in Users /\ e # user[u].email /\ EmailFree(u, e)
    /\ WriteUser(None, u, [email |-> e, verified |-> proved])
    /\ vouched' = IF proved THEN vouched \cup {e} ELSE vouched
    /\ UNCHANGED <<config, account, session, flow, request, redeemed>>

(* DeleteUser, with its accounts and sessions.                             *)
DeleteUser(u) ==
    /\ Event
    /\ u \in Users
    /\ user' = [user EXCEPT ![u] = None]
    /\ account' = [n \in Names |-> IF n \in Accounts(u) THEN None ELSE account[n]]
    /\ session' = [r \in Requests |-> IF session[r] = u THEN None ELSE session[r]]
    /\ overtaken' = overtaken \cup Holding(u, Stages)
    /\ UNCHANGED <<config, flow, request, redeemed, vouched, changed>>

-----------------------------------------------------------------------------
(* A refused check, a failed store call, a server that stops.              *)
End(r) ==
    /\ pc[r] \notin {"idle", "done"}
    /\ Return(r)
    /\ UNCHANGED <<config, events, rows, ghosts>>

StartStep(r) ==
    \/ \E f \in Flows : CallbackFindState(r, f)
    \/ CallbackDeleteState(r)
    \/ \E ui \in UserInfo : IDTokenSignIn(r, ui) \/ CallbackSignIn(r, ui)

LinkStep(r) ==
    \/ \E ui \in UserInfo : LinkFindAccount(r, ui) \/ \E u \in Names : IDTokenLink(r, u, ui)
    \/ OwnAccounts(r) \/ LinkSaveAccount(r)

SignInStep(r) ==
    \/ ListAccounts(r) \/ UpdateTokens(r) \/ SaveAccount(r) \/ RefreshCopy(r)
    \/ MarkVerified(r) \/ OverrideUserInfo(r)
    \/ CreateUser(r) \/ CreateUserAccount(r) \/ CreateSession(r)

UnlinkStep(r) == (\E u, a \in Names : UnlinkFindAccount(r, u, a)) \/ DeleteAccount(r)

Next ==
    \/ \E r \in Requests : StartStep(r) \/ LinkStep(r) \/ SignInStep(r) \/ UnlinkStep(r) \/ End(r)
    \/ \E f \in Flows, link \in Names \cup {None} : StartFlow(f, link)
    \/ \E u \in Names : \/ VerifyEmail(u) \/ DeleteUser(u)
                        \/ \E e \in Emails, proved \in BOOLEAN : ChangeEmail(u, e, proved)

Spec == Init /\ [][Next]_vars

-----------------------------------------------------------------------------
(* Every row and every request is in one of its states.                    *)
TypeOK ==
    /\ config \in Configs
    /\ user \in [Names -> UserRow \cup {None}]
    /\ account \in [Names -> AccountRow \cup {None}]
    /\ session \in [Requests -> Names \cup {None}]
    /\ flow \in [Flows -> StateRow \cup {None}]
    /\ pc \in [Requests -> Stages]
    /\ presented \in [Requests -> Flows \cup {None}]
    /\ info \in [Requests -> UserInfo \cup {None}]
    /\ seen \in [Requests -> UserCopy \cup {None}]
    /\ target \in [Requests -> Names \cup {None}]
    /\ redeemed \in [Flows -> SUBSET Requests]
    /\ vouched \subseteq Emails /\ changed \subseteq Names /\ overtaken \subseteq Requests
    /\ events \in 0..MaxEvents

(* A flow is redeemed at most once, however many callbacks present it at   *)
(* the same time (parseOAuthState).                                        *)
StateRedeemedOnce ==
    \A f \in Flows : \A q, r \in redeemed[f] : q = r

(* A user has one account for an identity: a second one is written only by *)
(* a request whose look at the accounts another insert has overtaken.  The *)
(* store has no unique key that would say so.                              *)
OneAccountPerIdentity ==
    \A u \in Names, i \in Identities : \A a, b \in Linked(u, i) :
        a # b => a \in overtaken \/ b \in overtaken

(* A user's email is marked verified only when its owner has been proved,  *)
(* to a provider or by mail, unless it changed while a sign-in held a copy *)
(* of the old one (linkOAuthToExistingUser, createOAuthUser).              *)
VerifiedWasProved ==
    \A u \in Users : user[u].verified => user[u].email \in vouched \/ u \in changed

(* No unlink takes the last account of a user unless the configuration     *)
(* allows it or the accounts it counted were unlinked by another request.  *)
LastAccountKept ==
    [][account' # account => \A u \in Users :
          Accounts(u) # {} /\ Accounts(u)' = {} /\ user'[u] # None =>
              \/ config.allowUnlinkingAll
              \/ \E r \in overtaken : pc[r] = "delete" /\ pc'[r] = "done"]_vars

(* A link callback never ties an identity to a second user, unless an      *)
(* account for it was written since the callback looked.                   *)
LinkKeepsOwner ==
    [][\A r \in Requests :
          /\ pc[r] = "linkSave" /\ presented[r] # None
          /\ account'[r] # account[r]
          => AccountsOf(info[r].identity) = {} \/ r \in overtaken]_vars

(* A session of a sign-in with an identity is a session of a user who has  *)
(* an account for that identity, unless it went while the sign-in ran.     *)
SessionNeedsAccount ==
    [][\A r \in Requests :
          session[r] = None /\ session'[r] # None =>
              Linked(session'[r], info[r].identity) # {} \/ r \in overtaken]_vars

(* A sign-in adds an account to an existing user only if that user's email *)
(* is the provider's, is proved or need not be, and the provider vouches   *)
(* for it or is trusted, unless the user's email changed meanwhile.        *)
ImplicitLinkIsProved ==
    [][\A r \in Requests :
          pc[r] = "save" /\ account'[r] # account[r] /\ r \notin overtaken =>
              LET u == user[seen[r].id] IN
              /\ u.email = info[r].email
              /\ config.requireLocalEmailVerified => u.verified
              /\ info[r].identity \in config.trusted \/ info[r].verified]_vars

(* docs/authentication/account-management.md: "Cannot unlink the last      *)
(* remaining account unless AllowUnlinkingAll is enabled."                 *)
NeverUnlinksLast ==
    [][~config.allowUnlinkingAll => \A u \in Users :
          Accounts(u) # {} /\ user'[u] # None => Accounts(u)' # {}]_vars
=============================================================================
