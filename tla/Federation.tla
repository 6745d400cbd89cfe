----------------------------- MODULE Federation -----------------------------
(***************************************************************************)
(* Sign-in through providers that are configured or registered at run      *)
(* time: generic OAuth (plugins/genericoauth.go), SSO by OIDC and SAML     *)
(* (plugins/sso.go), and the refresh of the tokens a provider has issued,  *)
(* which the core routes for social providers do alike                     *)
(* (auth/account_tokens.go, auth/routes_account.go).                       *)
(*                                                                         *)
(* Every provider knows one identity, whose email it may state anew at     *)
(* each sign-in.  A request is a process; each read on which a decision    *)
(* hangs, each write and each question to a provider is a step, and a      *)
(* request may end at any of them (Stop): a call that fails, or a server   *)
(* that stops.  What is configured (sign-up, the emails an account may be  *)
(* linked under, whether the profile overrides) is chosen anew each time.  *)
(*                                                                         *)
(* Left out: the verified marks, names and images of users, the domains of *)
(* SSO providers, those that are configured and not registered, the        *)
(* columns of an account but its refresh token, the tokens of SSO accounts,*)
(* which nothing reads, and what makes a code or an assertion valid.       *)
(***************************************************************************)
EXTENDS FiniteSets

CONSTANTS Requests, UserIds, Emails, AccountIds, States, Tokens,
          Generic,    \* the ids of generic OAuth providers
          SSOIds,     \* the ids SSO providers are registered under
          None

Providers == Generic \cup SSOIds

Account == [user : UserIds, prov : Providers, tok : Tokens \cup {None}]
Flow    == [prov : Providers, link : UserIds \cup {None}]
Call    == [how : {"code", "saml", "access", "refresh"}, prov : Providers,
            link : UserIds \cup {None}, user : UserIds \cup {None}, email : Emails \cup {None},
            acc : AccountIds \cup {None}, tok : Tokens \cup {None}, copy : Tokens \cup {None}]

ASSUME NamesAssumption ==
    /\ Generic \cap SSOIds = {}
    /\ None \notin UserIds \cup Emails \cup AccountIds \cup States \cup Tokens \cup Providers
    /\ None \notin Account \cup Flow \cup Call       \* None is no record

VARIABLES
    users,         \* users[u]: the email of user u, or None
    accounts,      \* accounts[a]: the account row a, or None
    ssoProviders,  \* ssoProviders[p]: the configurations of p, or None
    states,        \* states[s]: the flow whose state row is s, or None
    pc, call,
    revoked,       \* the refresh tokens their provider honours no more
    mixed,         \* providers two requests found no account of at once, or whose
                   \* account was looked up in vain or deleted under a request
    spoilt         \* accounts that two refreshes held at once, whose new token was
                   \* not stored, or in which a revoked one took its place again

rows   == <<users, accounts, ssoProviders, states>>
ghosts == <<mixed, spoilt>>
vars   == <<rows, pc, call, revoked, ghosts>>

Init ==
    /\ users = [u \in UserIds |-> None]
    /\ accounts = [a \in AccountIds |-> None]
    /\ ssoProviders = [p \in SSOIds |-> None]
    /\ states = [s \in States |-> None]
    /\ pc = [r \in Requests |-> "idle"] /\ call = [r \in Requests |-> None]
    /\ revoked = {}
    /\ mixed = {} /\ spoilt = {}

Running(r) == call[r] # None
Stored(a)  == accounts[a] # None
Others(r)  == {q \in Requests \ {r} : Running(q)}

Keep(r, c, stage) ==
    /\ pc' = [pc EXCEPT ![r] = stage]
    /\ call' = [call EXCEPT ![r] = c]
Go(r, stage) == pc' = [pc EXCEPT ![r] = stage] /\ UNCHANGED call
Return(r)    == Keep(r, None, "idle")

(* Bound: all rows but users, all requests and what mixed remembers are of *)
(* one provider at a time.                                                 *)
Alone(p) ==
    /\ mixed \subseteq {p}
    /\ \A q \in SSOIds : ssoProviders[q] # None => q = p
    /\ \A s \in States : states[s] # None => states[s].prov = p
    /\ \A a \in AccountIds : Stored(a) => accounts[a].prov = p
    /\ \A q \in Requests : Running(q) => call[q].prov = p

Begin(r, c, stage) ==
    /\ pc[r] = "idle" /\ Alone(c.prov)
    /\ Keep(r, c, stage)

Request(how, p, link) ==
    [how |-> how, prov |-> p, link |-> link, user |-> None, email |-> None,
     acc |-> None, tok |-> None, copy |-> None]

(* Random names: a new one is referred to nowhere.                         *)
FreshUsers    == {u \in UserIds :
                    /\ users[u] = None
                    /\ \A a \in AccountIds : Stored(a) => accounts[a].user # u
                    /\ \A s \in States : states[s] # None => states[s].link # u
                    /\ \A q \in Requests : Running(q) => u \notin {call[q].user, call[q].link}}
FreshAccounts == {a \in AccountIds : ~Stored(a)
                                     /\ \A q \in Requests : Running(q) => call[q].acc # a}
FreshTokens   == Tokens \ ({accounts[a].tok : a \in {b \in AccountIds : Stored(b)}}
                             \cup UNION {{call[q].tok, call[q].copy} :
                                            q \in {x \in Requests : Running(x)}})

AccountsOf(p) == {a \in AccountIds : Stored(a) /\ accounts[a].prov = p}
ByEmail(e)    == {u \in UserIds : users[u] = e}

-----------------------------------------------------------------------------
(* SSO providers.  A registration has one of the two configurations; an    *)
(* update brings one of them and leaves the other in place.                *)
Configs == {"oidc", "saml"}

CreateSSOProvider(p, config) ==
    /\ Alone(p) /\ ssoProviders[p] = None
    /\ ssoProviders' = [ssoProviders EXCEPT ![p] = {config}]
    /\ UNCHANGED <<users, accounts, states, pc, call, revoked, ghosts>>

UpdateSSOProvider(p, config) ==
    /\ ssoProviders[p] # None
    /\ ssoProviders' = [ssoProviders EXCEPT ![p] = @ \cup {config}]
    /\ UNCHANGED <<users, accounts, states, pc, call, revoked, ghosts>>

DeleteSSOProvider(p) ==
    /\ ssoProviders[p] # None
    /\ ssoProviders' = [ssoProviders EXCEPT ![p] = None]
    /\ UNCHANGED <<users, accounts, states, pc, call, revoked, ghosts>>

-----------------------------------------------------------------------------
(* The beginning of a flow is one write, the row of its state.             *)
(* Bound: while every request is under way, no further flow begins.        *)
CreateState(p, link) ==
    /\ Alone(p) /\ \E q \in Requests : ~Running(q)
    /\ \E s \in States :
          /\ states[s] = None
          /\ states' = [states EXCEPT ![s] = [prov |-> p, link |-> link]]
    /\ UNCHANGED <<users, accounts, ssoProviders, pc, call, revoked, ghosts>>

SignInOAuth2(g)    == CreateState(g, None)
LinkOAuth2(g, u)   == users[u] # None /\ CreateState(g, u)

(* To a SAML provider nothing is stored.                                   *)
buildSSOOIDCRedirectURL(p) == CreateState(p, None)
SignInSSO(p) == ssoProviders[p] = {"oidc"} /\ buildSSOOIDCRedirectURL(p)

(* Both callbacks begin with ConsumeVerification, which does not look      *)
(* whether its delete has worked.                                          *)
Callback(r) ==
    \E s \in States :
       /\ states[s] # None
       /\ Begin(r, Request("code", states[s].prov, states[s].link), "exchange")
       /\ states' \in {states, [states EXCEPT ![s] = None]}
       /\ UNCHANGED <<users, accounts, ssoProviders, revoked, ghosts>>

(* The provider exchanges the code for tokens and tells the user's email.  *)
Issued == FreshTokens \cup {None}

Exchange(r) ==
    /\ pc[r] = "exchange" /\ call[r].prov \in Generic
    /\ \E e \in Emails, t \in Issued :
          /\ Keep(r, [call[r] EXCEPT !.email = e, !.tok = t],
                  IF call[r].link = None THEN "find" ELSE "link")
          /\ revoked' = revoked \ {t}
    /\ UNCHANGED <<rows, ghosts>>

(* What is accepted of an SSO provider depends on how it is configured now *)
(* and not on how it was when the flow began.                              *)
Configured(p) == IF ssoProviders[p] = None THEN {} ELSE ssoProviders[p]
Claimed(p)    == {e \in Emails : "oidc" \in Configured(p)}
Asserted(p)   == {e \in Emails : "saml" \in Configured(p)}

ExchangeSSO(r) ==
    /\ pc[r] = "exchange" /\ call[r].prov \in SSOIds
    /\ \E e \in Claimed(call[r].prov) : Keep(r, [call[r] EXCEPT !.email = e], "findSSO")
    /\ UNCHANGED <<rows, revoked, ghosts>>

(* The assertion consumer service: an assertion comes without a state.     *)
ACS(r) ==
    \E p \in SSOIds : \E e \in Asserted(p) :
       /\ Begin(r, [Request("saml", p, None) EXCEPT !.email = e], "findSSO")
       /\ UNCHANGED <<rows, revoked, ghosts>>

-----------------------------------------------------------------------------
(* The account of the identity.  Two requests that both find none are      *)
(* about to insert one each.                                               *)
Searching(q) == pc[q] \in {"byEmail", "createUser", "createAccount"}
FoundNone(r) ==
    mixed' = IF \E q \in Others(r) : Searching(q) /\ call[q].prov = call[r].prov
             THEN mixed \cup {call[r].prov} ELSE mixed

Found(r, a, stage) ==
    /\ Keep(r, [call[r] EXCEPT !.acc = a, !.user = accounts[a].user,
                               !.email = IF call[r].prov \in Generic THEN @ ELSE None], stage)
    /\ UNCHANGED mixed

FindAccount(r) ==
    LET p == call[r].prov IN
    /\ pc[r] = "find"
    /\ \/ \E a \in AccountsOf(p) : Found(r, a, "update")
       \/ AccountsOf(p) = {} /\ Go(r, "byEmail") /\ FoundNone(r)
    /\ UNCHANGED <<rows, revoked, spoilt>>

(* Bug form: accounts are looked up without the prefix of their provider's *)
(* name.                                                                   *)
FindSSOAccount_Unprefixed(r) ==
    /\ pc[r] = "findSSO"
    /\ Go(r, "byEmail") /\ FoundNone(r)
    /\ UNCHANGED <<rows, revoked, spoilt>>

(* An SSO sign-in takes any error of the lookup for an account not found.  *)
(* A SAML account has nothing to update.                                   *)
FindSSOAccount(r) ==
    LET p == call[r].prov IN
    /\ pc[r] = "findSSO"
    /\ \/ \E a \in AccountsOf(p) :
             Found(r, a, IF call[r].how = "saml" THEN "findUser" ELSE "updateSSO")
       \/ AccountsOf(p) = {} /\ Go(r, "byEmail") /\ FoundNone(r)
       \/ Go(r, "byEmail") /\ mixed' = mixed \cup {p}
    /\ UNCHANGED <<rows, revoked, spoilt>>

(* The store's UpdateAccount.  SQL selects the row and then writes all its *)
(* token columns from that copy, a new refresh token or the one it read;   *)
(* of a row that has gone in between it writes nothing and says ok.  In    *)
(* memory nothing can come in between.                                     *)
SelectRow(r, stage) ==
    LET a == call[r].acc IN
    \/ ~Stored(a) /\ Return(r)
    \/ /\ Stored(a)
       /\ Keep(r, [call[r] EXCEPT !.copy = IF call[r].tok = None THEN accounts[a].tok ELSE None],
               stage)

WriteRow(r) ==
    LET a == call[r].acc  t == call[r].tok IN
    accounts' = IF ~Stored(a) THEN accounts
                ELSE [accounts EXCEPT ![a].tok = IF t = None THEN call[r].copy ELSE t]

(* A copy of a token that has been replaced since and is honoured no more. *)
PutsBack(r) ==
    LET a == call[r].acc IN
    /\ Stored(a) /\ call[r].tok = None
    /\ call[r].copy \in revoked /\ accounts[a].tok # call[r].copy

Refreshing(q, a) == Running(q) /\ call[q].acc = a /\ pc[q] \in {"ask", "save", "saving"}

(* updateGenericOAuthAccount: an answer may hold nothing to update.        *)
Updated(r) ==
    IF call[r].link # None THEN Return(r)
    ELSE Keep(r, [call[r] EXCEPT !.tok = None, !.copy = None, !.acc = None], "findUser")

UpdateAccount(r) ==
    /\ pc[r] = "update"
    /\ SelectRow(r, "updating") \/ (call[r].tok = None /\ Updated(r))
    /\ UNCHANGED <<rows, revoked, ghosts>>

WriteUpdate(r) ==
    LET a == call[r].acc IN
    /\ pc[r] = "updating"
    /\ WriteRow(r) /\ Updated(r)
    /\ spoilt' = IF PutsBack(r) THEN spoilt \cup {a}
                 ELSE IF call[r].tok # None /\ \A q \in Others(r) : ~Refreshing(q, a)
                 THEN spoilt \ {a} ELSE spoilt
    /\ UNCHANGED <<users, ssoProviders, states, revoked, mixed>>

(* The tokens of SSO accounts are ones nothing reads: what is written of   *)
(* them does not show, and it may be nothing.                              *)
UpdateSSOAccount(r) ==
    /\ pc[r] = "updateSSO"
    /\ \/ ~Stored(call[r].acc) /\ Return(r)
       \/ Keep(r, [call[r] EXCEPT !.acc = None], "findUser")
    /\ UNCHANGED <<rows, revoked, ghosts>>

FindUser(r) ==
    /\ pc[r] = "findUser"
    /\ \/ users[call[r].user] = None /\ Return(r)
       \/ users[call[r].user] # None /\ Keep(r, [call[r] EXCEPT !.email = None], "session")
       \/ users[call[r].user] # None /\ call[r].prov \in Generic /\ Go(r, "override")
    /\ UNCHANGED <<rows, revoked, ghosts>>

(* In memory an email that is taken is written all the same.               *)
OverrideUserInfo(r) ==
    LET u == call[r].user IN
    /\ pc[r] = "override" /\ users[u] # None
    /\ users' = [users EXCEPT ![u] = call[r].email]
    /\ Keep(r, [call[r] EXCEPT !.email = None], "session")
    /\ UNCHANGED <<accounts, ssoProviders, states, revoked, ghosts>>

(* No account: generic OAuth refuses an email that a user has, SSO takes   *)
(* that user.                                                              *)
FindUserByEmail(r) ==
    /\ pc[r] = "byEmail" /\ call[r].prov \in Generic
    /\ IF ByEmail(call[r].email) # {} THEN Return(r) ELSE Go(r, "createUser")
    /\ UNCHANGED <<rows, revoked, ghosts>>

FindSSOUserByEmail(r) ==
    /\ pc[r] = "byEmail" /\ call[r].prov \in SSOIds
    /\ \/ \E u \in ByEmail(call[r].email) :
             Keep(r, [call[r] EXCEPT !.user = u, !.email = None], "createAccount")
       \/ ByEmail(call[r].email) = {} /\ Go(r, "createUser")
    /\ UNCHANGED <<rows, revoked, ghosts>>

CreateUser(r) ==
    /\ pc[r] = "createUser"
    /\ \/ ByEmail(call[r].email) # {} /\ Return(r) /\ UNCHANGED users
       \/ /\ ByEmail(call[r].email) = {}
          /\ \E u \in FreshUsers :
                /\ users' = [users EXCEPT ![u] = call[r].email]
                /\ Keep(r, [call[r] EXCEPT !.user = u, !.email = None], "createAccount")
    /\ UNCHANGED <<accounts, ssoProviders, states, revoked, ghosts>>

CreateAccount(r) ==
    /\ pc[r] = "createAccount"
    /\ \E a \in FreshAccounts :
          /\ accounts' = [accounts EXCEPT ![a] = [user |-> call[r].user, prov |-> call[r].prov,
                                                  tok |-> call[r].tok]]
          /\ spoilt' = spoilt \ {a}
          /\ IF call[r].link = None THEN Keep(r, [call[r] EXCEPT !.tok = None], "session")
                                    ELSE Return(r)
    /\ UNCHANGED <<users, ssoProviders, states, revoked, mixed>>

NewSession(r) ==
    /\ pc[r] = "session"
    /\ Return(r)
    /\ UNCHANGED <<rows, revoked, ghosts>>

(* handleGenericOAuthLinkCallback, where the emails may be linked.         *)
LinkAccount(r) ==
    LET p == call[r].prov  u == call[r].link IN
    /\ pc[r] = "link"
    /\ \/ \E a \in AccountsOf(p) :
             /\ accounts[a].user = u
             /\ Keep(r, [call[r] EXCEPT !.acc = a, !.user = u, !.email = None], "update")
             /\ UNCHANGED mixed
       \/ /\ AccountsOf(p) = {}
          /\ Keep(r, [call[r] EXCEPT !.user = u, !.email = None], "createAccount")
          /\ FoundNone(r)
    /\ UNCHANGED <<rows, revoked, spoilt>>

-----------------------------------------------------------------------------
(* /get-access-token and /account-info, when the access token has expired, *)
(* and /refresh-token read the account, ask the provider and write.        *)
ReadTokens(r, how) ==
    \E a \in AccountIds :
       /\ Stored(a) /\ accounts[a].tok # None
       /\ Begin(r, [Request(how, accounts[a].prov, None) EXCEPT
                        !.acc = a, !.tok = accounts[a].tok], "ask")
       /\ spoilt' = IF \E q \in Others(r) : Refreshing(q, a) THEN spoilt \cup {a} ELSE spoilt
       /\ UNCHANGED <<rows, revoked, mixed>>

GetAccessToken(r) == ReadTokens(r, "access")
AccountInfo(r)    == ReadTokens(r, "access")
RefreshToken(r)   == ReadTokens(r, "refresh")

(* A provider may answer with a new refresh token, and then the old one is *)
(* honoured no more.  Without one /refresh-token writes back what it read. *)
Ask(r) ==
    LET t == call[r].tok IN
    /\ pc[r] = "ask"
    /\ \/ t \in revoked /\ Return(r) /\ UNCHANGED revoked
       \/ t \notin revoked /\ UNCHANGED revoked
          /\ Keep(r, [call[r] EXCEPT !.tok = IF call[r].how = "refresh" THEN t ELSE None], "save")
       \/ /\ t \notin revoked
          /\ \E n \in FreshTokens :
                /\ revoked' = (revoked \cup {t}) \ {n}
                /\ Keep(r, [call[r] EXCEPT !.tok = n], "save")
    /\ UNCHANGED <<rows, ghosts>>

(* Bug form: the new refresh token is not written.                         *)
SaveTokens_AccessOnly(r) ==
    LET a == call[r].acc IN
    /\ pc[r] = "save" /\ call[r].how = "access"
    /\ IF Stored(a) THEN Keep(r, [call[r] EXCEPT !.tok = None, !.copy = accounts[a].tok], "saving")
                    ELSE Return(r)
    /\ UNCHANGED <<rows, revoked, ghosts>>

SaveTokens(r) ==
    /\ pc[r] = "save" /\ call[r].how = "access"
    /\ SelectRow(r, "saving")
    /\ UNCHANGED <<rows, revoked, ghosts>>

SaveRefreshed(r) ==
    /\ pc[r] = "save" /\ call[r].how = "refresh"
    /\ SelectRow(r, "saving")
    /\ UNCHANGED <<rows, revoked, ghosts>>

WriteTokens(r) ==
    /\ pc[r] = "saving"
    /\ WriteRow(r) /\ Return(r)
    /\ spoilt' = IF PutsBack(r) THEN spoilt \cup {call[r].acc} ELSE spoilt
    /\ UNCHANGED <<users, ssoProviders, states, revoked, mixed>>

-----------------------------------------------------------------------------
(* What goes on elsewhere: a user and all its accounts are deleted.        *)
DeleteUser(u) ==
    LET gone == {a \in AccountIds : Stored(a) /\ accounts[a].user = u}
        left == {p \in Providers : AccountsOf(p) \ gone = {}}
        used == {call[q].prov : q \in {x \in Requests : Running(x)}}
        lost == {accounts[a].prov : a \in gone} IN
    /\ users[u] # None
    /\ users' = [users EXCEPT ![u] = None]
    /\ accounts' = [a \in AccountIds |-> IF a \in gone THEN None ELSE accounts[a]]
    /\ mixed' = (mixed \ (left \ used)) \cup (lost \cap used)
    /\ spoilt' = spoilt \ gone
    /\ UNCHANGED <<ssoProviders, states, pc, call, revoked>>

SignUp(e) ==
    /\ ByEmail(e) = {}
    /\ \E u \in FreshUsers : users' = [users EXCEPT ![u] = e]
    /\ UNCHANGED <<accounts, ssoProviders, states, pc, call, revoked, ghosts>>

Stop(r) ==
    /\ pc[r] # "idle" /\ Return(r)
    /\ spoilt' = IF pc[r] \in {"save", "saving"} /\ call[r].tok # None
                 THEN spoilt \cup {call[r].acc} ELSE spoilt
    /\ UNCHANGED <<rows, revoked, mixed>>

Start(r) == Callback(r) \/ ACS(r) \/ GetAccessToken(r) \/ AccountInfo(r) \/ RefreshToken(r)

Step(r) ==
    \/ Exchange(r) \/ FindAccount(r) \/ UpdateAccount(r) \/ WriteUpdate(r) \/ FindUser(r)
    \/ OverrideUserInfo(r)
    \/ ExchangeSSO(r) \/ FindSSOAccount(r) \/ UpdateSSOAccount(r) \/ FindSSOUserByEmail(r)
    \/ FindUserByEmail(r) \/ CreateUser(r) \/ CreateAccount(r) \/ NewSession(r) \/ LinkAccount(r)
    \/ Ask(r) \/ SaveTokens(r) \/ SaveRefreshed(r) \/ WriteTokens(r) \/ Stop(r)

Next ==
    \/ \E p \in SSOIds, config \in Configs :
          CreateSSOProvider(p, config) \/ UpdateSSOProvider(p, config)
    \/ \E p \in SSOIds : DeleteSSOProvider(p) \/ SignInSSO(p)
    \/ \E g \in Generic : SignInOAuth2(g) \/ \E u \in UserIds : LinkOAuth2(g, u)
    \/ \E r \in Requests : Start(r) \/ Step(r)
    \/ \E u \in UserIds : DeleteUser(u)
    \/ \E e \in Emails : SignUp(e)

Spec == Init /\ [][Next]_vars

-----------------------------------------------------------------------------
(* As long as an identity has accounts they are one user's, and it signs   *)
(* in that user and no other, whatever email its provider states for it:   *)
(* unless two requests both found no account, a lookup failed, or the      *)
(* account was deleted under a request (ssoSessionFromOIDCUser,            *)
(* ssoSessionFromAssertion, genericOAuthSignInUser,                        *)
(* handleGenericOAuthLinkCallback).                                        *)
IdentityKeepsUser ==
    \A p \in Providers \ mixed :
       /\ \A a, b \in AccountsOf(p) : accounts[a].user = accounts[b].user
       /\ \A r \in Requests : pc[r] = "session" /\ call[r].prov = p =>
             call[r].user \in {accounts[a].user : a \in AccountsOf(p)}

(* The refresh token of an account is one its provider still honours, but  *)
(* while its successor is being stored, where two refreshes of the account *)
(* overlapped, or where the successor was lost: not written, or replaced   *)
(* by a write of a row that was read before (getValidAccessToken,          *)
(* handleRefreshToken and their generic counterparts, the UpdateAccount of *)
(* the SQL store).                                                         *)
TokenHonoured ==
    \A a \in AccountIds : Stored(a) /\ accounts[a].tok \in revoked =>
        a \in spoilt \/ \E r \in Requests : /\ pc[r] \in {"save", "saving"} /\ call[r].acc = a
                                          /\ call[r].tok # None
=============================================================================
