----------------------------- MODULE MemoryStore -----------------------------
(***************************************************************************)
(* The core tables of store/memory: the rows and the index maps beside     *)
(* them.  One lock guards the whole store, so one method is one action.    *)
(*                                                                         *)
(* A Go map is a function whose missing keys hold None; a nested index map *)
(* (accountIDsByUser, sessionTokensByUser) is a set, and a missing inner   *)
(* map is the empty set.  Rows keep what the indexes and the properties    *)
(* tell apart: a user is its email, an account its two keys and what it    *)
(* authenticates with, a session its owner and its mutable fields.         *)
(***************************************************************************)

CONSTANTS UserIds, Emails, AccountIds, Providers, ExternalIds, Secrets,
          Tokens, Stamps, Identifiers, Values, None

VARIABLES
    users, usersByEmail,
    accounts, accountsByProvider, accountsByUserProvider, accountIDsByUser,
    sessions, sessionTokensByUser,
    verifications,
    reply

userVars    == <<users, usersByEmail>>
accountVars == <<accounts, accountsByProvider, accountsByUserProvider, accountIDsByUser>>
sessionVars == <<sessions, sessionTokensByUser>>
vars == <<userVars, accountVars, sessionVars, verifications, reply>>

Account == [user : UserIds, provider : Providers, ext : ExternalIds, secret : Secrets]
Session == [user : UserIds, stamp : Stamps]

ASSUME NoneAssumption ==
    /\ None \notin UserIds /\ None \notin Emails /\ None \notin AccountIds /\ None \notin Tokens
    /\ None \notin Account /\ None \notin Session /\ None \notin Values

accountProviderKey     == Providers \X ExternalIds
accountUserProviderKey == UserIds \X Providers

ProviderKey(account)     == <<account.provider, account.ext>>
UserProviderKey(account) == <<account.user, account.provider>>

New ==
    /\ users = [u \in UserIds |-> None]
    /\ usersByEmail = [e \in Emails |-> None]
    /\ accounts = [a \in AccountIds |-> None]
    /\ accountsByProvider = [k \in accountProviderKey |-> None]
    /\ accountsByUserProvider = [k \in accountUserProviderKey |-> None]
    /\ accountIDsByUser = [u \in UserIds |-> {}]
    /\ sessions = [t \in Tokens |-> None]
    /\ sessionTokensByUser = [u \in UserIds |-> {}]
    /\ verifications = [i \in Identifiers |-> None]

Init == New /\ reply = "ok"

Refuse(error) ==
    /\ reply' = error
    /\ UNCHANGED <<userVars, accountVars, sessionVars, verifications>>

-----------------------------------------------------------------------------
(* The helpers that run under the lock, for a set of rows at once.         *)

(* accounts and the three account indexes once deleteAccountLocked has run  *)
(* for every id of ids: an index entry goes only when it names the row.     *)
accountsWithout(ids) ==
    [a \in AccountIds |-> IF a \in ids THEN None ELSE accounts[a]]

(* Bug form: the entry goes even when it names a later row.                *)
byProviderWithout_AnyRow(ids) ==
    [k \in accountProviderKey |->
        IF \E a \in ids : accounts[a] # None /\ ProviderKey(accounts[a]) = k
        THEN None ELSE accountsByProvider[k]]

byProviderWithout(ids) ==
    [k \in accountProviderKey |->
        IF \E a \in ids : /\ accounts[a] # None /\ ProviderKey(accounts[a]) = k
                          /\ accountsByProvider[k] = a
        THEN None ELSE accountsByProvider[k]]

(* Bug form: the entry is left behind.                                     *)
byUserProviderWithout_Kept(ids) == accountsByUserProvider

byUserProviderWithout(ids) ==
    [k \in accountUserProviderKey |->
        IF \E a \in ids : /\ accounts[a] # None /\ UserProviderKey(accounts[a]) = k
                          /\ accountsByUserProvider[k] = a
        THEN None ELSE accountsByUserProvider[k]]

idsByUserWithout(ids) ==
    [u \in UserIds |->
        accountIDsByUser[u] \ {a \in ids : accounts[a] # None /\ accounts[a].user = u}]

deleteAccountLocked(ids) ==
    /\ accounts' = accountsWithout(ids)
    /\ accountsByProvider' = byProviderWithout(ids)
    /\ accountsByUserProvider' = byUserProviderWithout(ids)
    /\ accountIDsByUser' = idsByUserWithout(ids)

(* Bug form: an overwritten or deleted session stays listed.               *)
tokensByUserWithout_Kept(tokens) == sessionTokensByUser

tokensByUserWithout(tokens) ==
    [u \in UserIds |->
        sessionTokensByUser[u] \ {t \in tokens : sessions[t] # None /\ sessions[t].user = u}]

deleteSessionLocked(tokens) ==
    /\ sessions' = [t \in Tokens |-> IF t \in tokens THEN None ELSE sessions[t]]
    /\ sessionTokensByUser' = tokensByUserWithout(tokens)

-----------------------------------------------------------------------------
(* Users.  user.ID is a fresh random id.  UpdateUser with an email changes *)
(* the index without looking whether the new email has an owner.           *)

CreateUser(u, e) ==
    /\ users[u] = None
    /\ \/ usersByEmail[e] # None /\ Refuse("alreadyExists")
       \/ /\ usersByEmail[e] = None
          /\ users' = [users EXCEPT ![u] = e]
          /\ usersByEmail' = [usersByEmail EXCEPT ![e] = u]
          /\ reply' = "ok"
          /\ UNCHANGED <<accountVars, sessionVars, verifications>>

(* Bug form: the old email keeps pointing to the user.                     *)
UpdateUserEmail_OldKept(u, e) ==
    /\ users[u] # None
    /\ users' = [users EXCEPT ![u] = e]
    /\ usersByEmail' = [usersByEmail EXCEPT ![e] = u]
    /\ reply' = "ok"
    /\ UNCHANGED <<accountVars, sessionVars, verifications>>

UpdateUserEmail(u, e) ==
    \/ users[u] = None /\ Refuse("notFound")
    \/ /\ users[u] # None
       /\ users' = [users EXCEPT ![u] = e]
       /\ usersByEmail' = [usersByEmail EXCEPT ![users[u]] = None, ![e] = u]
       /\ reply' = "ok"
       /\ UNCHANGED <<accountVars, sessionVars, verifications>>

(* Bug form: the sessions of the user are not removed with it.             *)
DeleteUser_SessionsKept(u) ==
    /\ users[u] # None
    /\ usersByEmail' = [usersByEmail EXCEPT ![users[u]] = None]
    /\ users' = [users EXCEPT ![u] = None]
    /\ deleteAccountLocked(accountIDsByUser[u])
    /\ reply' = "ok"
    /\ UNCHANGED <<sessionVars, verifications>>

DeleteUser(u) ==
    \/ users[u] = None /\ Refuse("notFound")
    \/ /\ users[u] # None
       /\ usersByEmail' = [usersByEmail EXCEPT ![users[u]] = None]
       /\ users' = [users EXCEPT ![u] = None]
       /\ deleteAccountLocked(accountIDsByUser[u])
       /\ deleteSessionLocked(sessionTokensByUser[u])
       /\ reply' = "ok"
       /\ UNCHANGED verifications

-----------------------------------------------------------------------------
(* Accounts.                                                               *)

CreateAccount(a, row) ==
    /\ accounts' = [accounts EXCEPT ![a] = row]
    /\ accountsByProvider' = [byProviderWithout({a}) EXCEPT ![ProviderKey(row)] = a]
    /\ accountsByUserProvider' = [byUserProviderWithout({a}) EXCEPT ![UserProviderKey(row)] = a]
    /\ accountIDsByUser' = [idsByUserWithout({a}) EXCEPT ![row.user] = @ \cup {a}]
    /\ reply' = "ok"
    /\ UNCHANGED <<userVars, sessionVars, verifications>>

(* Bug form: the secret replaces the row.                                  *)
SetSecret_WholeRow(a, s) ==
    /\ accounts' = [accounts EXCEPT ![a] = s]
    /\ reply' = "ok"
    /\ UNCHANGED <<userVars, accountsByProvider, accountsByUserProvider, accountIDsByUser,
                   sessionVars, verifications>>

SetSecret(a, s) ==
    /\ accounts' = [accounts EXCEPT ![a].secret = s]
    /\ reply' = "ok"
    /\ UNCHANGED <<userVars, accountsByProvider, accountsByUserProvider, accountIDsByUser,
                   sessionVars, verifications>>

UpdateAccount(a, s) ==
    \/ accounts[a] = None /\ Refuse("notFound")
    \/ accounts[a] # None /\ SetSecret(a, s)

UpdateAccountPassword(u, p, s) ==
    LET id == accountsByUserProvider[<<u, p>>]
    IN  \/ id = None /\ Refuse("notFound")
        \/ id # None /\ SetSecret(id, s)

DeleteAccount(a) ==
    \/ accounts[a] = None /\ Refuse("notFound")
    \/ /\ accounts[a] # None
       /\ deleteAccountLocked({a})
       /\ reply' = "ok"
       /\ UNCHANGED <<userVars, sessionVars, verifications>>

-----------------------------------------------------------------------------
(* Sessions.  Nothing checks that the owner of a new session still exists. *)

CreateSession(t, row) ==
    /\ sessions' = [sessions EXCEPT ![t] = row]
    /\ sessionTokensByUser' = [tokensByUserWithout({t}) EXCEPT ![row.user] = @ \cup {t}]
    /\ reply' = "ok"
    /\ UNCHANGED <<userVars, accountVars, verifications>>

UpdateSession(t, s) ==
    \/ sessions[t] = None /\ Refuse("notFound")
    \/ /\ sessions[t] # None
       /\ sessions' = [sessions EXCEPT ![t].stamp = s]
       /\ reply' = "ok"
       /\ UNCHANGED <<sessionTokensByUser, userVars, accountVars, verifications>>

DeleteSessions(tokens) ==
    /\ deleteSessionLocked(tokens)
    /\ reply' = "ok"
    /\ UNCHANGED <<userVars, accountVars, verifications>>

DeleteSession(t) == DeleteSessions({t})

DeleteSessionsByUserID(u, exceptToken) ==
    DeleteSessions(sessionTokensByUser[u] \ {exceptToken})

DeleteAllSessionsByUserID(u) == DeleteSessions(sessionTokensByUser[u])

-----------------------------------------------------------------------------
(* Verifications.                                                          *)

CreateVerification(i, v) ==
    /\ verifications' = [verifications EXCEPT ![i] = v]
    /\ reply' = "ok"
    /\ UNCHANGED <<userVars, accountVars, sessionVars>>

DeleteVerificationByIdentifier(i) ==
    \/ verifications[i] = None /\ Refuse("notFound")
    \/ /\ verifications[i] # None
       /\ verifications' = [verifications EXCEPT ![i] = None]
       /\ reply' = "ok"
       /\ UNCHANGED <<userVars, accountVars, sessionVars>>

-----------------------------------------------------------------------------
UserStep ==
    \E u \in UserIds :
       \/ \E e \in Emails : CreateUser(u, e) \/ UpdateUserEmail(u, e)
       \/ DeleteUser(u)

AccountStep ==
    \/ \E a \in AccountIds :
          \/ \E row \in Account : CreateAccount(a, row)
          \/ \E s \in Secrets : UpdateAccount(a, s)
          \/ DeleteAccount(a)
    \/ \E u \in UserIds, p \in Providers, s \in Secrets : UpdateAccountPassword(u, p, s)

SessionStep ==
    \/ \E t \in Tokens :
          \/ \E row \in Session : CreateSession(t, row)
          \/ \E s \in Stamps : UpdateSession(t, s)
          \/ DeleteSession(t)
    \/ \E u \in UserIds :
          \/ \E t \in Tokens : DeleteSessionsByUserID(u, t)
          \/ DeleteAllSessionsByUserID(u)

VerificationStep ==
    \E i \in Identifiers :
       \/ \E v \in Values : CreateVerification(i, v)
       \/ DeleteVerificationByIdentifier(i)

Next == UserStep \/ AccountStep \/ SessionStep \/ VerificationStep

Spec == Init /\ [][Next]_vars

-----------------------------------------------------------------------------
(* What a caller reads.                                                    *)

FindUserByEmail(e) == usersByEmail[e]

FindAccountByUserAndProvider(u, p) == accountsByUserProvider[<<u, p>>]

FindAccountByProviderAndAccountID(p, x) == accountsByProvider[<<p, x>>]

ListAccountsByUserID(u) == accountIDsByUser[u]

ListSessionsByUserID(u) == sessionTokensByUser[u]

FindSessionByToken(t) ==
    IF sessions[t] # None /\ users[sessions[t].user] # None THEN sessions[t] ELSE None

-----------------------------------------------------------------------------
(* Every table and index holds values of its type.                         *)
TypeOK ==
    /\ users \in [UserIds -> Emails \cup {None}]
    /\ usersByEmail \in [Emails -> UserIds \cup {None}]
    /\ accounts \in [AccountIds -> Account \cup {None}]
    /\ accountsByProvider \in [accountProviderKey -> AccountIds \cup {None}]
    /\ accountsByUserProvider \in [accountUserProviderKey -> AccountIds \cup {None}]
    /\ accountIDsByUser \in [UserIds -> SUBSET AccountIds]
    /\ sessions \in [Tokens -> Session \cup {None}]
    /\ sessionTokensByUser \in [UserIds -> SUBSET Tokens]
    /\ verifications \in [Identifiers -> Values \cup {None}]
    /\ reply \in {"ok", "notFound", "alreadyExists"}

(* FindUserByEmail dereferences users[usersByEmail[e]] without a check: the *)
(* id it finds is a live user that holds that very email.                   *)
EmailIndexSound ==
    \A e \in Emails : FindUserByEmail(e) # None => users[FindUserByEmail(e)] = e

(* The three account lookups dereference accounts[id] without a check: the  *)
(* ids they find are live accounts with the key that was asked for, and the *)
(* accounts of a user are exactly those listed for it.                      *)
AccountIndexesSound ==
    /\ \A p \in Providers, x \in ExternalIds :
          LET id == FindAccountByProviderAndAccountID(p, x)
          IN  id # None => accounts[id] # None /\ ProviderKey(accounts[id]) = <<p, x>>
    /\ \A u \in UserIds, p \in Providers :
          LET id == FindAccountByUserAndProvider(u, p)
          IN  id # None => accounts[id] # None /\ UserProviderKey(accounts[id]) = <<u, p>>
    /\ \A u \in UserIds, a \in AccountIds :
          a \in ListAccountsByUserID(u) <=> accounts[a] # None /\ accounts[a].user = u

(* sessionTokensByUser[u] is exactly the tokens of the sessions u owns, so  *)
(* revoking through it leaves no session of u and touches nobody else's.    *)
SessionIndexExact ==
    \A u \in UserIds, t \in Tokens :
        t \in ListSessionsByUserID(u) <=> sessions[t] # None /\ sessions[t].user = u

(* Two users never hold the same email, which is what store/sql says of     *)
(* "the in-memory adapter semantics".                                       *)
EmailUnique ==
    \A u, w \in UserIds : users[u] # None /\ users[u] = users[w] => u = w

(* Deleting a user leaves nothing of it in the tables that go by user.      *)
DeleteUserCascades ==
    [][\A u \in UserIds : users[u] # None /\ users'[u] = None =>
          /\ \A a \in AccountIds : accounts'[a] # None => accounts'[a].user # u
          /\ \A t \in Tokens : sessions'[t] # None => sessions'[t].user # u]_vars

-----------------------------------------------------------------------------
(* The indexes only decide which rows a lookup reaches.                    *)
unlisted == {u \in UserIds : users[u] # None /\ usersByEmail[users[u]] # u}
shadowed == {a \in AccountIds :
                accounts[a] # None /\ accountsByUserProvider[UserProviderKey(accounts[a])] # a}
detached == {a \in AccountIds :
                accounts[a] # None /\ accountsByProvider[ProviderKey(accounts[a])] # a}

Contract == INSTANCE StoreContract

(* Every behaviour of the indexed store is one of the tables alone.        *)
ImplementsContract == Contract!Spec
=============================================================================
