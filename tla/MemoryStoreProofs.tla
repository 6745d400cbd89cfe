-------------------------- MODULE MemoryStoreProofs --------------------------
(* Proofs about MemoryStore: its index invariants, for any sets of ids,    *)
(* and that it implements StoreContract.                                    *)
EXTENDS MemoryStore, TLAPS

(* The named parts of the index invariant, one per group of tables.         *)
UsersOK ==
    /\ users \in [UserIds -> Emails \cup {None}]
    /\ usersByEmail \in [Emails -> UserIds \cup {None}]
    /\ EmailIndexSound

AccountsOK ==
    /\ accounts \in [AccountIds -> Account \cup {None}]
    /\ accountsByProvider \in [accountProviderKey -> AccountIds \cup {None}]
    /\ accountsByUserProvider \in [accountUserProviderKey -> AccountIds \cup {None}]
    /\ accountIDsByUser \in [UserIds -> SUBSET AccountIds]
    /\ AccountIndexesSound

SessionsOK ==
    /\ sessions \in [Tokens -> Session \cup {None}]
    /\ sessionTokensByUser \in [UserIds -> SUBSET Tokens]
    /\ SessionIndexExact

RestOK ==
    /\ verifications \in [Identifiers -> Values \cup {None}]
    /\ reply \in {"ok", "notFound", "alreadyExists"}

IInv == UsersOK /\ AccountsOK /\ SessionsOK /\ RestOK

-----------------------------------------------------------------------------
(* Removing account rows keeps every account index exact: this is what      *)
(* DeleteUser and DeleteAccount rely on.                                    *)
LEMMA DeleteAccountsKeepsIndexes ==
    ASSUME AccountsOK, NEW ids \in SUBSET AccountIds, deleteAccountLocked(ids)
    PROVE  AccountsOK'
<1>1. accounts' \in [AccountIds -> Account \cup {None}]
  BY DEF AccountsOK, deleteAccountLocked, accountsWithout
<1>2. accountsByProvider' \in [accountProviderKey -> AccountIds \cup {None}]
  BY DEF AccountsOK, deleteAccountLocked, byProviderWithout
<1>3. accountsByUserProvider' \in [accountUserProviderKey -> AccountIds \cup {None}]
  BY DEF AccountsOK, deleteAccountLocked, byUserProviderWithout
<1>4. accountIDsByUser' \in [UserIds -> SUBSET AccountIds]
  BY DEF AccountsOK, deleteAccountLocked, idsByUserWithout
<1>5. AccountIndexesSound'
  <2>1. ASSUME NEW p \in Providers, NEW x \in ExternalIds,
               accountsByProvider'[<<p, x>>] # None
        PROVE  LET id == accountsByProvider'[<<p, x>>]
               IN  accounts'[id] # None /\ ProviderKey(accounts'[id]) = <<p, x>>
    <3> DEFINE k == <<p, x>>
               id == accountsByProvider[k]
    <3>1. k \in accountProviderKey
      BY DEF accountProviderKey
    <3>2. accountsByProvider'[k] = id /\ id # None
      BY <2>1, <3>1 DEF deleteAccountLocked, byProviderWithout
    <3>3. id \in AccountIds /\ accounts[id] # None /\ ProviderKey(accounts[id]) = k
      BY <3>1, <3>2 DEF AccountsOK, AccountIndexesSound, FindAccountByProviderAndAccountID
    <3>4. id \notin ids
      BY <3>1, <3>2, <3>3 DEF deleteAccountLocked, byProviderWithout
    <3> QED
      BY <3>2, <3>3, <3>4 DEF deleteAccountLocked, accountsWithout
  <2>2. ASSUME NEW u \in UserIds, NEW p \in Providers,
               accountsByUserProvider'[<<u, p>>] # None
        PROVE  LET id == accountsByUserProvider'[<<u, p>>]
               IN  accounts'[id] # None /\ UserProviderKey(accounts'[id]) = <<u, p>>
    <3> DEFINE k == <<u, p>>
               id == accountsByUserProvider[k]
    <3>1. k \in accountUserProviderKey
      BY DEF accountUserProviderKey
    <3>2. accountsByUserProvider'[k] = id /\ id # None
      BY <2>2, <3>1 DEF deleteAccountLocked, byUserProviderWithout
    <3>3. id \in AccountIds /\ accounts[id] # None /\ UserProviderKey(accounts[id]) = k
      BY <3>1, <3>2 DEF AccountsOK, AccountIndexesSound, FindAccountByUserAndProvider
    <3>4. id \notin ids
      BY <3>1, <3>2, <3>3 DEF deleteAccountLocked, byUserProviderWithout
    <3> QED
      BY <3>2, <3>3, <3>4 DEF deleteAccountLocked, accountsWithout
  <2>3. ASSUME NEW u \in UserIds, NEW a \in AccountIds
        PROVE  a \in accountIDsByUser'[u] <=> accounts'[a] # None /\ accounts'[a].user = u
    BY DEF AccountsOK, AccountIndexesSound, ListAccountsByUserID, deleteAccountLocked,
           accountsWithout, idsByUserWithout
  <2> QED
    BY <2>1, <2>2, <2>3 DEF AccountIndexesSound, FindAccountByProviderAndAccountID,
       FindAccountByUserAndProvider, ListAccountsByUserID
<1> QED
  BY <1>1, <1>2, <1>3, <1>4, <1>5 DEF AccountsOK

(* Removing session rows keeps the session index exact.                     *)
LEMMA DeleteSessionsKeepsIndex ==
    ASSUME SessionsOK, NEW tokens \in SUBSET Tokens, deleteSessionLocked(tokens)
    PROVE  SessionsOK'
BY DEF SessionsOK, SessionIndexExact, ListSessionsByUserID, deleteSessionLocked,
       tokensByUserWithout

-----------------------------------------------------------------------------
(* The store starts empty, with indexes that agree with that.               *)
LEMMA InitIInv == Init => IInv
BY NoneAssumption DEF Init, New, IInv, UsersOK, AccountsOK, SessionsOK, RestOK, EmailIndexSound,
   FindUserByEmail, AccountIndexesSound, FindAccountByProviderAndAccountID,
   FindAccountByUserAndProvider, ListAccountsByUserID, SessionIndexExact, ListSessionsByUserID,
   accountProviderKey, accountUserProviderKey

(* A step that leaves a group of tables alone keeps its part of IInv.       *)
LEMMA UsersUnchanged == UsersOK /\ UNCHANGED userVars => UsersOK'
BY DEF UsersOK, EmailIndexSound, FindUserByEmail, userVars

LEMMA AccountsUnchanged == AccountsOK /\ UNCHANGED accountVars => AccountsOK'
BY DEF AccountsOK, AccountIndexesSound, FindAccountByProviderAndAccountID,
   FindAccountByUserAndProvider, ListAccountsByUserID, accountVars

LEMMA SessionsUnchanged == SessionsOK /\ UNCHANGED sessionVars => SessionsOK'
BY DEF SessionsOK, SessionIndexExact, ListSessionsByUserID, sessionVars

(* A refused call changes no row.                                           *)
LEMMA RefuseKeepsIInv ==
    ASSUME IInv, NEW error \in {"notFound", "alreadyExists"}, Refuse(error)
    PROVE  IInv'
BY UsersUnchanged, AccountsUnchanged, SessionsUnchanged DEF Refuse, IInv, RestOK

-----------------------------------------------------------------------------
(* Each step of each group keeps the invariant.                             *)
LEMMA UserStepKeepsIInv == IInv /\ UserStep => IInv'
<1> SUFFICES ASSUME IInv, UserStep PROVE IInv'
  OBVIOUS
<1>1. ASSUME NEW u \in UserIds, NEW e \in Emails, CreateUser(u, e)
      PROVE  IInv'
  <2>1. CASE Refuse("alreadyExists")
    BY <2>1, RefuseKeepsIInv
  <2>2. CASE ~Refuse("alreadyExists")
    <3>1. /\ users[u] = None /\ usersByEmail[e] = None
          /\ users' = [users EXCEPT ![u] = e]
          /\ usersByEmail' = [usersByEmail EXCEPT ![e] = u]
          /\ reply' = "ok"
          /\ UNCHANGED <<accountVars, sessionVars, verifications>>
      BY <1>1, <2>2 DEF CreateUser
    <3>2. UsersOK'
      BY <3>1, NoneAssumption DEF IInv, UsersOK, EmailIndexSound, FindUserByEmail
    <3> QED
      BY <3>1, <3>2, AccountsUnchanged, SessionsUnchanged DEF IInv, RestOK
  <2> QED BY <2>1, <2>2
<1>2. ASSUME NEW u \in UserIds, NEW e \in Emails, UpdateUserEmail(u, e)
      PROVE  IInv'
  <2>1. CASE Refuse("notFound")
    BY <2>1, RefuseKeepsIInv
  <2>2. CASE ~Refuse("notFound")
    <3>1. /\ users[u] # None
          /\ users' = [users EXCEPT ![u] = e]
          /\ usersByEmail' = [usersByEmail EXCEPT ![users[u]] = None, ![e] = u]
          /\ reply' = "ok"
          /\ UNCHANGED <<accountVars, sessionVars, verifications>>
      BY <1>2, <2>2 DEF UpdateUserEmail
    <3>2. UsersOK'
      BY <3>1, NoneAssumption DEF IInv, UsersOK, EmailIndexSound, FindUserByEmail
    <3> QED
      BY <3>1, <3>2, AccountsUnchanged, SessionsUnchanged DEF IInv, RestOK
  <2> QED BY <2>1, <2>2
<1>3. ASSUME NEW u \in UserIds, DeleteUser(u)
      PROVE  IInv'
  <2>1. CASE Refuse("notFound")
    BY <2>1, RefuseKeepsIInv
  <2>2. CASE ~Refuse("notFound")
    <3>1. /\ users[u] # None
          /\ usersByEmail' = [usersByEmail EXCEPT ![users[u]] = None]
          /\ users' = [users EXCEPT ![u] = None]
          /\ deleteAccountLocked(accountIDsByUser[u])
          /\ deleteSessionLocked(sessionTokensByUser[u])
          /\ reply' = "ok"
          /\ UNCHANGED verifications
      BY <1>3, <2>2 DEF DeleteUser
    <3>2. UsersOK'
      BY <3>1, NoneAssumption DEF IInv, UsersOK, EmailIndexSound, FindUserByEmail
    <3>3. accountIDsByUser[u] \in SUBSET AccountIds /\ sessionTokensByUser[u] \in SUBSET Tokens
      BY DEF IInv, AccountsOK, SessionsOK
    <3>4. AccountsOK' /\ SessionsOK'
      BY <3>1, <3>3, DeleteAccountsKeepsIndexes, DeleteSessionsKeepsIndex DEF IInv
    <3> QED
      BY <3>1, <3>2, <3>4 DEF IInv, RestOK
  <2> QED BY <2>1, <2>2
<1> QED
  BY <1>1, <1>2, <1>3 DEF UserStep

LEMMA CreateAccountKeepsIndexes ==
    ASSUME AccountsOK, NEW a \in AccountIds, NEW row \in Account, CreateAccount(a, row)
    PROVE  AccountsOK'
<1> DEFINE byProvider == byProviderWithout({a})
           byUser     == byUserProviderWithout({a})
           ids        == idsByUserWithout({a})
<1>1. /\ ProviderKey(row) \in accountProviderKey
      /\ UserProviderKey(row) \in accountUserProviderKey
      /\ row.user \in UserIds
  BY DEF Account, ProviderKey, UserProviderKey, accountProviderKey, accountUserProviderKey
<1>2. /\ byProvider \in [accountProviderKey -> AccountIds \cup {None}]
      /\ byUser \in [accountUserProviderKey -> AccountIds \cup {None}]
      /\ ids \in [UserIds -> SUBSET AccountIds]
  BY DEF AccountsOK, byProviderWithout, byUserProviderWithout, idsByUserWithout
<1>3. /\ accounts' = [accounts EXCEPT ![a] = row]
      /\ accountsByProvider' = [byProvider EXCEPT ![ProviderKey(row)] = a]
      /\ accountsByUserProvider' = [byUser EXCEPT ![UserProviderKey(row)] = a]
      /\ accountIDsByUser' = [ids EXCEPT ![row.user] = @ \cup {a}]
  BY DEF CreateAccount
<1>4. row # None
  BY NoneAssumption
<1>5. \A k \in accountProviderKey : byProvider[k] # None =>
          byProvider[k] \in AccountIds \ {a} /\ accounts[byProvider[k]] # None
            /\ ProviderKey(accounts[byProvider[k]]) = k
  <2> SUFFICES ASSUME NEW p \in Providers, NEW x \in ExternalIds, byProvider[<<p, x>>] # None
               PROVE  LET b == byProvider[<<p, x>>]
                      IN  b \in AccountIds \ {a} /\ accounts[b] # None
                            /\ ProviderKey(accounts[b]) = <<p, x>>
    BY DEF accountProviderKey
  <2>1. <<p, x>> \in accountProviderKey
    BY DEF accountProviderKey
  <2>2. byProvider[<<p, x>>] = accountsByProvider[<<p, x>>]
    BY <2>1 DEF byProviderWithout
  <2>3. LET b == accountsByProvider[<<p, x>>]
        IN  b \in AccountIds /\ accounts[b] # None /\ ProviderKey(accounts[b]) = <<p, x>>
    BY <2>1, <2>2 DEF AccountsOK, AccountIndexesSound, FindAccountByProviderAndAccountID
  <2>4. accountsByProvider[<<p, x>>] # a
    BY <2>1, <2>2, <2>3 DEF byProviderWithout
  <2> QED BY <2>2, <2>3, <2>4
<1>6. \A k \in accountUserProviderKey : byUser[k] # None =>
          byUser[k] \in AccountIds \ {a} /\ accounts[byUser[k]] # None
            /\ UserProviderKey(accounts[byUser[k]]) = k
  <2> SUFFICES ASSUME NEW u \in UserIds, NEW p \in Providers, byUser[<<u, p>>] # None
               PROVE  LET b == byUser[<<u, p>>]
                      IN  b \in AccountIds \ {a} /\ accounts[b] # None
                            /\ UserProviderKey(accounts[b]) = <<u, p>>
    BY DEF accountUserProviderKey
  <2>1. <<u, p>> \in accountUserProviderKey
    BY DEF accountUserProviderKey
  <2>2. byUser[<<u, p>>] = accountsByUserProvider[<<u, p>>]
    BY <2>1 DEF byUserProviderWithout
  <2>3. LET b == accountsByUserProvider[<<u, p>>]
        IN  b \in AccountIds /\ accounts[b] # None /\ UserProviderKey(accounts[b]) = <<u, p>>
    BY <2>1, <2>2 DEF AccountsOK, AccountIndexesSound, FindAccountByUserAndProvider
  <2>4. accountsByUserProvider[<<u, p>>] # a
    BY <2>1, <2>2, <2>3 DEF byUserProviderWithout
  <2> QED BY <2>2, <2>3, <2>4
<1>7. \A u \in UserIds, b \in AccountIds :
          b \in ids[u] <=> b # a /\ accounts[b] # None /\ accounts[b].user = u
  BY DEF AccountsOK, AccountIndexesSound, ListAccountsByUserID, idsByUserWithout
<1> HIDE DEF byProvider, byUser, ids
<1>8. \A k \in accountProviderKey : accountsByProvider'[k] # None =>
          accounts'[accountsByProvider'[k]] # None
            /\ ProviderKey(accounts'[accountsByProvider'[k]]) = k
  BY <1>1, <1>2, <1>3, <1>4, <1>5 DEF AccountsOK
<1>9. \A k \in accountUserProviderKey : accountsByUserProvider'[k] # None =>
          accounts'[accountsByUserProvider'[k]] # None
            /\ UserProviderKey(accounts'[accountsByUserProvider'[k]]) = k
  BY <1>1, <1>2, <1>3, <1>4, <1>6 DEF AccountsOK
<1>10. \A u \in UserIds, b \in AccountIds :
          b \in accountIDsByUser'[u] <=> accounts'[b] # None /\ accounts'[b].user = u
  BY <1>1, <1>2, <1>3, <1>4, <1>7 DEF AccountsOK
<1>11. AccountIndexesSound'
  BY <1>8, <1>9, <1>10 DEF AccountIndexesSound, FindAccountByProviderAndAccountID,
     FindAccountByUserAndProvider, ListAccountsByUserID, accountProviderKey, accountUserProviderKey
<1> QED
  BY <1>1, <1>2, <1>3, <1>11 DEF AccountsOK

LEMMA SetSecretKeepsIInv ==
    ASSUME IInv, NEW a \in AccountIds, NEW s \in Secrets, accounts[a] # None, SetSecret(a, s)
    PROVE  IInv'
<1>1. accounts[a] \in Account
  BY DEF IInv, AccountsOK
<1>2. /\ accounts' = [accounts EXCEPT ![a].secret = s]
      /\ [accounts[a] EXCEPT !.secret = s] \in Account
      /\ UNCHANGED <<accountsByProvider, accountsByUserProvider, accountIDsByUser>>
      /\ reply' = "ok" /\ UNCHANGED <<userVars, sessionVars, verifications>>
  BY <1>1 DEF SetSecret, Account
<1>3. /\ accounts' \in [AccountIds -> Account \cup {None}]
      /\ \A b \in AccountIds :
            /\ (accounts'[b] # None) <=> (accounts[b] # None)
            /\ ProviderKey(accounts'[b]) = ProviderKey(accounts[b])
            /\ UserProviderKey(accounts'[b]) = UserProviderKey(accounts[b])
            /\ accounts'[b].user = accounts[b].user
  BY <1>1, <1>2, NoneAssumption DEF IInv, AccountsOK, Account, ProviderKey, UserProviderKey
<1>4. AccountIndexesSound'
  <2>1. \A p \in Providers, x \in ExternalIds : <<p, x>> \in accountProviderKey
    BY DEF accountProviderKey
  <2>2. \A u \in UserIds, p \in Providers : <<u, p>> \in accountUserProviderKey
    BY DEF accountUserProviderKey
  <2>3. \A p \in Providers, x \in ExternalIds :
            accountsByProvider[<<p, x>>] \in AccountIds \cup {None}
    BY <2>1 DEF IInv, AccountsOK
  <2>4. \A u \in UserIds, p \in Providers :
            accountsByUserProvider[<<u, p>>] \in AccountIds \cup {None}
    BY <2>2 DEF IInv, AccountsOK
  <2> QED
    BY <1>2, <1>3, <2>3, <2>4 DEF IInv, AccountsOK, AccountIndexesSound,
       FindAccountByProviderAndAccountID, FindAccountByUserAndProvider, ListAccountsByUserID
<1>5. AccountsOK'
  BY <1>2, <1>3, <1>4 DEF IInv, AccountsOK
<1> QED
  BY <1>2, <1>5, UsersUnchanged, SessionsUnchanged DEF IInv, RestOK

LEMMA AccountStepKeepsIInv == IInv /\ AccountStep => IInv'
<1> SUFFICES ASSUME IInv, AccountStep PROVE IInv'
  OBVIOUS
<1>1. ASSUME NEW a \in AccountIds, NEW row \in Account, CreateAccount(a, row)
      PROVE  IInv'
  <2>1. AccountsOK'
    BY <1>1, CreateAccountKeepsIndexes DEF IInv
  <2>2. reply' = "ok" /\ UNCHANGED <<userVars, sessionVars, verifications>>
    BY <1>1 DEF CreateAccount
  <2> QED
    BY <2>1, <2>2, UsersUnchanged, SessionsUnchanged DEF IInv, RestOK
<1>2. ASSUME NEW a \in AccountIds, NEW s \in Secrets, UpdateAccount(a, s)
      PROVE  IInv'
  BY <1>2, RefuseKeepsIInv, SetSecretKeepsIInv DEF UpdateAccount
<1>3. ASSUME NEW a \in AccountIds, DeleteAccount(a)
      PROVE  IInv'
  <2>1. CASE Refuse("notFound")
    BY <2>1, RefuseKeepsIInv
  <2>2. CASE ~Refuse("notFound")
    <3>1. /\ deleteAccountLocked({a})
          /\ reply' = "ok" /\ UNCHANGED <<userVars, sessionVars, verifications>>
      BY <1>3, <2>2 DEF DeleteAccount
    <3>2. AccountsOK'
      BY <3>1, DeleteAccountsKeepsIndexes DEF IInv
    <3> QED
      BY <3>1, <3>2, UsersUnchanged, SessionsUnchanged DEF IInv, RestOK
  <2> QED BY <2>1, <2>2
<1>4. ASSUME NEW u \in UserIds, NEW p \in Providers, NEW s \in Secrets,
             UpdateAccountPassword(u, p, s)
      PROVE  IInv'
  <2> DEFINE id == accountsByUserProvider[<<u, p>>]
  <2>1. CASE id = None
    BY <1>4, <2>1, RefuseKeepsIInv DEF UpdateAccountPassword, SetSecret
  <2>2. CASE id # None
    <3>1. id \in AccountIds /\ accounts[id] # None
      BY <2>2 DEF IInv, AccountsOK, AccountIndexesSound, FindAccountByUserAndProvider,
         accountUserProviderKey
    <3>2. SetSecret(id, s)
      BY <1>4, <2>2 DEF UpdateAccountPassword
    <3> QED
      BY <3>1, <3>2, SetSecretKeepsIInv
  <2> QED BY <2>1, <2>2
<1> QED
  BY <1>1, <1>2, <1>3, <1>4 DEF AccountStep

LEMMA SessionStepKeepsIInv == IInv /\ SessionStep => IInv'
<1> SUFFICES ASSUME IInv, SessionStep PROVE IInv'
  OBVIOUS
<1>1. ASSUME NEW t \in Tokens, NEW row \in Session, CreateSession(t, row)
      PROVE  IInv'
  <2>1. row.user \in UserIds /\ row # None
    BY NoneAssumption DEF Session
  <2>2. SessionsOK'
    BY <1>1, <2>1 DEF CreateSession, tokensByUserWithout, IInv, SessionsOK, SessionIndexExact,
       ListSessionsByUserID
  <2>3. reply' = "ok" /\ UNCHANGED <<userVars, accountVars, verifications>>
    BY <1>1 DEF CreateSession
  <2> QED
    BY <2>2, <2>3, UsersUnchanged, AccountsUnchanged DEF IInv, RestOK
<1>2. ASSUME NEW t \in Tokens, NEW s \in Stamps, UpdateSession(t, s)
      PROVE  IInv'
  <2>1. CASE Refuse("notFound")
    BY <2>1, RefuseKeepsIInv
  <2>2. CASE ~Refuse("notFound")
    <3>1. /\ sessions[t] # None
          /\ sessions' = [sessions EXCEPT ![t].stamp = s]
          /\ reply' = "ok"
          /\ UNCHANGED <<sessionTokensByUser, userVars, accountVars, verifications>>
      BY <1>2, <2>2 DEF UpdateSession
    <3>2. sessions[t] \in Session
      BY <3>1 DEF IInv, SessionsOK
    <3>3. SessionsOK'
      BY <3>1, <3>2, NoneAssumption DEF IInv, SessionsOK, Session, SessionIndexExact,
         ListSessionsByUserID
    <3> QED
      BY <3>1, <3>3, UsersUnchanged, AccountsUnchanged DEF IInv, RestOK
  <2> QED BY <2>1, <2>2
<1>3. ASSUME NEW tokens \in SUBSET Tokens, DeleteSessions(tokens)
      PROVE  IInv'
  <2>1. SessionsOK'
    BY <1>3, DeleteSessionsKeepsIndex DEF IInv, DeleteSessions
  <2> QED
    BY <1>3, <2>1, UsersUnchanged, AccountsUnchanged DEF DeleteSessions, IInv, RestOK
<1>4. \A u \in UserIds : sessionTokensByUser[u] \in SUBSET Tokens
  BY DEF IInv, SessionsOK
<1> QED
  BY <1>1, <1>2, <1>3, <1>4 DEF SessionStep, DeleteSession, DeleteSessionsByUserID,
     DeleteAllSessionsByUserID

LEMMA VerificationStepKeepsIInv == IInv /\ VerificationStep => IInv'
<1> SUFFICES ASSUME IInv, NEW i \in Identifiers,
                    \/ \E v \in Values : CreateVerification(i, v)
                    \/ DeleteVerificationByIdentifier(i)
             PROVE  IInv'
  BY DEF VerificationStep
<1>1. RestOK'
  BY DEF CreateVerification, DeleteVerificationByIdentifier, Refuse, IInv, RestOK
<1>2. UNCHANGED <<userVars, accountVars, sessionVars>>
  BY DEF CreateVerification, DeleteVerificationByIdentifier, Refuse
<1> QED
  BY <1>1, <1>2, UsersUnchanged, AccountsUnchanged, SessionsUnchanged DEF IInv

-----------------------------------------------------------------------------
(* The index invariant holds in every reachable state: no lookup of the     *)
(* in-memory store dereferences a row that is not there.                    *)
LEMMA NextKeepsIInv == IInv /\ [Next]_vars => IInv'
<1>1. IInv /\ UNCHANGED vars => IInv'
  BY UsersUnchanged, AccountsUnchanged, SessionsUnchanged DEF vars, IInv, RestOK
<1> QED
  BY <1>1, UserStepKeepsIInv, AccountStepKeepsIInv, SessionStepKeepsIInv,
     VerificationStepKeepsIInv DEF Next

LEMMA Inductive == Spec => []IInv
<1> QED BY InitIInv, NextKeepsIInv, PTL DEF Spec

(* Every table and every index holds values of its type.                    *)
THEOREM TypeCorrect == Spec => []TypeOK
<1>1. IInv => TypeOK
  BY DEF IInv, UsersOK, AccountsOK, SessionsOK, RestOK, TypeOK
<1> QED BY <1>1, Inductive, PTL

(* FindUserByEmail never dereferences a missing user, and returns a user    *)
(* with the email it was asked for.                                         *)
THEOREM EmailIndexIsSound == Spec => []EmailIndexSound
<1>1. IInv => EmailIndexSound
  BY DEF IInv, UsersOK
<1> QED BY <1>1, Inductive, PTL

(* The account lookups never dereference a missing account and never        *)
(* return an account with another key than the one asked for.               *)
THEOREM AccountIndexesAreSound == Spec => []AccountIndexesSound
<1>1. IInv => AccountIndexesSound
  BY DEF IInv, AccountsOK
<1> QED BY <1>1, Inductive, PTL

(* The sessions listed for a user are exactly the sessions it owns.         *)
THEOREM SessionIndexIsExact == Spec => []SessionIndexExact
<1>1. IInv => SessionIndexExact
  BY DEF IInv, SessionsOK
<1> QED BY <1>1, Inductive, PTL

-----------------------------------------------------------------------------
(* Removing by the per-user indexes removes by owner: the deletions that    *)
(* walk an index are the deletions StoreContract states on the tables.      *)
LEMMA DeletionByIndexIsByOwner ==
    ASSUME IInv, NEW u \in UserIds
    PROVE  /\ accountIDsByUser[u] = {a \in AccountIds : accounts[a] # None /\ accounts[a].user = u}
           /\ sessionTokensByUser[u] = {t \in Tokens : sessions[t] # None /\ sessions[t].user = u}
<1>1. accountIDsByUser[u] \in SUBSET AccountIds /\ sessionTokensByUser[u] \in SUBSET Tokens
  BY DEF IInv, AccountsOK, SessionsOK
<1> QED
  BY <1>1 DEF IInv, AccountsOK, SessionsOK, AccountIndexesSound, SessionIndexExact,
     ListAccountsByUserID, ListSessionsByUserID

(* Deleting a user leaves no account and no session of it behind.           *)
THEOREM DeleteUserIsCascading == Spec => DeleteUserCascades
<1> DEFINE Step == \A u \in UserIds : users[u] # None /\ users'[u] = None =>
                      /\ \A a \in AccountIds : accounts'[a] # None => accounts'[a].user # u
                      /\ \A t \in Tokens : sessions'[t] # None => sessions'[t].user # u
<1>1. IInv /\ [Next]_vars => Step
  <2> SUFFICES ASSUME IInv, [Next]_vars, NEW u \in UserIds, users[u] # None, users'[u] = None
               PROVE  /\ \A a \in AccountIds : accounts'[a] # None => accounts'[a].user # u
                      /\ \A t \in Tokens : sessions'[t] # None => sessions'[t].user # u
    OBVIOUS
  <2>1. users' # users
    OBVIOUS
  <2>2. UserStep
    BY <2>1 DEF Next, vars, userVars, AccountStep, CreateAccount, UpdateAccount, SetSecret,
       UpdateAccountPassword, DeleteAccount, SessionStep, CreateSession, UpdateSession,
       DeleteSession, DeleteSessionsByUserID, DeleteAllSessionsByUserID, DeleteSessions,
       VerificationStep, CreateVerification, DeleteVerificationByIdentifier, Refuse
  <2>3. DeleteUser(u)
    <3>1. PICK w \in UserIds : \/ \E e \in Emails : CreateUser(w, e) \/ UpdateUserEmail(w, e)
                               \/ DeleteUser(w)
      BY <2>2 DEF UserStep
    <3>2. ASSUME NEW e \in Emails, CreateUser(w, e) \/ UpdateUserEmail(w, e) PROVE FALSE
      BY <2>1, <3>2, NoneAssumption DEF CreateUser, UpdateUserEmail, Refuse, userVars, IInv, UsersOK
    <3> QED
      BY <2>1, <3>1, <3>2 DEF DeleteUser, Refuse, userVars, IInv, UsersOK
  <2>4. deleteAccountLocked(accountIDsByUser[u]) /\ deleteSessionLocked(sessionTokensByUser[u])
    BY <2>1, <2>3 DEF DeleteUser, Refuse, userVars
  <2> QED
    BY <2>4, DeletionByIndexIsByOwner DEF deleteAccountLocked, accountsWithout, deleteSessionLocked
<1> QED
  BY <1>1, Inductive, PTL DEF Spec, DeleteUserCascades

-----------------------------------------------------------------------------
(* Refinement: each step of the indexed store is a step of the tables, with *)
(* the rows no index entry names as the rows no lookup reaches.             *)
LEMMA InitImplements == Init => Contract!Init
BY DEF Init, New, Contract!Init, unlisted, shadowed, detached

(* An unchanged group of tables and indexes leaves its rows as reachable.   *)
LEMMA ReachUnchanged ==
    /\ UNCHANGED userVars => UNCHANGED <<users, unlisted>>
    /\ UNCHANGED accountVars => UNCHANGED <<accounts, shadowed, detached>>
    /\ UNCHANGED sessionVars => UNCHANGED sessions
BY DEF userVars, accountVars, sessionVars, unlisted, shadowed, detached

LEMMA RefuseImplements ==
    ASSUME NEW error, Refuse(error)
    PROVE  Contract!Refuse(error)
BY ReachUnchanged DEF Refuse, Contract!Refuse, Contract!tables, Contract!reach

(* Removing account rows does not make another account reachable or        *)
(* unreachable.                                                             *)
LEMMA DeleteKeepsReach ==
    ASSUME IInv, NEW ids \in SUBSET AccountIds, deleteAccountLocked(ids)
    PROVE  shadowed' = shadowed \ ids /\ detached' = detached \ ids
<1>1. ASSUME NEW a \in AccountIds, a \notin ids, accounts[a] # None
      PROVE  /\ accounts'[a] = accounts[a]
             /\ accountsByUserProvider'[UserProviderKey(accounts[a])] # a
                  <=> accountsByUserProvider[UserProviderKey(accounts[a])] # a
             /\ accountsByProvider'[ProviderKey(accounts[a])] # a
                  <=> accountsByProvider[ProviderKey(accounts[a])] # a
  <2>1. accounts[a] \in Account
    BY <1>1 DEF IInv, AccountsOK
  <2>2. /\ UserProviderKey(accounts[a]) \in accountUserProviderKey
        /\ ProviderKey(accounts[a]) \in accountProviderKey
    BY <2>1 DEF Account, UserProviderKey, ProviderKey, accountUserProviderKey, accountProviderKey
  <2>3. a # None
    BY NoneAssumption
  <2> QED
    BY <1>1, <2>2, <2>3 DEF deleteAccountLocked, accountsWithout, byProviderWithout,
       byUserProviderWithout
<1>2. \A a \in ids : accounts'[a] = None
  BY DEF deleteAccountLocked, accountsWithout
<1>3. \A a \in AccountIds : accounts[a] = None => accounts'[a] = None
  BY DEF deleteAccountLocked, accountsWithout
<1> QED
  BY <1>1, <1>2, <1>3 DEF shadowed, detached

LEMMA UserStepImplements == IInv /\ UserStep => Contract!Next
<1> SUFFICES ASSUME IInv, UserStep PROVE Contract!Next
  OBVIOUS
<1>1. ASSUME NEW u \in UserIds, NEW e \in Emails, CreateUser(u, e)
      PROVE  Contract!CreateUser(u, e)
  <2>1. CASE usersByEmail[e] # None /\ Refuse("alreadyExists")
    <3>1. usersByEmail[e] \in UserIds \ unlisted /\ users[usersByEmail[e]] = e
      BY <2>1 DEF IInv, UsersOK, EmailIndexSound, FindUserByEmail, unlisted
    <3> QED
      BY <1>1, <2>1, <3>1, RefuseImplements DEF CreateUser, Contract!CreateUser
  <2>2. CASE usersByEmail[e] = None /\ ~Refuse("alreadyExists")
    <3>1. /\ users[u] = None
          /\ users' = [users EXCEPT ![u] = e]
          /\ usersByEmail' = [usersByEmail EXCEPT ![e] = u]
          /\ reply' = "ok"
          /\ UNCHANGED <<accountVars, sessionVars, verifications>>
      BY <1>1, <2>2 DEF CreateUser
    <3>2. \A w \in UserIds \ unlisted : users[w] # e
      BY <2>2, NoneAssumption DEF unlisted
    <3>3. unlisted' = unlisted
      BY <2>2, <3>1, NoneAssumption DEF unlisted, IInv, UsersOK
    <3> QED
      BY <3>1, <3>2, <3>3, ReachUnchanged DEF Contract!CreateUser, Contract!reach
  <2> QED BY <1>1, <2>1, <2>2 DEF CreateUser, Refuse, userVars
<1>2. ASSUME NEW u \in UserIds, NEW e \in Emails, UpdateUserEmail(u, e)
      PROVE  Contract!UpdateUserEmail(u, e)
  <2>1. CASE users[u] = None /\ Refuse("notFound")
    BY <2>1, RefuseImplements DEF Contract!UpdateUserEmail
  <2>2. CASE /\ users[u] # None
             /\ users' = [users EXCEPT ![u] = e]
             /\ usersByEmail' = [usersByEmail EXCEPT ![users[u]] = None, ![e] = u]
             /\ reply' = "ok"
             /\ UNCHANGED <<accountVars, sessionVars, verifications>>
    <3>1. unlisted' = (unlisted \cup {w \in UserIds : users[w] \in {users[u], e}}) \ {u}
      BY <2>2, NoneAssumption DEF unlisted, IInv, UsersOK
    <3> QED
      BY <2>2, <3>1, ReachUnchanged DEF Contract!UpdateUserEmail
  <2> QED BY <1>2, <2>1, <2>2 DEF UpdateUserEmail
<1>3. ASSUME NEW u \in UserIds, DeleteUser(u)
      PROVE  Contract!DeleteUser(u)
  <2>1. CASE users[u] = None /\ Refuse("notFound")
    BY <2>1, RefuseImplements DEF Contract!DeleteUser
  <2>2. CASE /\ users[u] # None
             /\ usersByEmail' = [usersByEmail EXCEPT ![users[u]] = None]
             /\ users' = [users EXCEPT ![u] = None]
             /\ deleteAccountLocked(accountIDsByUser[u])
             /\ deleteSessionLocked(sessionTokensByUser[u])
             /\ reply' = "ok"
             /\ UNCHANGED verifications
    <3> DEFINE gone == {a \in AccountIds : accounts[a] # None /\ accounts[a].user = u}
               mine == {t \in Tokens : sessions[t] # None /\ sessions[t].user = u}
    <3>1. gone = accountIDsByUser[u] /\ mine = sessionTokensByUser[u]
      BY DeletionByIndexIsByOwner
    <3>2. unlisted' = (unlisted \cup {w \in UserIds : users[w] = users[u]}) \ {u}
      BY <2>2, NoneAssumption DEF unlisted, IInv, UsersOK
    <3>3. /\ accounts' = [a \in AccountIds |-> IF a \in gone THEN None ELSE accounts[a]]
          /\ sessions' = [t \in Tokens |-> IF sessions[t] # None /\ sessions[t].user = u
                                            THEN None ELSE sessions[t]]
      BY <2>2, <3>1 DEF deleteAccountLocked, accountsWithout, deleteSessionLocked
    <3>4. shadowed' = shadowed \ gone /\ detached' = detached \ gone
      BY <2>2, <3>1, DeleteKeepsReach
    <3> QED
      BY <2>2, <3>2, <3>3, <3>4 DEF Contract!DeleteUser
  <2> QED BY <1>3, <2>1, <2>2 DEF DeleteUser
<1> QED
  BY <1>1, <1>2, <1>3 DEF UserStep, Contract!Next

(* A new row takes its keys: it is reachable by both, and the other rows    *)
(* with one of them no longer are.                                          *)
LEMMA CreateAccountReach ==
    ASSUME IInv, NEW a \in AccountIds, NEW row \in Account, CreateAccount(a, row)
    PROVE  /\ shadowed' = (shadowed \cup {b \in AccountIds : Contract!SameKey(b, row)}) \ {a}
           /\ detached' = (detached \cup {b \in AccountIds : Contract!SameExternal(b, row)}) \ {a}
<1>1. /\ ProviderKey(row) \in accountProviderKey
      /\ UserProviderKey(row) \in accountUserProviderKey
      /\ row # None /\ a # None
  BY NoneAssumption DEF Account, ProviderKey, UserProviderKey, accountProviderKey,
     accountUserProviderKey
<1>2. \A b \in AccountIds : accounts[b] # None =>
          /\ ProviderKey(accounts[b]) \in accountProviderKey
          /\ UserProviderKey(accounts[b]) \in accountUserProviderKey
          /\ Contract!SameKey(b, row) <=> UserProviderKey(accounts[b]) = UserProviderKey(row)
          /\ Contract!SameExternal(b, row) <=> ProviderKey(accounts[b]) = ProviderKey(row)
  BY DEF IInv, AccountsOK, Account, ProviderKey, UserProviderKey, accountProviderKey,
     accountUserProviderKey, Contract!SameKey, Contract!SameExternal
<1>3. /\ accounts' = [accounts EXCEPT ![a] = row]
      /\ \A k \in accountProviderKey :
            accountsByProvider'[k] = IF k = ProviderKey(row) THEN a ELSE byProviderWithout({a})[k]
      /\ \A k \in accountUserProviderKey :
            accountsByUserProvider'[k] = IF k = UserProviderKey(row) THEN a
                                         ELSE byUserProviderWithout({a})[k]
  BY DEF CreateAccount, byProviderWithout, byUserProviderWithout
<1>4. ASSUME NEW b \in AccountIds, b # a, accounts[b] # None
      PROVE  /\ accountsByProvider'[ProviderKey(accounts[b])] # b
                  <=> accountsByProvider[ProviderKey(accounts[b])] # b
                        \/ ProviderKey(accounts[b]) = ProviderKey(row)
             /\ accountsByUserProvider'[UserProviderKey(accounts[b])] # b
                  <=> accountsByUserProvider[UserProviderKey(accounts[b])] # b
                        \/ UserProviderKey(accounts[b]) = UserProviderKey(row)
  <2>1. b # None
    BY NoneAssumption
  <2> QED
    BY <1>2, <1>3, <1>4, <2>1 DEF byProviderWithout, byUserProviderWithout
<1>5. \A b \in AccountIds : b # a => accounts'[b] = accounts[b]
  BY <1>3
<1>6. accounts'[a] = row
  BY <1>3 DEF IInv, AccountsOK
<1>7. a \notin shadowed' /\ a \notin detached'
  BY <1>1, <1>3, <1>6 DEF shadowed, detached
<1>8. \A b \in AccountIds : accounts[b] = None =>
          ~Contract!SameKey(b, row) /\ ~Contract!SameExternal(b, row)
  BY DEF Contract!SameKey, Contract!SameExternal
<1> QED
  BY <1>2, <1>4, <1>5, <1>7, <1>8 DEF shadowed, detached

LEMMA SetSecretReach ==
    ASSUME IInv, NEW a \in AccountIds, NEW s \in Secrets, accounts[a] # None, SetSecret(a, s)
    PROVE  UNCHANGED <<shadowed, detached>>
<1>1. accounts[a] \in Account
  BY DEF IInv, AccountsOK
<1>2. /\ accounts' = [accounts EXCEPT ![a].secret = s]
      /\ UNCHANGED <<accountsByProvider, accountsByUserProvider>>
  BY DEF SetSecret
<1>3. \A b \in AccountIds :
          /\ (accounts'[b] # None) <=> (accounts[b] # None)
          /\ ProviderKey(accounts'[b]) = ProviderKey(accounts[b])
          /\ UserProviderKey(accounts'[b]) = UserProviderKey(accounts[b])
  <2>1. [accounts[a] EXCEPT !.secret = s] \in Account
    BY <1>1 DEF Account
  <2> QED
    BY <1>1, <1>2, <2>1, NoneAssumption DEF IInv, AccountsOK, Account, ProviderKey, UserProviderKey
<1> QED
  BY <1>2, <1>3 DEF shadowed, detached

LEMMA AccountStepImplements == IInv /\ AccountStep => Contract!Next
<1> SUFFICES ASSUME IInv, AccountStep PROVE Contract!Next
  OBVIOUS
<1>1. ASSUME NEW a \in AccountIds, NEW row \in Account, CreateAccount(a, row)
      PROVE  Contract!CreateAccount(a, row)
  BY <1>1, CreateAccountReach, ReachUnchanged DEF CreateAccount, Contract!CreateAccount
<1>2. ASSUME NEW a \in AccountIds, NEW s \in Secrets, UpdateAccount(a, s)
      PROVE  Contract!UpdateAccount(a, s)
  BY <1>2, RefuseImplements, SetSecretReach, ReachUnchanged
     DEF UpdateAccount, SetSecret, Contract!UpdateAccount, Contract!reach
<1>3. ASSUME NEW a \in AccountIds, DeleteAccount(a)
      PROVE  Contract!DeleteAccount(a)
  <2>1. CASE accounts[a] = None /\ Refuse("notFound")
    BY <2>1, RefuseImplements DEF Contract!DeleteAccount
  <2>2. CASE /\ accounts[a] # None
             /\ deleteAccountLocked({a})
             /\ reply' = "ok"
             /\ UNCHANGED <<userVars, sessionVars, verifications>>
    <3>1. accounts' = [accounts EXCEPT ![a] = None]
      BY <2>2 DEF deleteAccountLocked, accountsWithout, IInv, AccountsOK
    <3> QED
      BY <2>2, <3>1, DeleteKeepsReach, ReachUnchanged DEF Contract!DeleteAccount
  <2> QED BY <1>3, <2>1, <2>2 DEF DeleteAccount
<1>4. ASSUME NEW u \in UserIds, NEW p \in Providers, NEW s \in Secrets,
             UpdateAccountPassword(u, p, s)
      PROVE  Contract!UpdateAccountPassword(u, p, s)
  <2> DEFINE id == accountsByUserProvider[<<u, p>>]
             reached == {a \in AccountIds \ shadowed :
                            accounts[a] # None /\ accounts[a].user = u /\ accounts[a].provider = p}
  <2>1. \A a \in reached : id = a
    <3>1. \A a \in reached : UserProviderKey(accounts[a]) = <<u, p>>
      BY DEF UserProviderKey
    <3> QED
      BY <3>1 DEF shadowed
  <2>2. CASE id = None /\ Refuse("notFound")
    BY <2>1, <2>2, RefuseImplements, NoneAssumption DEF Contract!UpdateAccountPassword
  <2>3. CASE id # None /\ SetSecret(id, s)
    <3>1. id \in AccountIds /\ accounts[id] # None /\ UserProviderKey(accounts[id]) = <<u, p>>
      BY <2>3 DEF IInv, AccountsOK, AccountIndexesSound, FindAccountByUserAndProvider,
         accountUserProviderKey
    <3>2. id \in reached
      BY <3>1 DEF shadowed, UserProviderKey
    <3> QED
      BY <2>3, <3>1, <3>2, SetSecretReach, ReachUnchanged
         DEF SetSecret, Contract!UpdateAccountPassword, Contract!reach
  <2> QED BY <1>4, <2>2, <2>3 DEF UpdateAccountPassword
<1> QED
  BY <1>1, <1>2, <1>3, <1>4 DEF AccountStep, Contract!Next, Contract!Account, Account

LEMMA SessionStepImplements == IInv /\ SessionStep => Contract!Next
<1> SUFFICES ASSUME IInv, SessionStep PROVE Contract!Next
  OBVIOUS
<1>1. ASSUME NEW t \in Tokens, NEW row \in Session, CreateSession(t, row)
      PROVE  Contract!PutSession(t, row)
  BY <1>1, ReachUnchanged DEF CreateSession, Contract!PutSession, Contract!reach
<1>2. ASSUME NEW t \in Tokens, NEW s \in Stamps, UpdateSession(t, s)
      PROVE  Contract!UpdateSession(t, s)
  BY <1>2, ReachUnchanged, RefuseImplements
     DEF UpdateSession, Contract!UpdateSession, Contract!PutSession, Contract!reach
<1>3. ASSUME NEW t \in Tokens, DeleteSession(t)
      PROVE  Contract!PutSession(t, None)
  <2>1. sessions' = [sessions EXCEPT ![t] = None]
    BY <1>3 DEF DeleteSession, DeleteSessions, deleteSessionLocked, IInv, SessionsOK
  <2> QED
    BY <1>3, <2>1, ReachUnchanged DEF DeleteSession, DeleteSessions, Contract!PutSession,
       Contract!reach
<1>4. ASSUME NEW u \in UserIds, NEW t \in Tokens, DeleteSessionsByUserID(u, t)
      PROVE  Contract!DeleteSessionsByUserID(u, t)
  BY <1>4, DeletionByIndexIsByOwner, ReachUnchanged DEF DeleteSessionsByUserID, DeleteSessions,
     deleteSessionLocked, Contract!DeleteSessionsByUserID, Contract!reach
<1>5. ASSUME NEW u \in UserIds, DeleteAllSessionsByUserID(u)
      PROVE  \E t \in Tokens \cup {None} : Contract!DeleteSessionsByUserID(u, t)
  <2>1. sessions' = [t \in Tokens |-> IF sessions[t] # None /\ sessions[t].user = u
                                      THEN None ELSE sessions[t]]
    BY <1>5, DeletionByIndexIsByOwner DEF DeleteAllSessionsByUserID, DeleteSessions,
       deleteSessionLocked
  <2>2. sessions' = [t \in Tokens |-> IF t # None /\ sessions[t] # None /\ sessions[t].user = u
                                      THEN None ELSE sessions[t]]
    BY <2>1, NoneAssumption
  <2> QED
    BY <1>5, <2>2, ReachUnchanged DEF DeleteAllSessionsByUserID, DeleteSessions,
       Contract!DeleteSessionsByUserID, Contract!reach
<1> QED
  BY <1>1, <1>2, <1>3, <1>4, <1>5 DEF SessionStep, Contract!Next, Contract!Session, Session

LEMMA VerificationStepImplements == VerificationStep => Contract!Next
BY RefuseImplements, ReachUnchanged DEF VerificationStep, CreateVerification,
   DeleteVerificationByIdentifier, Contract!Next, Contract!CreateVerification,
   Contract!DeleteVerificationByIdentifier, Contract!reach

(* The indexed in-memory store implements the tables of StoreContract: the  *)
(* index maps never change what a call does to a row or what it replies.    *)
THEOREM MemoryStoreImplementsContract == Spec => ImplementsContract
<1>1. IInv /\ [Next]_vars => [Contract!Next]_(Contract!vars)
  <2>1. UNCHANGED vars => UNCHANGED Contract!vars
    BY ReachUnchanged DEF vars, Contract!vars, Contract!tables, Contract!reach
  <2> QED
    BY <2>1, UserStepImplements, AccountStepImplements, SessionStepImplements,
       VerificationStepImplements DEF Next
<1> QED
  BY <1>1, InitImplements, Inductive, PTL DEF Spec, ImplementsContract, Contract!Spec

=============================================================================
